--------------------------- MODULE MC_LibcameraApp ---------------------------
(* Model-checking instance of LibcameraApp. *)
EXTENDS LibcameraApp

\* Three buffer sets: a completion can be posted while another waits in
\* msg_queue_ and a third is queued, so the queues reorder Requests.
MCNumBufs == 3
\* The set-up controls and two updates from Python.
MCMaxCtl == 3
=============================================================================
