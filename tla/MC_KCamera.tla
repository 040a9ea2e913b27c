----------------------------- MODULE MC_KCamera -----------------------------
(* Instances of KCamera for TLC: one consumer thread reading the live     *)
(* streamer, one controller thread, two pthread_t values for capture       *)
(* threads (enough for a thread to start while its predecessor exits).    *)
EXTENDS KCamera, TLC

CONSTANTS p1, p2, c1, c2

MCConsumers == {p1}
MCControllers == {p2}
MCCaptures == {c1, c2}

AllOps == {"stop", "restart", "record", "stoprecord"}
StopOnly == {"stop"}
NoOps == {}
RecordOps == {"record", "stoprecord"}
==============================================================================
