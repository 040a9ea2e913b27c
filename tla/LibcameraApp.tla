---------------------------- MODULE LibcameraApp ----------------------------
(***************************************************************************)
(* The capture side of one kcStartCameraLoop call: run.cpp's event_loop   *)
(* driving the vendored LibcameraApp (libcamera_app.hpp), with libcamera's *)
(* completion thread calling requestComplete, and Python threads calling   *)
(* the control setters (kcSetBrightness ... kcSetAutoShutter) and          *)
(* kcStopCameraLoop.                                                       *)
(*                                                                         *)
(* A capture buffer set (one buffer per configured stream, as             *)
(* makeRequests pairs them) is a member of Bufs; a Request is a member of *)
(* Requests.  The camera completes the requests queued to it in order.     *)
(* A control update is named by a version number: ControlList::set of a    *)
(* newer value replaces the older one, so `_controls` (run.cpp) and        *)
(* `controls_` (LibcameraApp) each hold the newest version they were       *)
(* given, or 0 when empty.  The frame data handed to kcFrameData and the   *)
(* framerate computed in requestComplete are left out.                     *)
(***************************************************************************)
EXTENDS Integers, Sequences, Functions

CONSTANTS
  NumBufs,  \* buffers allocated per stream by setupCapture
  MaxCtl    \* bound on control updates (versions 1..MaxCtl)

ASSUME NumBufs \in Nat \ {0} /\ MaxCtl \in Nat \ {0}

Bufs == 1..NumBufs
Requests == 1..NumBufs      \* makeRequests: one Request per buffer set
NoBuf == 0
Versions == 0..MaxCtl + 1   \* the set-up's own update may pass MaxCtl
Exited == {"returned"}
Running == {"top", "wait", "queue"}   \* between StartCamera and StopCamera

VARIABLES
  loop,     \* the capture thread: "open", "config", "start" (event_loop's
            \* set-up), "top" (loop test), "wait" (app->Wait), "queue"
            \* (app->QueueRequest), "dtor", "teardown", "close" (the steps of
            \* ~LibcameraApp), "returned" (kcStartCameraLoop has returned)
  run,      \* run.cpp's static run flag
  acquired, \* camera_acquired_
  configured, \* configuration_, allocator_ and the mapped buffers exist
  started,  \* camera_started_ (requestCompleted is connected meanwhile)
  camq,     \* requests queued to the camera: [req, buf, ctl], oldest first
  freeq,    \* free_requests_
  msgq,     \* msg_queue_: the buffers of the completed requests posted
  held,     \* the CompletedRequest's buffer the loop holds, or NoBuf
  pyCtl,    \* run.cpp's _controls
  appCtl,   \* LibcameraApp's controls_
  applied,  \* newest control version the camera has applied
  ctlSet    \* versions set so far

vars == <<loop, run, acquired, configured, started, camq, freeq, msgq, held,
          pyCtl, appCtl, applied, ctlSet>>

\* What the set-up acquires and the destructor gives back.
owned == <<acquired, configured>>

\* makeRequests and the queueing loop of StartCamera: every Request gets
\* its buffer set and is queued, with no controls of its own.
makeRequests == [i \in Requests |-> [req |-> i, buf |-> i, ctl |-> 0]]

\* The setters: lock controls_mutex and set a control in _controls.
NewControl == /\ ctlSet' = ctlSet + 1
              /\ pyCtl' = ctlSet + 1

\* setupCapture: validate and configure the streams, then allocate and mmap
\* the buffers.  Each step may throw with the earlier ones done, so from
\* here on the configuration (and maybe the allocator and some mappings)
\* exist until Teardown.
setupCapture == configured' = TRUE

Init == /\ loop = "open"
        /\ run = TRUE               \* kcStartCameraLoop: run = true
        /\ acquired = FALSE /\ configured = FALSE /\ started = FALSE
        /\ camq = <<>> /\ freeq = <<>> /\ msgq = <<>>
        /\ held = NoBuf
        /\ pyCtl = 0 /\ appCtl = 0 /\ applied = 0 /\ ctlSet = 0

\* event_loop copies g_params through the setters into _controls, then
\* OpenCamera: start the manager, find and acquire the first camera; any
\* of these may throw, and the exception unwinds through ~LibcameraApp.
OpenCamera == /\ loop = "open"
              /\ NewControl
              /\ \E ok \in BOOLEAN : /\ acquired' = ok
                                    /\ loop' = IF ok THEN "config" ELSE "dtor"
              /\ UNCHANGED <<run, configured, started, camq, freeq, msgq,
                             held, appCtl, applied>>

\* ConfigureVideo: generate the configuration, set the formats and sizes,
\* and setupCapture; it throws when a step fails.
ConfigureVideo == /\ loop = "config"
                  /\ setupCapture
                  /\ \E ok \in BOOLEAN : loop' = IF ok THEN "start" ELSE "dtor"
                  /\ UNCHANGED <<run, acquired, started, camq, freeq, msgq,
                                 held, pyCtl, appCtl, applied, ctlSet>>

\* StartCamera: makeRequests, camera_->start with controls_ (either may
\* throw before the camera starts), then camera_started_, connect
\* requestComplete and queue the requests in turn; a failed queueRequest
\* throws with the first k queued and the camera running.
StartCamera ==
  /\ loop = "start"
  /\ \/ /\ loop' = "dtor"
        /\ UNCHANGED <<started, camq>>
     \/ /\ started' = TRUE
        /\ \E k \in 0..NumBufs :
             /\ camq' = SubSeq(makeRequests, 1, k)
             /\ loop' = IF k = NumBufs THEN "top" ELSE "dtor"
  /\ UNCHANGED <<run, acquired, configured, freeq, msgq, held, pyCtl, appCtl,
                 applied, ctlSet>>

\* A requestComplete that posts the buffers without freeing the Request.
requestCompleteNoFree == /\ started
                         /\ camq # <<>>
                         /\ camq' = Tail(camq)
                         /\ msgq' = Append(msgq, Head(camq).buf)
                         /\ UNCHANGED <<loop, run, owned, started, held, pyCtl,
                                        appCtl, applied, ctlSet, freeq>>

\* libcamera completes the oldest queued request and calls requestComplete:
\* the request is reused and pushed to free_requests_, then its buffers
\* are posted to msg_queue_.  The camera applied the request's controls.
requestComplete == /\ started
                   /\ camq # <<>>
                   /\ LET r == Head(camq) IN
                        /\ camq' = Tail(camq)
                        /\ freeq' = Append(freeq, r.req)
                        /\ msgq' = Append(msgq, r.buf)
                        /\ applied' = IF r.ctl # 0 THEN r.ctl ELSE applied
                   /\ UNCHANGED <<loop, run, owned, started, held, pyCtl,
                                  appCtl, ctlSet>>

\* Loop head with run set: under controls_mutex, a non-empty _controls is
\* moved into controls_ (SetControls), which leaves _controls empty.
SetControls == /\ loop = "top"
               /\ run
               /\ appCtl' = IF pyCtl # 0 THEN pyCtl ELSE appCtl
               /\ pyCtl' = 0
               /\ loop' = "wait"
               /\ UNCHANGED <<run, owned, started, camq, freeq, msgq, held,
                              applied, ctlSet>>

\* app->Wait(): block until msg_queue_ is non-empty and pop its front;
\* the buffer goes to kcFrameData.
Wait == /\ loop = "wait"
        /\ msgq # <<>>
        /\ held' = Head(msgq)
        /\ msgq' = Tail(msgq)
        /\ loop' = "queue"
        /\ UNCHANGED <<run, owned, started, camq, freeq, pyCtl, appCtl,
                       applied, ctlSet>>

\* Between Wait and QueueRequest event_loop throws on a message that is
\* not RequestComplete or a completed request without its video buffer or
\* mapping; the held buffers are dropped and the exception unwinds through
\* ~LibcameraApp with the camera running.
FrameThrows == /\ loop = "queue"
               /\ held' = NoBuf
               /\ loop' = "dtor"
               /\ UNCHANGED <<run, owned, started, camq, freeq, msgq, pyCtl,
                              appCtl, applied, ctlSet>>

\* QueueRequest with the camera_started_ test inverted, and one that
\* leaves controls_ behind.
QueueRequestInverted ==
  /\ loop = "queue"
  /\ IF freeq = <<>>
       THEN UNCHANGED <<freeq, camq, appCtl>>
       ELSE /\ freeq' = Tail(freeq)
            /\ appCtl' = 0
            /\ camq' = IF ~started
                         THEN Append(camq, [req |-> Head(freeq), buf |-> held,
                                            ctl |-> appCtl])
                         ELSE camq
  /\ held' = NoBuf
  /\ loop' = "top"
  /\ UNCHANGED <<run, owned, started, msgq, pyCtl, applied, ctlSet>>

QueueRequestKeepsControls ==
  /\ loop = "queue"
  /\ IF freeq = <<>>
       THEN UNCHANGED freeq /\ UNCHANGED camq
       ELSE /\ freeq' = Tail(freeq)
            /\ camq' = Append(camq, [req |-> Head(freeq), buf |-> held,
                                      ctl |-> 0])
  /\ held' = NoBuf
  /\ loop' = "top"
  /\ UNCHANGED <<run, owned, started, msgq, pyCtl, appCtl, applied, ctlSet>>

\* app->QueueRequest(completed_request): pop a free Request (or return with
\* a warning, dropping the buffers), add the buffers, move controls_ into
\* it, and queue it to the camera (a failure there is only printed).
QueueRequest ==
  /\ loop = "queue"
  /\ IF freeq = <<>>
       THEN UNCHANGED <<freeq, camq, appCtl>>
       ELSE /\ freeq' = Tail(freeq)
            /\ appCtl' = 0
            /\ camq' = IF started
                         THEN Append(camq, [req |-> Head(freeq), buf |-> held,
                                            ctl |-> appCtl])
                         ELSE camq
  /\ held' = NoBuf
  /\ loop' = "top"
  /\ UNCHANGED <<run, owned, started, msgq, pyCtl, applied, ctlSet>>

\* StopCamera with its camera_started_ test inverted.
StopCameraInverted == /\ UNCHANGED <<started, camq>>
                      /\ msgq' = <<>> /\ freeq' = <<>>
                      /\ appCtl' = 0

\* StopCamera: if the camera started, camera_->stop (which cancels the
\* queued requests; their requestComplete returns at once) and clear
\* camera_started_; disconnect requestComplete; clear msg_queue_,
\* free_requests_, requests_ and controls_.
StopCamera == /\ started' = FALSE
              /\ camq' = <<>> /\ msgq' = <<>> /\ freeq' = <<>>
              /\ appCtl' = 0

\* Loop head with run clear: app->StopCamera(), then kcStopped, and
\* event_loop returns; kcStartCameraLoop sets app = nullptr and leaves the
\* scope of _app, whose destructor runs next.
LeaveLoop == /\ loop = "top"
             /\ ~run
             /\ StopCamera
             /\ loop' = "dtor"
             /\ UNCHANGED <<run, acquired, configured, held, pyCtl, applied,
                            ctlSet>>

\* ~LibcameraApp, in its order: StopCamera, Teardown (munmap the buffers,
\* delete the allocator, drop the configuration and the streams) and
\* CloseCamera (release the camera if acquired, drop the manager).  It runs
\* after event_loop returns and while an exception unwinds; libcamera's
\* thread may complete a request between any two of its steps.
DtorStop == /\ loop = "dtor"
            /\ StopCamera
            /\ loop' = "teardown"
            /\ UNCHANGED <<run, acquired, configured, held, pyCtl, applied,
                           ctlSet>>

Teardown == /\ loop = "teardown"
            /\ configured' = FALSE
            /\ loop' = "close"
            /\ UNCHANGED <<run, acquired, started, camq, freeq, msgq, held,
                           pyCtl, appCtl, applied, ctlSet>>

CloseCamera == /\ loop = "close"
               /\ acquired' = FALSE
               /\ loop' = "returned"
               /\ UNCHANGED <<run, configured, started, camq, freeq, msgq,
                              held, pyCtl, appCtl, applied, ctlSet>>

\* A Python thread calls one of the setters.
KcSetControl == /\ ctlSet < MaxCtl
                /\ NewControl
                /\ UNCHANGED <<loop, run, owned, started, camq, freeq, msgq,
                               held, appCtl, applied>>

\* kcStopCameraLoop: run = false.
kcStopCameraLoop == /\ run
                    /\ run' = FALSE
                    /\ UNCHANGED <<loop, owned, started, camq, freeq, msgq,
                                   held, pyCtl, appCtl, applied, ctlSet>>

\* The capture thread has returned from kcStartCameraLoop.
Returned == loop \in Exited /\ UNCHANGED vars

Next == \/ OpenCamera \/ ConfigureVideo \/ StartCamera \/ requestComplete
        \/ SetControls \/ Wait \/ QueueRequest \/ FrameThrows \/ LeaveLoop
        \/ DtorStop \/ Teardown \/ CloseCamera
        \/ KcSetControl \/ kcStopCameraLoop \/ Returned

\* The steps of the capture thread, one enabled at a time.
CaptureThread == \/ OpenCamera \/ ConfigureVideo \/ StartCamera
                 \/ SetControls \/ Wait \/ QueueRequest \/ FrameThrows
                 \/ LeaveLoop
                 \/ DtorStop \/ Teardown \/ CloseCamera

\* The capture thread is scheduled by the OS, and the sensor keeps
\* completing queued requests while the camera runs.  The Python calls are
\* the user's and need not happen.
Fairness == WF_vars(CaptureThread) /\ WF_vars(requestComplete)

Spec == Init /\ [][Next]_vars /\ Fairness

-----------------------------------------------------------------------------
TypeOK ==
  /\ loop \in {"open", "config", "start", "dtor", "teardown", "close"}
               \cup Running \cup Exited
  /\ {run, acquired, configured, started} \subseteq BOOLEAN
  /\ camq \in Seq([req : Requests, buf : Bufs, ctl : Versions])
  /\ freeq \in Seq(Requests) /\ msgq \in Seq(Bufs)
  /\ held \in Bufs \cup {NoBuf}
  /\ {pyCtl, appCtl, applied, ctlSet} \subseteq Versions

HeldSeq == IF held = NoBuf THEN <<>> ELSE <<held>>
CameraBufs == [i \in 1..Len(camq) |-> camq[i].buf]
CameraReqs == [i \in 1..Len(camq) |-> camq[i].req]
Circulating == CameraBufs \o msgq \o HeldSeq

\* While the camera runs, requestComplete, Wait and QueueRequest keep every
\* buffer set in exactly one place (queued to the camera, posted, or held
\* by the loop) and every Request queued or free, with a free Request for
\* each buffer set out of the camera: QueueRequest never takes its
\* "could not make request" return and no buffer leaves circulation.
\* (A StartCamera that throws leaves the rest of the Requests unqueued;
\* the destructor stops the camera.)
BuffersCirculate ==
  started /\ loop \in Running =>
    /\ IsInjective(Circulating) /\ Range(Circulating) = Bufs
    /\ IsInjective(CameraReqs \o freeq)
    /\ Range(CameraReqs \o freeq) = Requests
    /\ Len(freeq) = Len(msgq) + Len(HeldSeq)

\* After kcStopCameraLoop the capture thread reaches kcStopped: the loop
\* tests run only after app->Wait() returns, so this rests on a completed
\* request always being on its way while the loop waits.
LoopExits == ~run ~> loop \in Exited

\* A control set by a Python setter while the camera runs reaches the
\* camera in a later request (or a newer value does), unless the loop
\* stops first: SetControls moves it from _controls to controls_ and
\* QueueRequest from controls_ into the next queued request.
ControlsReachCamera ==
  \A v \in Versions \ {0} : ctlSet >= v ~> (applied >= v \/ loop \in Exited)

\* The camera only holds requests, and can only complete them into the
\* mapped buffers, while the camera is acquired and configured: on every
\* path, the normal exit and an exception from any set-up step, the
\* camera is stopped before ~LibcameraApp's Teardown unmaps the buffers
\* and CloseCamera releases it, and when kcStartCameraLoop returns
\* nothing is left acquired, mapped or running.
CameraLifecycle ==
  /\ (started \/ camq # <<>>) => acquired /\ configured
  /\ loop \in Exited => ~acquired /\ ~configured /\ ~started
=============================================================================
