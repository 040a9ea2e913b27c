------------------------------ MODULE KCamera ------------------------------
(***************************************************************************)
(* The capture lifecycle of src/kcamera.c and src/run.cpp: Python threads  *)
(* calling into the library (streamer.frame() on the live streamer, kcStop *)
(* through streamer.stop()/dealloc/kcExit, a resolution or mode change     *)
(* through kcUpdateParams, camera.record(), and kcStopRecord through a     *)
(* record streamer's stop()), and the capture threads that kcStart creates *)
(* (vidThread -> kcStartCameraLoop -> event_loop -> kcFrameData).          *)
(*                                                                         *)
(* Every section under m_frameMutex is one atomic step, so that mutex is   *)
(* implicit; paramsMutex and the GIL are held across steps and are         *)
(* variables naming their owner.  m_cond is the set of its waiters, and   *)
(* pthread_cond_signal removes one of them.  The live frame in m_frame is  *)
(* its age in frame intervals; a recording list is its length and its     *)
(* m_recording flag (start shift 0; the list itself is module FrameList).  *)
(* A capture thread's identity is its pthread_t, reused once joined.       *)
(***************************************************************************)
EXTENDS Integers, Sequences, FiniteSets
LOCAL INSTANCE Graphs

CONSTANTS
  NULL,                 \* NULL pointer, the zero pthread_t, no owner
  Consumers,            \* Python threads calling frame() on the live streamer
  Controllers,          \* Python threads calling the other operations
  Ops,                  \* the operations the controllers call
  Captures,             \* pthread_t values for capture threads
  MaxRecords,           \* bound on the recordings created
  RecordFrames,         \* frames in a recording when its duration is reached
  LatencyFrames,        \* frame intervals in max_latency
  FrameTimeout,         \* 5 s may pass without a kcNextStreamFrame call
  AllocMayFail,         \* the malloc of a frame in kcFrameData may fail
  MemReserveMayExceed,  \* kcMemReserveExceeded may become true
  RecordWhileRunning    \* camera.record() may be called while capture runs

Py == Consumers \cup Controllers
Threads == Py \cup Captures

ASSUME /\ NULL \notin Threads /\ Consumers \cap Controllers = {}
       /\ Ops \subseteq {"stop", "restart", "record", "stoprecord"}
       /\ MaxRecords \in Nat /\ RecordFrames \in Nat \ {0}
       /\ LatencyFrames \in Nat

VARIABLES
  pc,            \* thread -> the point it has reached
  call,          \* thread -> arguments of its kcStopInternal and return point
  stop,          \* capture thread -> the local `stop` of kcFrameData
  record,        \* Python thread -> the local `record` of streamer_frame
  gil,           \* owner of the GIL
  params,        \* owner of g_state.m_paramsMutex
  waiters,       \* threads blocked in pthread_cond_wait on g_state.m_cond
  m_run, m_stopping, m_frame, m_record, m_thread, m_frameTimer,  \* g_state
  lists,         \* the FrameLists created by kcStartRecord, by m_record index
  run,           \* run.cpp: static bool run
  app,           \* run.cpp: static LibcameraRaw *app (owner of the object)
  camera,        \* the capture thread whose LibcameraApp holds the camera
  joined,        \* capture threads already joined
  recStreamer    \* Py thread -> m_record of the Streamer camera.record() gave it

vars == <<pc, call, stop, record, gil, params, waiters, m_run, m_stopping,
          m_frame, m_record, m_thread, m_frameTimer, lists, run, app, camera,
          joined, recStreamer>>

Stale == LatencyFrames + 1             \* any age beyond max_latency
Ages == 0..Stale
Exited == {"exited", "failed"}         \* a capture thread that has returned

(* pthread_create may hand out a pthread_t never used or already joined. *)
Reusable(c) == pc[c] = "none" \/ c \in joined

(* pthread_join(m_thread) is defined only for a created, unjoined thread. *)
Joinable(x) == x \in Captures /\ x \notin joined /\ pc[x] # "none"

(* pthread_cond_signal(&g_state.m_cond): wake one waiter, if any. *)
SignalOne ==
  waiters' \in IF waiters = {} THEN {{}} ELSE {waiters \ {w} : w \in waiters}

(* The point a call of kcStart/kcStopInternal returns to, and the GIL     *)
(* after it: returning to the interpreter ends the Python call.           *)
RetPc(t) == IF call[t].ret = "done" THEN "idle" ELSE call[t].ret
RetGil(t) == IF call[t].ret = "done" THEN NULL ELSE gil

Goto(t, l) == pc' = [pc EXCEPT ![t] = l]

(* kcStopRecord (kcamera.c 531-540) applied to m_record and lists. *)
StopRecordVars ==
  /\ lists' = IF m_record # NULL
              THEN [lists EXCEPT ![m_record].recording = 0] ELSE lists
  /\ m_record' = NULL

(* The Python thread t, holding no lock, starts a call: it takes the GIL. *)
Begin(t) == pc[t] = "idle" /\ gil = NULL /\ gil' = t

-----------------------------------------------------------------------------
(* streamer_frame on the live streamer (streamer.c 171-177): take the GIL *)
(* and read kcGetRecord() into the local `record`.                         *)
StreamerFrame(t) ==
  /\ t \in Consumers /\ Begin(t)
  /\ record' = [record EXCEPT ![t] = m_record]
  /\ Goto(t, IF m_record # NULL THEN "lr_wait" ELSE "ns_run")
  /\ UNCHANGED <<call, stop, params, waiters, m_run, m_stopping, m_frame,
                 m_record, m_thread, m_frameTimer, lists, run, app, camera,
                 joined, recStreamer>>

(* kcNextStreamFrame, lines 262-263: start capture if it is not running. *)
NsRun(t) ==
  /\ pc[t] = "ns_run"
  /\ IF m_run = 0
     THEN /\ call' = [call EXCEPT ![t].ret = "ns_lock"]
          /\ Goto(t, "ks_params")
     ELSE /\ Goto(t, "ns_lock") /\ UNCHANGED call
  /\ UNCHANGED <<stop, record, gil, params, waiters, m_run, m_stopping,
                 m_frame, m_record, m_thread, m_frameTimer, lists, run, app,
                 camera, joined, recStreamer>>

(* kcNextStreamFrame, lines 265-284: reset the timer, and either take the *)
(* frame and return, or release the GIL and wait on m_cond.               *)
NsLock(t) ==
  /\ pc[t] = "ns_lock"
  /\ m_frameTimer' = "set"
  /\ gil' = NULL
  /\ IF m_frame = NULL /\ m_run = 1
     THEN /\ waiters' = waiters \cup {t} /\ Goto(t, "ns_wait")
          /\ UNCHANGED m_frame
     ELSE /\ m_frame' = NULL /\ Goto(t, "idle") /\ UNCHANGED waiters
  /\ UNCHANGED <<call, stop, record, params, m_run, m_stopping, m_record,
                 m_thread, lists, run, app, camera, joined, recStreamer>>

(* kcNextStreamFrame, lines 275-284, woken: re-test the loop condition    *)
(* under m_frameMutex; wait again or take m_frame.                        *)
NsWait(t) ==
  /\ pc[t] = "ns_wait" /\ t \notin waiters
  /\ IF m_frame = NULL /\ m_run = 1
     THEN /\ waiters' = waiters \cup {t} /\ UNCHANGED <<pc, m_frame, recStreamer>>
     ELSE /\ m_frame' = NULL /\ Goto(t, "ns_gil") /\ UNCHANGED waiters
  /\ UNCHANGED <<call, stop, record, gil, params, m_run, m_stopping, m_record,
                 m_thread, m_frameTimer, lists, run, app, camera, joined, recStreamer>>

(* kcNextStreamFrame, lines 287-288: PyEval_RestoreThread, then return.  *)
NsGil(t) ==
  /\ pc[t] = "ns_gil" /\ gil = NULL
  /\ Goto(t, "idle")
  /\ UNCHANGED <<call, stop, record, gil, params, waiters, m_run, m_stopping,
                 m_frame, m_record, m_thread, m_frameTimer, lists, run, app,
                 camera, joined, recStreamer>>

(* kcWaitLastRecordFrame (kcamera.c 245-252), entry: wait on m_cond,      *)
(* keeping the GIL, while the recording has no frame and capture runs.    *)
LrWait(t) ==
  /\ pc[t] = "lr_wait"
  /\ IF m_record # NULL /\ lists[m_record].len = 0 /\ m_run = 1
     THEN waiters' = waiters \cup {t} /\ Goto(t, "lr_sleep")
     ELSE Goto(t, "lr_copy") /\ UNCHANGED waiters
  /\ UNCHANGED <<call, stop, record, gil, params, m_run, m_stopping, m_frame,
                 m_record, m_thread, m_frameTimer, lists, run, app, camera,
                 joined, recStreamer>>

(* kcWaitLastRecordFrame, woken: line 248 re-reads g_state.m_record->m_back, *)
(* a NULL dereference if the recording was detached meanwhile.            *)
LrSleep(t) ==
  /\ pc[t] = "lr_sleep" /\ t \notin waiters
  /\ CASE m_record = NULL -> Goto(t, "segv") /\ UNCHANGED waiters
       [] lists[m_record].len = 0 /\ m_run = 1 ->
            waiters' = waiters \cup {t} /\ UNCHANGED pc
       [] OTHER -> Goto(t, "lr_copy") /\ UNCHANGED waiters
  /\ UNCHANGED <<call, stop, record, gil, params, m_run, m_stopping, m_frame,
                 m_record, m_thread, m_frameTimer, lists, run, app, camera,
                 joined, recStreamer>>

(* streamer_frame, lines 178-182 and 220-223: copy record->m_back's frame; *)
(* kcCopyFrame(NULL) dereferences NULL when the recording has no frame.   *)
LrCopy(t) ==
  /\ pc[t] = "lr_copy"
  /\ IF lists[record[t]].len > 0
     THEN Goto(t, "idle") /\ gil' = NULL
     ELSE Goto(t, "segv") /\ UNCHANGED gil
  /\ UNCHANGED <<call, stop, record, params, waiters, m_run, m_stopping,
                 m_frame, m_record, m_thread, m_frameTimer, lists, run, app,
                 camera, joined, recStreamer>>

(* kcStop from a controller (streamer_stop or streamer_dealloc on the    *)
(* live streamer, kcExit): kcStopInternal(1, 1), kcamera.c 213-216.       *)
KcStop(t) ==
  /\ t \in Controllers /\ "stop" \in Ops /\ Begin(t)
  /\ call' = [call EXCEPT ![t] = [join |-> TRUE, signal |-> TRUE, ret |-> "done"]]
  /\ Goto(t, "si_check")
  /\ UNCHANGED <<stop, record, params, waiters, m_run, m_stopping, m_frame,
                 m_record, m_thread, m_frameTimer, lists, run, app, camera,
                 joined, recStreamer>>

(* camera_setAttr of "resolution" or "mode" calls kcUpdateParams with a    *)
(* change that needs a restart.                                            *)
Restart(t) ==
  /\ t \in Controllers /\ "restart" \in Ops /\ Begin(t)
  /\ Goto(t, "up_params")
  /\ UNCHANGED <<call, stop, record, params, waiters, m_run, m_stopping,
                 m_frame, m_record, m_thread, m_frameTimer, lists, run, app,
                 camera, joined, recStreamer>>

(* kcUpdateParams, lines 412-442: compare under paramsMutex. *)
UpParams(t) ==
  /\ pc[t] = "up_params" /\ params = NULL
  /\ Goto(t, "up_run")
  /\ UNCHANGED <<call, stop, record, gil, params, waiters, m_run, m_stopping,
                 m_frame, m_record, m_thread, m_frameTimer, lists, run, app,
                 camera, joined, recStreamer>>

(* kcUpdateParams, lines 444-461: if running, kcStopInternal(1, 0) and    *)
(* kcStart; otherwise copy the parameters under paramsMutex and return.  *)
UpRun(t) ==
  /\ pc[t] = "up_run"
  /\ \/ /\ m_run = 1
        /\ call' = [call EXCEPT ![t] = [join |-> TRUE, signal |-> FALSE,
                                        ret |-> "up_start"]]
        /\ Goto(t, "si_check") /\ UNCHANGED gil
     \/ /\ m_run = 0 /\ params = NULL
        /\ Goto(t, "idle") /\ gil' = NULL /\ UNCHANGED call
  /\ UNCHANGED <<stop, record, params, waiters, m_run, m_stopping, m_frame,
                 m_record, m_thread, m_frameTimer, lists, run, app, camera,
                 joined, recStreamer>>

(* kcUpdateParams, lines 452-454: reset the shutter speed, kcStart. *)
UpStart(t) ==
  /\ pc[t] = "up_start"
  /\ call' = [call EXCEPT ![t].ret = "done"]
  /\ Goto(t, "ks_params")
  /\ UNCHANGED <<stop, record, gil, params, waiters, m_run, m_stopping,
                 m_frame, m_record, m_thread, m_frameTimer, lists, run, app,
                 camera, joined, recStreamer>>

(* camera_record (kcameramodule.c 117-119): stop the current recording.   *)
CameraRecord(t) ==
  /\ t \in Controllers /\ "record" \in Ops /\ Begin(t)
  /\ Len(lists) < MaxRecords
  /\ RecordWhileRunning \/ m_run = 0
  /\ StopRecordVars
  /\ Goto(t, "rc_start")
  /\ UNCHANGED <<call, stop, record, params, waiters, m_run, m_stopping,
                 m_frame, m_thread, m_frameTimer, run, app, camera, joined, recStreamer>>

(* camera_record, lines 122-129: kcStartRecord (kcamera.c 515-521) makes  *)
(* a new list with flistInit the active recording, then kcStart.         *)
RcStart(t) ==
  /\ pc[t] = "rc_start"
  /\ IF m_record # NULL
     THEN Goto(t, "idle") /\ gil' = NULL /\ UNCHANGED <<call, m_record, lists, recStreamer>>
     ELSE /\ lists' = Append(lists, [len |-> 0, recording |-> 1])
          /\ m_record' = Len(lists) + 1
          /\ call' = [call EXCEPT ![t].ret = "rc_stream"]
          /\ Goto(t, "ks_params") /\ UNCHANGED gil
  /\ UNCHANGED <<stop, record, params, waiters, m_run, m_stopping, m_frame,
                 m_thread, m_frameTimer, run, app, camera, joined, recStreamer>>

(* camera_record, lines 131-132, after kcStart: createStream("") runs    *)
(* streamer_init (streamer.c 115-129), whose record streamer takes        *)
(* kcGetRecord(), whatever list is active by then; the call returns.      *)
RcStream(t) ==
  /\ pc[t] = "rc_stream"
  /\ recStreamer' = [recStreamer EXCEPT ![t] = m_record]
  /\ Goto(t, "idle") /\ gil' = NULL
  /\ UNCHANGED <<call, stop, record, params, waiters, m_run, m_stopping,
                 m_frame, m_record, m_thread, m_frameTimer, lists, run, app,
                 camera, joined>>

(* streamer_stop on a record streamer, or streamer_dealloc of the active  *)
(* one: kcStopRecord (streamer.c 20-23, 252-253).                          *)
StreamerStop(t) ==
  /\ t \in Controllers /\ "stoprecord" \in Ops
  /\ pc[t] = "idle" /\ gil = NULL
  /\ StopRecordVars
  /\ UNCHANGED <<pc, call, stop, record, gil, params, waiters, m_run,
                 m_stopping, m_frame, m_thread, m_frameTimer, run, app, camera,
                 joined, recStreamer>>
-----------------------------------------------------------------------------
(* kcStart, line 138: lock paramsMutex. *)
KsParams(t) ==
  /\ pc[t] = "ks_params" /\ params = NULL
  /\ params' = t /\ Goto(t, "ks_spin")
  /\ UNCHANGED <<call, stop, record, gil, waiters, m_run, m_stopping, m_frame,
                 m_record, m_thread, m_frameTimer, lists, run, app, camera,
                 joined, recStreamer>>

(* Mutant of KsSpin: kcStart without the wait for m_stopping. *)
KsSpinNoWait(t) ==
  /\ pc[t] = "ks_spin"
  /\ m_frame' = NULL /\ m_run' = 1 /\ m_frameTimer' = "zero"
  /\ Goto(t, "ks_create")
  /\ UNCHANGED <<call, stop, record, gil, params, waiters, m_stopping,
                 m_record, m_thread, lists, run, app, camera, joined, recStreamer>>

(* kcStart, lines 141-154: spin while m_stopping, then reset the frame    *)
(* state under m_frameMutex.                                               *)
KsSpin(t) ==
  /\ pc[t] = "ks_spin" /\ m_stopping = 0
  /\ m_frame' = NULL /\ m_run' = 1 /\ m_frameTimer' = "zero"
  /\ Goto(t, "ks_create")
  /\ UNCHANGED <<call, stop, record, gil, params, waiters, m_stopping,
                 m_record, m_thread, lists, run, app, camera, joined, recStreamer>>

(* kcStart, lines 156-175: pthread_create the capture thread, unlock. *)
KsCreate(t) ==
  /\ pc[t] = "ks_create"
  /\ \E c \in Captures :
       /\ Reusable(c)
       /\ pc' = [pc EXCEPT ![c] = "c_start", ![t] = RetPc(t)]
       /\ m_thread' = c /\ joined' = joined \ {c}
  /\ params' = NULL /\ gil' = RetGil(t)
  /\ UNCHANGED <<call, stop, record, waiters, m_run, m_stopping, m_frame,
                 m_record, m_frameTimer, lists, run, app, camera, recStreamer>>

(* kcStopInternal, lines 180-181: return at once if m_stopping (read     *)
(* without a lock).                                                        *)
SiCheck(t) ==
  /\ pc[t] = "si_check"
  /\ IF m_stopping = 1
     THEN pc' = [pc EXCEPT ![t] = RetPc(t)] /\ gil' = RetGil(t)
     ELSE Goto(t, "si_params") /\ UNCHANGED gil
  /\ UNCHANGED <<call, stop, record, params, waiters, m_run, m_stopping,
                 m_frame, m_record, m_thread, m_frameTimer, lists, run, app,
                 camera, joined, recStreamer>>

(* kcStopInternal, lines 183-186: lock paramsMutex, kcStopCameraLoop. *)
SiParams(t) ==
  /\ pc[t] = "si_params" /\ params = NULL
  /\ params' = t /\ run' = FALSE /\ Goto(t, "si_frame")
  /\ UNCHANGED <<call, stop, record, gil, waiters, m_run, m_stopping, m_frame,
                 m_record, m_thread, m_frameTimer, lists, app, camera, joined, recStreamer>>

(* kcStopInternal, lines 188-200: under m_frameMutex clear m_run and, if  *)
(* signalling, wake a waiter, free the live frame and detach m_record.    *)
SiFrame(t) ==
  /\ pc[t] = "si_frame"
  /\ m_run' = 0
  /\ IF call[t].signal
     THEN SignalOne /\ m_frame' = NULL /\ m_record' = NULL
     ELSE UNCHANGED <<waiters, m_frame, m_record, recStreamer>>
  /\ Goto(t, "si_join")
  /\ UNCHANGED <<call, stop, record, gil, params, m_stopping, m_thread,
                 m_frameTimer, lists, run, app, camera, joined, recStreamer>>

(* kcStopInternal, lines 203-210: pthread_join(m_thread) still holding    *)
(* paramsMutex, or set m_stopping; then unlock.  Joining a pthread_t that  *)
(* is not joinable returns at once here (ESRCH).                           *)
SiJoin(t) ==
  /\ pc[t] = "si_join"
  /\ IF call[t].join
     THEN /\ Joinable(m_thread) => pc[m_thread] \in Exited
          /\ joined' = IF Joinable(m_thread) THEN joined \cup {m_thread}
                       ELSE joined
          /\ UNCHANGED m_stopping
     ELSE m_stopping' = 1 /\ UNCHANGED joined
  /\ params' = NULL
  /\ pc' = [pc EXCEPT ![t] = RetPc(t)] /\ gil' = RetGil(t)
  /\ UNCHANGED <<call, stop, record, waiters, m_run, m_frame, m_record,
                 m_thread, m_frameTimer, lists, run, app, camera, recStreamer>>
-----------------------------------------------------------------------------
(* kcStopInternal(0, 1) as the capture thread calls it (kcamera.c 404). *)
CaptureStop == [join |-> FALSE, signal |-> TRUE, ret |-> "c_loop"]

(* kcStartCameraLoop (run.cpp 82-86): run = true, app = &_app. *)
CStart(c) ==
  /\ pc[c] = "c_start"
  /\ run' = TRUE /\ app' = c /\ Goto(c, "c_open")
  /\ UNCHANGED <<call, stop, record, gil, params, waiters, m_run, m_stopping,
                 m_frame, m_record, m_thread, m_frameTimer, lists, camera,
                 joined, recStreamer>>

(* event_loop, lines 33-51: OpenCamera (libcamera_app.hpp 107-126) throws *)
(* when the camera is still held; kcStartCameraLoop catches it (run.cpp    *)
(* 90-94) and returns without kcStopped and with app left dangling.        *)
COpen(c) ==
  /\ pc[c] = "c_open"
  /\ IF camera = NULL
     THEN camera' = c /\ Goto(c, "c_loop")
     ELSE Goto(c, "failed") /\ UNCHANGED camera
  /\ UNCHANGED <<call, stop, record, gil, params, waiters, m_run, m_stopping,
                 m_frame, m_record, m_thread, m_frameTimer, lists, run, app,
                 joined, recStreamer>>

(* event_loop, lines 52-60 and 75-76: while run, wait for the next frame; *)
(* after the loop StopCamera and kcStopped (m_stopping = 0).               *)
CLoop(c) ==
  /\ pc[c] = "c_loop"
  /\ IF run
     THEN Goto(c, "c_fd") /\ UNCHANGED m_stopping
     ELSE Goto(c, "c_exit") /\ m_stopping' = 0
  /\ UNCHANGED <<call, stop, record, gil, params, waiters, m_run, m_frame,
                 m_record, m_thread, m_frameTimer, lists, run, app, camera,
                 joined, recStreamer>>

(* kcStartCameraLoop, line 88 and the end of its scope: app = nullptr,    *)
(* then ~LibcameraApp (libcamera_app.hpp 98-103) releases the camera.      *)
CExit(c) ==
  /\ pc[c] = "c_exit"
  /\ app' = NULL /\ camera' = NULL /\ Goto(c, "exited")
  /\ UNCHANGED <<call, stop, record, gil, params, waiters, m_run, m_stopping,
                 m_frame, m_record, m_thread, m_frameTimer, lists, run, joined, recStreamer>>

(* kcFrameData, lines 346-350: the live frame kept when a frame arrives:  *)
(* dropped if expired (age beyond max_latency, no recording), else older. *)
Kept ==
  IF m_frame = NULL \/ (m_record = NULL /\ m_frame >= LatencyFrames) THEN NULL
  ELSE IF m_frame < Stale THEN m_frame + 1 ELSE Stale

(***************************************************************************)
(* kcFrameData (kcamera.c 323-399) under m_frameMutex: the timeout stop   *)
(* (325-329); otherwise drop an expired live frame, copy the frame when    *)
(* the mailbox is empty or a recording is attached and capture runs       *)
(* (356-387; a failed malloc sets stop and stopRecord), append it to the   *)
(* recording (flistAppend returns -1 when the duration is reached) or      *)
(* publish it, signal m_cond, and check the memory reserve (392-396).     *)
(***************************************************************************)
CFrameData(c) ==
  /\ pc[c] = "c_fd"
  /\ \/ /\ m_record = NULL /\ m_frameTimer = "expired"
        /\ call' = [call EXCEPT ![c] = CaptureStop]
        /\ Goto(c, "si_check")
        /\ UNCHANGED <<stop, waiters, m_frame, lists, recStreamer>>
     \/ /\ ~(m_record = NULL /\ m_frameTimer = "expired")
        /\ \E ok \in IF AllocMayFail THEN BOOLEAN ELSE {TRUE},
              exceeded \in IF MemReserveMayExceed THEN BOOLEAN ELSE {FALSE} :
           LET copy     == (Kept = NULL \/ m_record # NULL) /\ m_run = 1
               failed   == copy /\ ~ok
               appended == copy /\ ok /\ m_record # NULL
                           /\ lists[m_record].recording = 1
               ended    == appended /\ lists[m_record].len + 1 >= RecordFrames
               stopRec  == failed \/ ended \/ (m_record # NULL /\ exceeded)
           IN /\ m_frame' = IF copy /\ ok /\ m_record = NULL THEN 0 ELSE Kept
              /\ lists' = IF appended
                          THEN [lists EXCEPT ![m_record] =
                                  [len |-> @.len + 1,
                                   recording |-> IF ended THEN 0 ELSE 1]]
                          ELSE lists
              /\ IF copy /\ ok THEN SignalOne ELSE UNCHANGED waiters
              /\ stop' = [stop EXCEPT ![c] = failed]
              /\ Goto(c, IF stopRec THEN "c_sr" ELSE "c_loop")
              /\ UNCHANGED call
  /\ UNCHANGED <<record, gil, params, m_run, m_stopping, m_record, m_thread,
                 m_frameTimer, run, app, camera, joined, recStreamer>>

(* kcFrameData, lines 400-404: kcStopRecord, then kcStopInternal(0, 1) if *)
(* stop was set.                                                           *)
CStopRecord(c) ==
  /\ pc[c] = "c_sr"
  /\ StopRecordVars
  /\ IF stop[c]
     THEN call' = [call EXCEPT ![c] = CaptureStop] /\ Goto(c, "si_check")
     ELSE Goto(c, "c_loop") /\ UNCHANGED call
  /\ UNCHANGED <<stop, record, gil, params, waiters, m_run, m_stopping,
                 m_frame, m_thread, m_frameTimer, run, app, camera, joined, recStreamer>>

(* Five seconds pass without a call of kcNextStreamFrame resetting        *)
(* m_frameTimer (kcGetTimer > KC_MAX_FRAME_TIMEOUT, kcamera.c 325).       *)
TimerExpires ==
  /\ FrameTimeout /\ m_frameTimer = "set"
  /\ m_frameTimer' = "expired"
  /\ UNCHANGED <<pc, call, stop, record, gil, params, waiters, m_run,
                 m_stopping, m_frame, m_record, m_thread, lists, run, app,
                 camera, joined, recStreamer>>
-----------------------------------------------------------------------------
(* kcInit (kcamera.c 88-124) on a zero-initialised g_state. *)
Init ==
  /\ pc = [t \in Threads |-> IF t \in Py THEN "idle" ELSE "none"]
  /\ call = [t \in Threads |-> [join |-> FALSE, signal |-> FALSE, ret |-> "done"]]
  /\ stop = [c \in Captures |-> FALSE]
  /\ record = [t \in Py |-> NULL]
  /\ gil = NULL /\ params = NULL /\ waiters = {}
  /\ m_run = 0 /\ m_stopping = 0 /\ m_frame = NULL /\ m_record = NULL
  /\ m_thread = NULL /\ m_frameTimer = "zero"
  /\ lists = <<>>
  /\ run = FALSE /\ app = NULL /\ camera = NULL /\ joined = {}
  /\ recStreamer = [t \in Py |-> NULL]

(* A Python thread starts a call into the library. *)
PyCall(t) ==
  StreamerFrame(t) \/ KcStop(t) \/ Restart(t) \/ CameraRecord(t)
  \/ StreamerStop(t)

(* kcStopInternal, executed by any thread. *)
StopInternal(t) == SiCheck(t) \/ SiParams(t) \/ SiFrame(t) \/ SiJoin(t)

(* A step of a Python thread inside a call. *)
PyStep(t) ==
  \/ NsRun(t) \/ NsLock(t) \/ NsWait(t) \/ NsGil(t)
  \/ LrWait(t) \/ LrSleep(t) \/ LrCopy(t)
  \/ UpParams(t) \/ UpRun(t) \/ UpStart(t) \/ RcStart(t) \/ RcStream(t)
  \/ KsParams(t) \/ KsSpin(t) \/ KsCreate(t) \/ StopInternal(t)

(* A step of a capture thread. *)
CaptureStep(c) ==
  \/ CStart(c) \/ COpen(c) \/ CLoop(c) \/ CExit(c) \/ CFrameData(c)
  \/ CStopRecord(c) \/ StopInternal(c)

Next ==
  \/ \E t \in Py : PyCall(t) \/ PyStep(t)
  \/ \E c \in Captures : CaptureStep(c)
  \/ TimerExpires

(***************************************************************************)
(* Fairness: a thread inside a call keeps being scheduled (weak), the      *)
(* camera keeps delivering frames to a started capture loop (weak), and a  *)
(* thread waiting for the GIL gets it although the holder may take it      *)
(* again (strong: CPython's forced switch hands it to a waiter).  Users   *)
(* are not obliged to call anything, and the 5 s timeout need not expire. *)
(***************************************************************************)
Fairness ==
  /\ \A t \in Py : WF_vars(PyStep(t)) /\ SF_vars(NsGil(t))
  /\ \A c \in Captures : WF_vars(CaptureStep(c))

Spec == Init /\ [][Next]_vars /\ Fairness
-----------------------------------------------------------------------------
PcLabels == {"idle", "ns_run", "ns_lock", "ns_wait", "ns_gil", "lr_wait",
             "lr_sleep", "lr_copy", "segv", "up_params", "up_run", "up_start",
             "rc_start", "rc_stream", "ks_params", "ks_spin", "ks_create", "si_check",
             "si_params", "si_frame", "si_join", "none", "c_start", "c_open",
             "c_loop", "c_fd", "c_sr", "c_exit", "exited", "failed"}

(* Capture threads that have been created and have not returned. *)
Alive == {c \in Captures : pc[c] \notin Exited \cup {"none"}}

TypeOK ==
  /\ pc \in [Threads -> PcLabels]
  /\ call \in [Threads -> [join : BOOLEAN, signal : BOOLEAN,
                           ret : {"done", "ns_lock", "up_start", "rc_stream", "c_loop"}]]
  /\ stop \in [Captures -> BOOLEAN]
  /\ record \in [Py -> (1..MaxRecords) \cup {NULL}]
  /\ gil \in Py \cup {NULL} /\ params \in Threads \cup {NULL}
  /\ waiters \subseteq Py
  /\ m_run \in {0, 1} /\ m_stopping \in {0, 1}
  /\ m_frame \in Ages \cup {NULL}
  /\ m_record \in (1..Len(lists)) \cup {NULL}
  /\ m_thread \in Captures \cup {NULL}
  /\ m_frameTimer \in {"zero", "set", "expired"}
  /\ lists \in Seq([len : 0..RecordFrames, recording : {0, 1}])
  /\ run \in BOOLEAN /\ app \in Captures \cup {NULL}
  /\ camera \in Captures \cup {NULL} /\ joined \subseteq Captures
  /\ recStreamer \in [Py -> (1..MaxRecords) \cup {NULL}]

(***************************************************************************)
(* CameraHandover: every capture thread kcStart creates finds the camera   *)
(* released when its event_loop calls OpenCamera, i.e. the previous       *)
(* capture thread has destroyed its LibcameraApp.  kcStart relies on      *)
(* kcStopInternal's pthread_join, or on spinning until kcStopped clears   *)
(* m_stopping (run.cpp 76), for this.                                      *)
(***************************************************************************)
CameraHandover == \A c \in Captures : pc[c] # "failed"

(***************************************************************************)
(* StopJoinReturns: a kcStopInternal(1, _) blocked in pthread_join (from   *)
(* kcStop or the restart of kcUpdateParams) returns: the capture thread   *)
(* it joins sees run == false (kcStopCameraLoop) and leaves event_loop,    *)
(* even when it has not yet executed kcStartCameraLoop's run = true.      *)
(***************************************************************************)
StopJoinReturns == \A t \in Py : pc[t] = "si_join" ~> pc[t] # "si_join"

(***************************************************************************)
(* NoNullDereference: streamer_frame on the live streamer never           *)
(* dereferences NULL: neither g_state.m_record in kcWaitLastRecordFrame's  *)
(* loop (re-read after each wakeup) nor the frame it passes kcCopyFrame.  *)
(***************************************************************************)
NoNullDereference == \A t \in Py : pc[t] # "segv"

(* Capture threads that may still call kcFrameData: created and not yet  *)
(* past event_loop's StopCamera and kcStopped.                             *)
InEventLoop == {c \in Captures : pc[c] \notin Exited \cup {"none", "c_exit"}}

(***************************************************************************)
(* OneFrameProducer: at most one capture thread is in event_loop, so       *)
(* kcFrameData never runs from two threads on g_state's frame, timer and  *)
(* recording.  Every path that stops capture and starts it again relies   *)
(* on this: kcStop and the restart of kcUpdateParams join the old thread  *)
(* under paramsMutex, and after the capture thread's own timeout or       *)
(* malloc-failure stop (kcStopInternal(0, 1), which only sets m_stopping)  *)
(* kcStart spins until that thread's kcStopped clears m_stopping.  (The    *)
(* old thread may still hold the camera then: run kcamera_restart_race.   *)
(* camera.record() while capture runs calls kcStart with no stop at all;  *)
(* that call is outside this run.)                                         *)
(***************************************************************************)
OneFrameProducer == Cardinality(InEventLoop) <= 1

(* Who each blocked thread waits for: the owner of paramsMutex or the GIL, *)
(* the thread pthread_join waits for, the capture threads that could call *)
(* kcStopped for kcStart's spin.                                           *)
WaitEdges ==
  {<<t, params>> : t \in {u \in Threads :
      /\ \/ pc[u] \in {"ks_params", "si_params", "up_params"}
         \/ pc[u] = "up_run" /\ m_run = 0
      /\ params \notin {NULL, u}}}
  \cup {<<t, gil>> : t \in {u \in Py : pc[u] = "ns_gil" /\ gil \notin {NULL, u}}}
  \cup {<<t, m_thread>> : t \in {u \in Threads :
      pc[u] = "si_join" /\ call[u].join /\ Joinable(m_thread)
      /\ pc[m_thread] \notin Exited}}
  \cup {<<t, c>> : t \in {u \in Py : pc[u] = "ks_spin" /\ m_stopping = 1},
                   c \in Alive}

(***************************************************************************)
(* NoWaitCycle: no set of threads waits for one another in a cycle (lock  *)
(* owners, pthread_join, the GIL), so kcStop/kcUpdateParams and the       *)
(* capture thread's own kcStopInternal(0, 1) cannot deadlock.              *)
(***************************************************************************)
NoWaitCycle == ~HasCycle([node |-> Threads, edge |-> WaitEdges])
=============================================================================
