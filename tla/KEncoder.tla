------------------------------ MODULE KEncoder ------------------------------
(***************************************************************************)
(* The kencoder extension (src/kencoder): the Python Encoder object        *)
(* (kencodermodule.c), the C entry points of run.cpp, and H264Encoder      *)
(* (h264_encoder.cpp) with its poll thread, driving the V4L2 memory-to-    *)
(* memory H.264 codec.                                                     *)
(*                                                                         *)
(* Python threads call encode(), set attributes and drop the object.      *)
(* Everything they do under the GIL is one step; encode() releases the GIL *)
(* around GetOutput, and a restart or dealloc keeps it while               *)
(* ~H264Encoder joins the poll thread.  Buffers are counted, not named:    *)
(* the codec's input (OUTPUT-queue) buffers are free in                    *)
(* input_buffers_available_ (`avail`) or queued with a frame (`codecIn`);  *)
(* an encoded (CAPTURE-queue) buffer is empty at the codec (`capFree`),    *)
(* encoded and not yet dequeued (`capDone`), in output_queue_ (`outq`) or  *)
(* held by an encode() call (`held`).  A frame is its timestamp.  At most *)
(* one H264Encoder exists at a time; `enc` is run.cpp's g_encoder as an    *)
(* instance number (0: nullptr) and the queue variables belong to it.     *)
(* The codec itself is outside the repository: it is modelled by its     *)
(* buffer contract, one input frame encoded into one empty capture        *)
(* buffer, in order.                                                       *)
(***************************************************************************)
EXTENDS Integers, Sequences, FiniteSets

CONSTANTS
  Threads,      \* Python threads using the Encoder object
  Calls,        \* Calls[t]: what thread t calls, a subset of CallNames
  NumOutput,    \* NUM_OUTPUT_BUFFERS: codec input buffers
  NumCapture,   \* NUM_CAPTURE_BUFFERS: encoded-output buffers
  Bitrates,     \* values the bitrate attribute may take
  InitMayFail,  \* whether the H264Encoder constructor may throw
  MaxFrames,    \* bound on m_count
  MaxGens       \* bound on H264Encoder instances created

CallNames == {"new", "encode", "bitrate", "resolution", "dealloc"}

ASSUME /\ \A t \in Threads : Calls[t] \subseteq CallNames
       /\ NumOutput \in Nat \ {0} /\ NumCapture \in Nat \ {0}
       /\ Bitrates \subseteq Nat \ {0} /\ InitMayFail \in BOOLEAN
       /\ MaxFrames \in Nat /\ MaxGens \in Nat

VARIABLES
  pc,       \* thread -> "idle", "out" (in GetOutput), "gil" (retaking the
            \* GIL), "restart" or "dealloc" (in ~H264Encoder's join)
  tgen,     \* thread -> the H264Encoder its encode() queued the frame to
  held,     \* thread -> the OutputItem GetOutput gave it, or NoItem
  pyObj,    \* kencodermodule.c's g_encoder is set: the Encoder object exists
  m_count,  \* the object's m_count: timestamp of the next frame
  rate,     \* the object's m_params.m_bitrate
  enc,      \* run.cpp's g_encoder (0: nullptr)
  gens,     \* H264Encoder instances created so far
  abort,    \* abort_ of the current H264Encoder
  pollAt,   \* its poll thread: "top" of the loop, "wait" in poll(), "exited"
  avail,    \* input_buffers_available_, as a count
  codecIn,  \* frames queued to the codec, oldest first
  capFree,  \* capture buffers queued to the codec, empty
  capDone,  \* encoded capture buffers not yet dequeued, oldest first
  outq,     \* output_queue_
  devRate,  \* bitrate the codec applies (0: its default)
  fault     \* "none", or how the process died: "segv", "terminate"

threadVars == <<pc, tgen, held>>
objVars    == <<pyObj, m_count, rate>>
devVars    == <<abort, pollAt, avail, codecIn, capFree, capDone, outq, devRate>>
vars == <<threadVars, objVars, enc, gens, devVars, fault>>

NoItem == [ts |-> -1, gen |-> 0]
Item   == [ts : 0..MaxFrames, gen : 1..MaxGens]

(* The GIL is free unless a thread keeps it while joining the poll thread. *)
GilFree == \A u \in Threads : pc[u] \notin {"restart", "dealloc"}

(* The process has not died; a fault ends it. *)
Alive == fault = "none"

(* A thread that is in no call on the object. *)
Idle(t) == pc[t] = "idle"

(***************************************************************************)
(* H264Encoder's constructor: open the device, REQBUFS, mmap, every input  *)
(* buffer into input_buffers_available_, every capture buffer QBUF'd,      *)
(* STREAMON, start the poll thread.  options.bitrate is never set by       *)
(* keInit, so SetBitrate is not called and the codec keeps its default.    *)
(* Any of these steps may throw instead (`ok` FALSE): keInit catches it    *)
(* and leaves g_encoder at nullptr.                                        *)
(***************************************************************************)
H264Encoder(ok) ==
  IF ok
  THEN /\ gens' = gens + 1 /\ enc' = gens + 1
       /\ abort' = FALSE /\ pollAt' = "top"
       /\ avail' = NumOutput /\ codecIn' = <<>>
       /\ capFree' = NumCapture /\ capDone' = <<>> /\ outq' = <<>>
       /\ devRate' = 0
  ELSE /\ enc' = 0
       /\ UNCHANGED <<gens, devVars>>

(* keInit: a new H264Encoder, or nullptr when its constructor throws. *)
keInit == \E ok \in IF InitMayFail THEN BOOLEAN ELSE {TRUE} : H264Encoder(ok)

(***************************************************************************)
(* encoder_new and encoder_init (parseArgs, keInit).  When keInit fails    *)
(* encoder_init returns -1 and Python deallocates the new object at once:  *)
(* encoder_dealloc's keExit finds g_encoder null and g_encoder = NULL.     *)
(***************************************************************************)
New(t) ==
  /\ Alive
  /\ Idle(t) /\ "new" \in Calls[t] /\ ~pyObj /\ GilFree /\ gens < MaxGens
  /\ \E r \in Bitrates, ok \in IF InitMayFail THEN BOOLEAN ELSE {TRUE} :
       /\ rate' = r
       /\ m_count' = 0
       /\ H264Encoder(ok)
       /\ pyObj' = ok
  /\ UNCHANGED <<threadVars, fault>>

(***************************************************************************)
(* EncodeBuffer: pop an input buffer from input_buffers_available_ (under  *)
(* its mutex) and QBUF it to the codec with the frame's timestamp.  The   *)
(* timestamp travels as tv_sec/tv_usec and comes back recombined, the     *)
(* same value for every m_count below 2^63.                                *)
(***************************************************************************)
EncodeBuffer(ts) ==
  /\ avail' = avail - 1
  /\ codecIn' = Append(codecIn, ts)

(***************************************************************************)
(* encoder_encode up to the release of the GIL: keEncodeIn(...,            *)
(* g_encoder->m_count) calls g_encoder->EncodeBuffer.  With run.cpp's     *)
(* g_encoder null that is a segfault; with no input buffer available,      *)
(* EncodeBuffer throws std::runtime_error through the extern "C"           *)
(* keEncodeIn, and the process terminates.  The index check at line 95    *)
(* never fails (indices are below NUM_OUTPUT_BUFFERS).                     *)
(***************************************************************************)
Encode(t) ==
  /\ Alive
  /\ Idle(t) /\ "encode" \in Calls[t] /\ pyObj /\ GilFree
  /\ m_count < MaxFrames
  /\ IF enc # 0 /\ avail > 0
     THEN /\ EncodeBuffer(m_count)
          /\ pc' = [pc EXCEPT ![t] = "out"]
          /\ tgen' = [tgen EXCEPT ![t] = enc]
          /\ UNCHANGED <<abort, pollAt, capFree, capDone, outq, devRate, fault>>
     ELSE /\ fault' = IF enc = 0 THEN "segv" ELSE "terminate"
          /\ UNCHANGED <<pc, tgen, devVars>>
  /\ UNCHANGED <<held, objVars, enc, gens>>

(***************************************************************************)
(* H264Encoder::GetOutput, with the GIL released: under output_mutex_,     *)
(* take the head of output_queue_; otherwise wait_for 200 ms and, if       *)
(* abort_ is set, return an item with bytes_used = 0.  A waiting thread   *)
(* re-tests every 200 ms, so it needs no notify: the step is enabled when  *)
(* the queue is non-empty or abort_ is set.  If its H264Encoder has been  *)
(* deleted meanwhile, the thread runs on freed memory; the model lets it   *)
(* return an empty item.                                                   *)
(***************************************************************************)
GetOutput(t) ==
  /\ Alive
  /\ pc[t] = "out"
  /\ \/ /\ tgen[t] = enc /\ outq # <<>>
        /\ held' = [held EXCEPT ![t] = [ts |-> Head(outq), gen |-> enc]]
        /\ outq' = Tail(outq)
     \/ /\ tgen[t] # enc \/ (outq = <<>> /\ abort)
        /\ held' = [held EXCEPT ![t] = NoItem]
        /\ UNCHANGED outq
  /\ pc' = [pc EXCEPT ![t] = "gil"]
  /\ UNCHANGED <<tgen, objVars, enc, gens, abort, pollAt, avail, codecIn,
                 capFree, capDone, devRate, fault>>

(* Fault variant of OutputDone: the buffer is not re-queued. *)
OutputDoneNoQbuf(item) == UNCHANGED <<capFree, fault>>

(***************************************************************************)
(* H264Encoder::OutputDone(item) on run.cpp's g_encoder: QBUF the capture  *)
(* buffer back to the codec.  The item's buffer belongs to the instance    *)
(* that produced it; on any other instance (after a restart) the copy of  *)
(* output.mem before it already read unmapped memory.                      *)
(***************************************************************************)
OutputDone(item) ==
  IF enc # 0 /\ item.gen = enc
  THEN /\ capFree' = capFree + 1 /\ UNCHANGED fault
  ELSE /\ fault' = "segv" /\ UNCHANGED capFree

(***************************************************************************)
(* encoder_encode after GetOutput: PyEval_RestoreThread, then the checks.  *)
(* bytes_used = 0 raises "null packet" and a timestamp other than m_count  *)
(* raises "stale frame"; both return without keEncodeOutDone, so the      *)
(* capture buffer is never re-queued.  Otherwise m_count++, the bytes are *)
(* copied out and keEncodeOutDone re-queues the buffer.                    *)
(***************************************************************************)
Finish(t) ==
  /\ Alive
  /\ pc[t] = "gil" /\ GilFree
  /\ LET it == held[t] IN
     IF it # NoItem /\ it.ts = m_count
     THEN /\ m_count' = m_count + 1
          /\ OutputDone(it)
     ELSE UNCHANGED <<m_count, capFree, fault>>
  /\ pc' = [pc EXCEPT ![t] = "idle"]
  /\ held' = [held EXCEPT ![t] = NoItem]
  /\ UNCHANGED <<tgen, pyObj, rate, enc, gens, abort, pollAt, avail, codecIn,
                 capDone, outq, devRate>>

(***************************************************************************)
(* keExit while g_encoder is set: `delete g_encoder` runs ~H264Encoder,    *)
(* which sets abort_ and joins the poll thread; the caller keeps the GIL  *)
(* (`then` is where it goes on: "restart" or "dealloc").                   *)
(***************************************************************************)
keExit(t, then) ==
  /\ abort' = TRUE
  /\ pc' = [pc EXCEPT ![t] = then]

(***************************************************************************)
(* encoder_setAttr("bitrate", v) with v different from the current value: *)
(* the member is written, then keUpdateParams calls g_encoder->SetBitrate, *)
(* a VIDIOC_S_CTRL on the codec (a segfault when g_encoder is null).       *)
(***************************************************************************)
SetAttrBitrate(t) ==
  /\ Alive
  /\ Idle(t) /\ "bitrate" \in Calls[t] /\ pyObj /\ GilFree
  /\ \E v \in Bitrates \ {rate} :
       /\ rate' = v
       /\ IF enc # 0 THEN devRate' = v /\ UNCHANGED fault
                     ELSE fault' = "segv" /\ UNCHANGED devRate
  /\ UNCHANGED <<threadVars, pyObj, m_count, enc, gens, abort, pollAt, avail,
                 codecIn, capFree, capDone, outq>>

(***************************************************************************)
(* encoder_setAttr("resolution", (w, h)) with a new size: keUpdateParams   *)
(* restarts the encoder, keExit() then keInit(g_params), all under the     *)
(* GIL.  With g_encoder null, keExit does nothing and keInit runs at once. *)
(***************************************************************************)
SetAttrResolution(t) ==
  /\ Alive
  /\ Idle(t) /\ "resolution" \in Calls[t] /\ pyObj /\ GilFree
  /\ gens < MaxGens
  /\ IF enc # 0
     THEN /\ keExit(t, "restart")
          /\ UNCHANGED <<enc, gens, pollAt, avail, codecIn, capFree, capDone,
                         outq, devRate>>
     ELSE /\ keInit /\ UNCHANGED pc
  /\ UNCHANGED <<tgen, held, objVars, fault>>

(***************************************************************************)
(* encoder_dealloc, when the last reference goes: no call on the object    *)
(* is in progress.  keExit, then g_encoder = NULL.                         *)
(***************************************************************************)
Dealloc(t) ==
  /\ Alive
  /\ Idle(t) /\ "dealloc" \in Calls[t] /\ pyObj
  /\ \A u \in Threads : pc[u] = "idle"
  /\ IF enc # 0
     THEN /\ keExit(t, "dealloc") /\ UNCHANGED pyObj
     ELSE /\ pyObj' = FALSE /\ UNCHANGED <<pc, abort>>
  /\ UNCHANGED <<tgen, held, m_count, rate, enc, gens, pollAt, avail, codecIn,
                 capFree, capDone, outq, devRate, fault>>

(***************************************************************************)
(* The rest of ~H264Encoder once poll_thread_.join() returns: munmap,      *)
(* STREAMOFF, close; then keExit sets g_encoder = nullptr and the caller   *)
(* goes on: keInit for a restart, g_encoder = NULL for a dealloc.         *)
(***************************************************************************)
JoinDone(t) ==
  /\ Alive
  /\ pc[t] \in {"restart", "dealloc"} /\ pollAt = "exited"
  /\ pc' = [pc EXCEPT ![t] = "idle"]
  /\ IF pc[t] = "restart"
     THEN keInit /\ UNCHANGED pyObj
     ELSE /\ enc' = 0 /\ pyObj' = FALSE
          /\ UNCHANGED <<gens, devVars>>
  /\ UNCHANGED <<tgen, held, m_count, rate, fault>>

(***************************************************************************)
(* pollThread of the current H264Encoder.  At the top of the loop it      *)
(* leaves when abort_ is set; otherwise it polls for 200 ms.  On POLLIN    *)
(* (an encoded buffer is ready) it DQBUFs the input buffer back into       *)
(* input_buffers_available_ and the capture buffer into output_queue_,     *)
(* with notify_one.                                                        *)
(***************************************************************************)
PollExit ==
  /\ Alive
  /\ enc # 0 /\ pollAt = "top" /\ abort
  /\ pollAt' = "exited"
  /\ UNCHANGED <<threadVars, objVars, enc, gens, abort, avail, codecIn,
                 capFree, capDone, outq, devRate, fault>>

PollWait ==
  /\ Alive
  /\ enc # 0 /\ pollAt = "top" /\ ~abort
  /\ pollAt' = "wait"
  /\ UNCHANGED <<threadVars, objVars, enc, gens, abort, avail, codecIn,
                 capFree, capDone, outq, devRate, fault>>

PollTimeout ==
  /\ Alive
  /\ pollAt = "wait" /\ capDone = <<>>
  /\ pollAt' = "top"
  /\ UNCHANGED <<threadVars, objVars, enc, gens, abort, avail, codecIn,
                 capFree, capDone, outq, devRate, fault>>

PollReady ==
  /\ Alive
  /\ pollAt = "wait" /\ capDone # <<>>
  /\ avail' = avail + 1
  /\ outq' = Append(outq, Head(capDone))
  /\ capDone' = Tail(capDone)
  /\ pollAt' = "top"
  /\ UNCHANGED <<threadVars, objVars, enc, gens, abort, codecIn, capFree,
                 devRate, fault>>

(***************************************************************************)
(* The codec (the device, not in the repository): it encodes the oldest   *)
(* queued frame into an empty capture buffer while it is streaming.       *)
(***************************************************************************)
CodecEncode ==
  /\ Alive
  /\ enc # 0 /\ codecIn # <<>> /\ capFree > 0
  /\ capFree' = capFree - 1
  /\ capDone' = Append(capDone, Head(codecIn))
  /\ codecIn' = Tail(codecIn)
  /\ UNCHANGED <<threadVars, objVars, enc, gens, abort, pollAt, avail, outq,
                 devRate, fault>>

Init ==
  /\ pc = [t \in Threads |-> "idle"]
  /\ tgen = [t \in Threads |-> 0]
  /\ held = [t \in Threads |-> NoItem]
  /\ pyObj = FALSE /\ m_count = 0 /\ rate \in Bitrates
  /\ enc = 0 /\ gens = 0
  /\ abort = FALSE /\ pollAt = "exited" /\ avail = 0 /\ codecIn = <<>>
  /\ capFree = 0 /\ capDone = <<>> /\ outq = <<>> /\ devRate = 0
  /\ fault = "none"

Next ==
  \/ \E t \in Threads :
       \/ New(t) \/ Encode(t) \/ GetOutput(t) \/ Finish(t)
       \/ SetAttrBitrate(t) \/ SetAttrResolution(t) \/ Dealloc(t)
       \/ JoinDone(t)
  \/ PollExit \/ PollWait \/ PollTimeout \/ PollReady
  \/ CodecEncode

(***************************************************************************)
(* Fairness: the OS keeps running a thread that can go on (the poll thread *)
(* and a thread in GetOutput or in the join); the codec keeps encoding     *)
(* while it has a frame and a buffer; CPython's switch interval hands the  *)
(* GIL to a thread waiting for it even if others keep taking it.  Nothing  *)
(* obliges a thread to start a call.                                       *)
(***************************************************************************)
Fairness ==
  /\ \A t \in Threads : /\ WF_vars(GetOutput(t)) /\ SF_vars(Finish(t))
                        /\ WF_vars(JoinDone(t))
  /\ WF_vars(PollExit) /\ WF_vars(PollWait) /\ WF_vars(PollTimeout)
  /\ WF_vars(PollReady) /\ WF_vars(CodecEncode)

Spec == Init /\ [][Next]_vars /\ Fairness
-----------------------------------------------------------------------------
TypeOK ==
  /\ pc \in [Threads -> {"idle", "out", "gil", "restart", "dealloc"}]
  /\ tgen \in [Threads -> 0..MaxGens]
  /\ held \in [Threads -> Item \cup {NoItem}]
  /\ pyObj \in BOOLEAN /\ m_count \in 0..MaxFrames /\ rate \in Bitrates
  /\ enc \in 0..MaxGens /\ gens \in 0..MaxGens
  /\ abort \in BOOLEAN /\ pollAt \in {"top", "wait", "exited"}
  /\ avail \in 0..NumOutput /\ capFree \in 0..NumCapture
  /\ codecIn \in Seq(0..MaxFrames) /\ capDone \in Seq(0..MaxFrames)
  /\ outq \in Seq(0..MaxFrames)
  /\ devRate \in Bitrates \cup {0}
  /\ fault \in {"none", "segv", "terminate"}

(***************************************************************************)
(* EncodeReturns: an encode() that has queued its frame returns: the codec *)
(* encodes it, the poll thread hands it over, and GetOutput's 200 ms wait  *)
(* loop finds it.                                                          *)
(***************************************************************************)
EncodeReturns == \A t \in Threads : pc[t] = "out" ~> pc[t] = "idle"

(***************************************************************************)
(* NoFreedEncoderUse: a thread waiting in GetOutput, or holding an         *)
(* OutputItem, uses an H264Encoder that still exists: a restart or a       *)
(* dealloc (keExit's delete) never frees the mutex, condition variable and *)
(* mapped buffers that an encode() call with the GIL released is using.   *)
(***************************************************************************)
NoFreedEncoderUse ==
  \A t \in Threads :
    /\ pc[t] = "out" => tgen[t] = enc
    /\ held[t] # NoItem => held[t].gen = enc

=============================================================================
