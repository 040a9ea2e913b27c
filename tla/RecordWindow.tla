---------------------------- MODULE RecordWindow ----------------------------
(***************************************************************************)
(* What a recording list holds, as a sequence: the pts of its frames in   *)
(* the order flistAppend (src/framelist.c) linked them, with no nodes,     *)
(* pointers or int widths.  A recording waits for its positive start      *)
(* shift keeping one frame for streaming, pre-rolls a window of the last  *)
(* |shift| before it is started, records, and ends at its duration, when  *)
(* a node cannot be allocated, when memory runs below the reserve or when *)
(* it is stopped.  FrameList refines                                       *)
(* this specification (FrameList!RefinesWindow).                          *)
(***************************************************************************)
EXTENDS Integers, Sequences

CONSTANTS
  StartShifts,   \* values the start shift may take
  Durations,     \* values the duration may take
  PtsValues      \* pts the capture thread may deliver

VARIABLES
  frames,    \* pts of the frames in the list, front first
  status,    \* m_recording: -1 waiting or pre-rolling, 1 recording, 0 ended
  t0,        \* pts of the first frame seen, -1 before it
  shift,     \* m_startShift
  duration,  \* m_duration (0: none)
  attached   \* the list is the camera's active recording

wvars == <<frames, status, t0, shift, duration, attached>>

(* The suffix of s from its first frame at or after t, or its last frame. *)
TrimBefore(s, t) ==
  LET keep == {i \in 1..Len(s) : s[i] >= t} \cup {Len(s)}
      k    == CHOOSE i \in keep : \A j \in keep : i <= j
  IN SubSeq(s, k, Len(s))

(* The list after the frame p is offered, `ok` the outcome of the node's  *)
(* allocation: [frames, status, ended] where ended means detached.         *)
Offer(p, ok) ==
  LET first   == IF t0 = -1 THEN p ELSE t0
      waiting == shift > 0 /\ status = -1
      below   == waiting /\ p - first < shift
      base    == IF below /\ Len(frames) = 1 THEN <<>> ELSE frames
      st      == IF waiting /\ ~below THEN 1 ELSE status
      s       == Append(base, p)
      s2      == IF shift < 0 /\ st = -1 THEN TrimBefore(s, p + shift) ELSE s
      full    == duration # 0 /\ s2[Len(s2)] - s2[1] >= duration
  IN IF ok THEN [frames |-> s2, status |-> IF full THEN 0 ELSE st, ended |-> full]
     ELSE [frames |-> base, status |-> 0, ended |-> TRUE]

WInit ==
  /\ shift \in StartShifts /\ duration \in Durations
  /\ frames = <<>> /\ t0 = -1 /\ attached = TRUE
  /\ status = IF shift = 0 THEN 1 ELSE -1

(* The capture thread delivers a frame to the active recording; a list    *)
(* that has ended tosses it.  When the memory reserve is exceeded (low)   *)
(* the recording is stopped after the frame is offered.                   *)
Deliver ==
  /\ attached = TRUE /\ status # 0
  /\ \E p \in PtsValues, ok \in BOOLEAN, low \in BOOLEAN :
       /\ frames = <<>> \/ frames[Len(frames)] <= p
       /\ LET r == Offer(p, ok) IN
          /\ frames' = r.frames
          /\ status' = IF low THEN 0 ELSE r.status
          /\ attached' = ~(r.ended \/ low)
          /\ t0' = IF t0 = -1 THEN p ELSE t0
  /\ UNCHANGED <<shift, duration>>

(* kcStopRecord of the active recording. *)
Stop ==
  /\ attached = TRUE
  /\ attached' = FALSE /\ status' = 0
  /\ UNCHANGED <<frames, t0, shift, duration>>

(* streamer_start. *)
Start ==
  /\ status' = 1
  /\ UNCHANGED <<frames, t0, shift, duration, attached>>

(* streamer_setAttr of start_shift or duration. *)
SetShift ==
  /\ \E v \in StartShifts : shift' = v
  /\ UNCHANGED <<frames, status, t0, duration, attached>>

SetDuration ==
  /\ \E v \in Durations : duration' = v
  /\ UNCHANGED <<frames, status, t0, shift, attached>>

WNext == Deliver \/ Stop \/ Start \/ SetShift \/ SetDuration

WSpec == WInit /\ [][WNext]_wvars
=============================================================================
