----------------------------- MODULE FrameList -----------------------------
(***************************************************************************)
(* The recording list of src/framelist.c (FrameList, FrameNode) at the     *)
(* level of its pointers: nodes live in a heap indexed by allocation       *)
(* number, m_front/m_back/m_next are node ids, and the read cursor         *)
(* m_readNode is either the address of m_front (FRONT) or the address of  *)
(* the m_next field of a node (that node's id).  A freed node stays in the *)
(* heap with its last contents but leaves the set `live`, so a cursor or   *)
(* a link that still names it is a dangling pointer.                       *)
(*                                                                         *)
(* Every operation runs under the list's m_mutex (or the frame mutex that  *)
(* serialises the producer), so each is one atomic step.  The producer is  *)
(* the capture thread calling kcFrameData (src/kcamera.c), which appends   *)
(* while the list is the active recording (`attached`) and detaches it     *)
(* with kcStopRecord when flistAppend fails.                               *)
(***************************************************************************)
EXTENDS Integers, Sequences, FiniteSets, SequencesExt

CONSTANTS
  NULL,          \* the null pointer
  FRONT,         \* the address &list->m_front
  StartShifts,   \* values m_startShift may take (flistInit, streamer_setAttr)
  Durations,     \* values m_duration may take
  StartPts,      \* pts of the capture clock when the recording is created
  MaxPts,        \* bound on the capture clock
  MaxStep,       \* largest pts step between two frames (0: duplicate pts)
  MaxAllocs,     \* bound on node allocations
  AllocMayFail,  \* whether malloc of a FrameNode may return NULL
  IntBits,       \* width of C int (32 in the build)
  PtsBits,       \* width of uint64_t pts (64 in the build)
  MemFree,       \* values memfree() may return (percent of MemTotal available)
  MemReserve     \* m_currParams.m_memReserve (percent)

ASSUME /\ {NULL, FRONT} \cap Nat = {}
       /\ StartShifts \subseteq Int /\ Durations \subseteq Nat
       /\ StartPts \subseteq 0..MaxPts /\ MaxStep \in Nat
       /\ MaxAllocs \in Nat \ {0} /\ AllocMayFail \in BOOLEAN
       /\ IntBits \in Nat \ {0} /\ PtsBits > IntBits
       /\ MemFree \subseteq Int /\ MemReserve \in Nat \ {0}

VARIABLES
  m_recording, m_front, m_back, m_len, m_readNode, m_readIndex,
  m_t0, m_startShift, m_duration,   \* the fields of FrameList
  heap,      \* node id -> [pts, next]; every node ever allocated
  live,      \* ids of the nodes not yet freed
  pts,       \* pts of the last frame the capture thread produced
  attached,  \* the list is g_state.m_record, so kcFrameData appends to it
  anchor,    \* history: pts of the first frame appended (NULL before)
  disposed   \* streamer_dealloc has freed the list

listVars == <<m_recording, m_front, m_back, m_len, m_readNode, m_readIndex,
              m_t0, m_startShift, m_duration, heap, live>>
vars == <<listVars, pts, attached, anchor, disposed>>

Ids == 1..MaxAllocs
Ptr == Ids \cup {NULL}

(* C conversion of a value to a signed int of IntBits bits (two's         *)
(* complement wrap, as gcc does for the uint64_t -> int assignment).      *)
ToInt(x) == LET h == 2^(IntBits - 1) IN ((x + h) % (2 * h)) - h

(* Unsigned 64-bit arithmetic, scaled to PtsBits. *)
ToU64(x) == x % 2^PtsBits

(* Unsigned int arithmetic, as wide as int. *)
ToUInt(x) == x % 2^IntBits

(* kcMemReserveExceeded: memfree() < m_memReserve, the int memfree()      *)
(* converted to unsigned for the comparison.                               *)
kcMemReserveExceeded(mf) == ToUInt(mf) < MemReserve

(* *list->m_readNode: what the cursor's address holds. *)
Deref(p) == IF p = FRONT THEN m_front ELSE heap[p].next

(* flistInit: the fields of a fresh empty list. *)
flistInit(shift, dur) ==
  [recording |-> IF shift = 0 THEN 1 ELSE -1, front |-> NULL, back |-> NULL,
   readNode |-> FRONT, len |-> 0, readIndex |-> 0, t0 |-> -1,
   startShift |-> shift, duration |-> dur]

(* flistTime: span of the list, as unsigned. *)
flistTime(h, f, b) == ToU64(h[b].pts - h[f].pts) % 2^IntBits

(* Fault variant of FirstT0: the test m_t0 < 0 left out. *)
FirstT0Always(p) == ToInt(p)

(* flistAppend, lines 52-53: the first frame seen sets m_t0 (an int). *)
FirstT0(p) == IF m_t0 < 0 THEN ToInt(p) ELSE m_t0

(* flistAppend, line 58: a positively shifted list is still inside its    *)
(* shift (uint64_t difference against the int m_t0).                      *)
StillWaiting(p, t0) == ToU64(p - t0) < m_startShift

(* Fault variant of LinkNode: the new node is not linked behind m_back. *)
LinkNodeUnlinked(h, len, n, p) == [i \in DOMAIN h \cup {n} |->
                                    IF i = n THEN [pts |-> p, next |-> NULL] ELSE h[i]]

(* flistAppend, lines 73-86: link node n behind the back (or make it    *)
(* the only node when the list is empty).                                 *)
LinkNode(h, len, n, p) ==
  [i \in DOMAIN h \cup {n} |->
     IF i = n THEN [pts |-> p, next |-> NULL]
     ELSE IF i = m_back /\ len # 0 THEN [h[i] EXCEPT !.next = n]
     ELSE h[i]]

(* Fault variant of TrimFront: m_len not decremented. *)
RECURSIVE TrimFrontKeepLen(_, _, _, _, _)
TrimFrontKeepLen(h, f, l, lv, t) ==
  IF h[f].pts < t /\ h[f].next # NULL
  THEN TrimFrontKeepLen(h, h[f].next, l, lv \ {f}, t)
  ELSE [front |-> f, len |-> l, live |-> lv]

(* flistAppend, lines 89-104, the pre-roll trim: free nodes from the     *)
(* head while their pts is below t, never freeing the back.               *)
RECURSIVE TrimFront(_, _, _, _, _)
TrimFront(h, f, l, lv, t) ==
  IF h[f].pts < t /\ h[f].next # NULL
  THEN TrimFront(h, h[f].next, l - 1, lv \ {f}, t)
  ELSE [front |-> f, len |-> l, live |-> lv]

(* Fault variant of DurationReached: > for >=, one frame more. *)
DurationPast(h, f, b) == m_duration # 0 /\ flistTime(h, f, b) > m_duration

(* flistAppend, lines 106-114: the duration has been reached. *)
DurationReached(h, f, b) == m_duration # 0 /\ flistTime(h, f, b) >= m_duration

(***************************************************************************)
(* flistAppend(list, frame) for a frame with m_pts = p, `ok` being the     *)
(* outcome of the node's malloc: the returned value and the new fields.   *)
(***************************************************************************)
flistAppend(p, ok) ==
  LET t0    == FirstT0(p)
      wait  == m_startShift > 0 /\ m_recording = -1
      below == wait /\ StillWaiting(p, t0)
      drop1 == below /\ m_len = 1          \* keep one frame for streaming
      rec1  == IF wait /\ ~below THEN 1 ELSE m_recording
      len1  == IF drop1 THEN 0 ELSE m_len
      live1 == IF drop1 THEN live \ {m_front} ELSE live
      n     == Cardinality(DOMAIN heap) + 1
      h2    == LinkNode(heap, len1, n, p)
      f2    == IF len1 = 0 THEN n ELSE m_front
      tr    == IF m_startShift < 0 /\ rec1 = -1
               THEN TrimFront(h2, f2, len1 + 1, live1 \cup {n}, p + m_startShift)
               ELSE [front |-> f2, len |-> len1 + 1, live |-> live1 \cup {n}]
      ended == DurationReached(h2, tr.front, n)
      same  == [res |-> 0, rec |-> m_recording, t0 |-> m_t0, heap |-> heap,
                front |-> m_front, back |-> m_back, len |-> m_len, live |-> live]
  IN CASE m_recording = 0 -> same                    \* not recording: toss
       [] ~ok -> [same EXCEPT !.res = -2, !.rec = rec1, !.t0 = t0,
                              !.len = len1, !.live = live1]
       [] OTHER -> [res |-> IF ended THEN -1 ELSE 0,
                    rec |-> IF ended THEN 0 ELSE rec1, t0 |-> t0, heap |-> h2,
                    front |-> tr.front, back |-> n, len |-> tr.len,
                    live |-> tr.live]

(* The node a successful append would allocate exists within the bound. *)
CanAlloc == Cardinality(DOMAIN heap) < MaxAllocs

(***************************************************************************)
(* The capture thread delivers a frame with pts p to the attached list:    *)
(* kcFrameData takes m_mutex and calls flistAppend, then checks the memory *)
(* reserve with memfree() = mf; on a negative result or an exceeded        *)
(* reserve it calls kcStopRecord, which sets m_recording to 0 and detaches *)
(* the list (g_state.m_record = NULL).                                     *)
(***************************************************************************)
AppendFrame(p, ok, mf) ==
  LET r    == flistAppend(p, ok)
      stop == r.res < 0 \/ kcMemReserveExceeded(mf)
  IN
  /\ m_recording' = IF stop THEN 0 ELSE r.rec
  /\ m_t0' = r.t0 /\ heap' = r.heap /\ live' = r.live
  /\ m_front' = r.front /\ m_back' = r.back /\ m_len' = r.len
  /\ attached' = (attached /\ ~stop)
  /\ UNCHANGED <<m_readNode, m_readIndex, m_startShift, m_duration, disposed>>

(***************************************************************************)
(* Actions.                                                                *)
(***************************************************************************)

(* A frame arrives from the camera; the pts never decreases (equal pts     *)
(* are possible).                                                          *)
CaptureFrame ==
  /\ attached
  /\ CanAlloc
  /\ \E step \in 0..MaxStep, ok \in IF AllocMayFail THEN BOOLEAN ELSE {TRUE},
       mf \in MemFree :
       /\ pts + step <= MaxPts
       /\ pts' = pts + step
       /\ anchor' = IF anchor = NULL /\ m_recording # 0 THEN pts + step ELSE anchor
       /\ AppendFrame(pts + step, ok, mf)

(* flistSeek(list, n), called by streamer_seek. *)
flistSeek(n) ==
  /\ ~disposed
  /\ n < m_len
  /\ LET RECURSIVE Walk(_, _)
         Walk(p, i) == IF Deref(p) = NULL \/ i = n THEN <<p, i>>
                       ELSE Walk(Deref(p), i + 1)
     IN /\ m_readNode' = Walk(FRONT, 0)[1]
        /\ m_readIndex' = Walk(FRONT, 0)[2]
  /\ UNCHANGED <<m_recording, m_front, m_back, m_len, m_t0, m_startShift,
                 m_duration, heap, live, pts, attached, anchor, disposed>>

Seek == \E n \in 0..MaxAllocs : flistSeek(n)

(* Fault variant of flistNext: m_readIndex not advanced. *)
flistNextNoIndex ==
  /\ ~disposed
  /\ Deref(m_readNode) # NULL
  /\ m_readNode' = Deref(m_readNode)
  /\ UNCHANGED <<m_recording, m_front, m_back, m_len, m_readIndex, m_t0,
                 m_startShift, m_duration, heap, live, pts, attached, anchor, disposed>>

(* flistNext(list): return the node at the cursor and advance past it.    *)
flistNext ==
  /\ ~disposed
  /\ Deref(m_readNode) # NULL
  /\ m_readNode' = Deref(m_readNode)
  /\ m_readIndex' = m_readIndex + 1
  /\ UNCHANGED <<m_recording, m_front, m_back, m_len, m_t0, m_startShift,
                 m_duration, heap, live, pts, attached, anchor, disposed>>

(* flistEnd(list). *)
flistEnd == Deref(m_readNode) = NULL

(* kcWaitNextRecordFrame returns: it blocks on m_cond while the cursor is  *)
(* at the end and the list is still the active record (the camera running). *)
kcWaitNextRecordFrame == ~flistEnd \/ ~attached

(* streamer_frame of the record streamer: the wait, then flistNext under   *)
(* m_mutex, which returns NULL at the end of a detached list.              *)
ReadFrame ==
  /\ ~disposed
  /\ kcWaitNextRecordFrame
  /\ IF flistEnd THEN UNCHANGED vars ELSE flistNext

(* streamer_start: m_recording = 1 (written without the list lock). *)
StreamerStart ==
  /\ ~disposed
  /\ m_recording' = 1
  /\ UNCHANGED <<m_front, m_back, m_len, m_readNode, m_readIndex, m_t0,
                 m_startShift, m_duration, heap, live, pts, attached, anchor, disposed>>

(* streamer_stop on this record: kcStopRecord while it is the active one. *)
StopRecord ==
  /\ ~disposed
  /\ attached
  /\ attached' = FALSE
  /\ m_recording' = 0
  /\ UNCHANGED <<m_front, m_back, m_len, m_readNode, m_readIndex, m_t0,
                 m_startShift, m_duration, heap, live, pts, anchor, disposed>>

(* streamer_setAttr "start_shift" and "duration", under m_mutex. *)
SetStartShift ==
  /\ ~disposed
  /\ \E v \in StartShifts : m_startShift' = v
  /\ UNCHANGED <<m_recording, m_front, m_back, m_len, m_readNode, m_readIndex,
                 m_t0, m_duration, heap, live, pts, attached, anchor, disposed>>

SetDuration ==
  /\ ~disposed
  /\ \E v \in Durations : m_duration' = v
  /\ UNCHANGED <<m_recording, m_front, m_back, m_len, m_readNode, m_readIndex,
                 m_t0, m_startShift, heap, live, pts, attached, anchor, disposed>>

(* The nodes flistClear frees: from m_front along m_next up to NULL (it  *)
(* does not look at m_len).                                                *)
RECURSIVE ClearWalk(_)
ClearWalk(n) == IF n = NULL THEN <<>> ELSE <<n>> \o ClearWalk(heap[n].next)

(***************************************************************************)
(* streamer_dealloc of the record streamer: kcStopRecord if the list is   *)
(* still the active record, flistClear, free(list).  The fields flistClear *)
(* re-initialises are freed with the list, so they keep their last values, *)
(* as freed nodes do.                                                      *)
(***************************************************************************)
streamer_dealloc ==
  /\ ~disposed
  /\ attached' = FALSE
  /\ m_recording' = IF attached THEN 0 ELSE m_recording
  /\ live' = live \ ToSet(ClearWalk(m_front))
  /\ disposed' = TRUE
  /\ UNCHANGED <<m_front, m_back, m_len, m_readNode, m_readIndex, m_t0,
                 m_startShift, m_duration, heap, pts, anchor>>

(* kcStartRecord: the list is created by flistInit with the camera's       *)
(* start_shift and duration and becomes the active record.                 *)
Init ==
  /\ \E s \in StartShifts, d \in Durations :
       LET l == flistInit(s, d) IN
       /\ m_recording = l.recording /\ m_front = l.front /\ m_back = l.back
       /\ m_readNode = l.readNode /\ m_len = l.len /\ m_readIndex = l.readIndex
       /\ m_t0 = l.t0 /\ m_startShift = l.startShift /\ m_duration = l.duration
  /\ heap = [i \in {} |-> [pts |-> 0, next |-> NULL]]
  /\ live = {}
  /\ pts \in StartPts
  /\ attached = TRUE
  /\ anchor = NULL
  /\ disposed = FALSE

Next ==
  \/ CaptureFrame
  \/ Seek
  \/ ReadFrame
  \/ StreamerStart
  \/ StopRecord
  \/ SetStartShift
  \/ SetDuration
  \/ streamer_dealloc

Spec == Init /\ [][Next]_vars
-----------------------------------------------------------------------------
(***************************************************************************)
(* The list as the code sees it: the chain of m_len nodes from m_front.   *)
(***************************************************************************)
RECURSIVE ChainFrom(_, _)
ChainFrom(f, k) ==
  IF k = 0 \/ f \notin DOMAIN heap THEN <<>>
  ELSE <<f>> \o ChainFrom(heap[f].next, k - 1)

Chain == ChainFrom(m_front, m_len)

(* Position of the cursor: number of nodes before the node it designates. *)
CursorPos == IF m_readNode = FRONT THEN 0
             ELSE CHOOSE i \in 1..Len(Chain) : Chain[i] = m_readNode

(* A step of the capture thread that allocated a node. *)
Appended == DOMAIN heap' # DOMAIN heap

TypeOK ==
  /\ m_recording \in {-1, 0, 1}
  /\ m_front \in Ptr /\ m_back \in Ptr
  /\ m_readNode \in Ids \cup {FRONT}
  /\ m_len \in 0..MaxAllocs /\ m_readIndex \in 0..MaxAllocs
  /\ m_t0 \in Int /\ m_startShift \in StartShifts /\ m_duration \in Durations
  /\ DOMAIN heap \subseteq Ids
  /\ \A i \in DOMAIN heap : heap[i].pts \in 0..MaxPts /\ heap[i].next \in Ptr
  /\ live \subseteq DOMAIN heap
  /\ pts \in 0..MaxPts /\ attached \in BOOLEAN /\ anchor \in 0..MaxPts \cup {NULL}
  /\ disposed \in BOOLEAN

(***************************************************************************)
(* ListIntact: after every flistAppend (including its keep-one-frame free, *)
(* its head trimming and its malloc-failure return) the list is a proper  *)
(* singly linked list: m_len live nodes from m_front to m_back, m_back has *)
(* no successor, pts never decrease along it, and every node not on it has *)
(* been freed (none leaked, none freed while still linked).  flistClear,   *)
(* streamer_time and the readers all walk this chain while the list      *)
(* exists.                                                                 *)
(***************************************************************************)
ListIntact ==
  ~disposed =>
  /\ m_len = 0 => m_front = NULL /\ m_back = NULL /\ live = {}
  /\ m_len > 0 =>
       /\ Len(Chain) = m_len
       /\ Chain[m_len] = m_back
       /\ heap[m_back].next = NULL
       /\ ToSet(Chain) = live
       /\ Cardinality(live) = m_len
       /\ \A i \in 1..m_len - 1 : heap[Chain[i]].pts <= heap[Chain[i + 1]].pts

(***************************************************************************)
(* CursorValid: the reader's m_readNode (set by flistNext/flistSeek under  *)
(* m_mutex) is &m_front or the m_next field of a node still in the list,   *)
(* so flistEnd/flistNext never read freed memory however the producer's    *)
(* appends interleave with the reads.                                      *)
(***************************************************************************)
CursorValid == m_readNode = FRONT \/ m_readNode \in ToSet(Chain)

(***************************************************************************)
(* CursorConsistent: the cursor is valid and m_readIndex (what             *)
(* streamer_index and streamer_progress report) is the number of nodes    *)
(* before it.                                                              *)
(***************************************************************************)
CursorConsistent == CursorValid /\ m_readIndex = CursorPos

(***************************************************************************)
(* ActivationAfterShift (spec 4.1 step 3): with a positive start shift S,  *)
(* flistAppend switches from waiting to recording only on a frame at least *)
(* S after the first frame it saw.                                         *)
(***************************************************************************)
ActivationAfterShift ==
  [][ (Appended /\ m_recording = -1 /\ m_startShift > 0
       /\ m_recording' = 1) =>
        heap'[m_back'].pts - anchor' >= m_startShift ]_vars

(***************************************************************************)
(* RefinesWindow: the linked list implements RecordWindow.  Read from      *)
(* m_front along m_len nodes, the list holds exactly the frames the        *)
(* sequence-level window holds after every flistAppend, kcStopRecord,      *)
(* streamer_start and setAttr, so the keep-one-frame free, the head trim,  *)
(* the relinking and the m_t0 bookkeeping lose and keep the same frames    *)
(* as the window they implement.                                           *)
(***************************************************************************)
Window == INSTANCE RecordWindow
            WITH frames <- [i \in 1..Len(Chain) |-> heap[Chain[i]].pts],
                 status <- m_recording,
                 t0 <- IF anchor = NULL THEN -1 ELSE anchor,
                 shift <- m_startShift, duration <- m_duration,
                 PtsValues <- 0..MaxPts

RefinesWindow == Window!WSpec
=============================================================================
