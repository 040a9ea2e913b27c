---------------------------- MODULE MC_FrameList ----------------------------
(* Model-checking instances of FrameList: the constants of each run. *)
EXTENDS FrameList, TLC

\* No start shift: the plain recording path the readers rely on.
NoShift == {0}
\* Pre-roll, plain and delayed start; setAttr may move between them.
AllShifts == {-2, 0, 2}
PosShift == {2}
\* Unbounded and a duration of 3 pts units.
MCDurations == {0, 3}
NoDuration == {0}
\* A capture clock still close to its start: int holds every pts.
EarlyPts == {0}
\* A recording created at the capture's start or a little later.
MCStartPts == {0, 2}
\* A capture clock that has run past the int range of m_t0.
LatePts == {0, 4, 5}
\* memfree() with a reserve of 1 (percent scaled like int): below the
\* reserve, twice the reserve (no progress), and above it, where the
\* unsigned p0 of kcRecordProgress wraps.
MCMemFree == {0, 2, 3}
\* Free memory well above the reserve.
PlentyMem == {3}
=============================================================================
