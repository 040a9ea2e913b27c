----------------------------- MODULE MC_KEncoder -----------------------------
(* Constants of KEncoder for TLC. *)
EXTENDS KEncoder

CONSTANTS e1, e2

MCThreads == {e1, e2}

(* One thread encodes, restarts and drops the encoder; the other changes   *)
(* the bitrate while frames are in flight.                                 *)
EncoderOwner == [t \in MCThreads |->
                   IF t = e1 THEN {"new", "encode", "resolution", "dealloc"}
                   ELSE {"bitrate"}]

(* One thread encodes; another changes the resolution meanwhile. *)
ResizeWhileEncoding == [t \in MCThreads |->
                          IF t = e1 THEN {"new", "encode"} ELSE {"resolution"}]

MCBitrates == {1, 2}
====
