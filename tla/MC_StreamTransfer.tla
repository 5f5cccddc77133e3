------------------------- MODULE MC_StreamTransfer -------------------------
(***************************************************************************)
(* One stream sends an empty message and two of two fragments; a second    *)
(* stream sends an empty one.  A seq of two bits wraps on the way.         *)
(***************************************************************************)
EXTENDS StreamTransfer, TLC

CONSTANTS s1, s2

MCStreams    == {s1, s2}
MCMessages   == (s1 :> 3) @@ (s2 :> 1)
MCPayloadLen == [m \in 0 .. 2 |-> IF m = 0 THEN 0 ELSE 3]
=============================================================================
