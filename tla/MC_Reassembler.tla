-------------------------- MODULE MC_Reassembler --------------------------
(***************************************************************************)
(* Three messages on two streams.  The fragments of one of them start and  *)
(* end anywhere in the offset space, so that they overlap, leave holes,    *)
(* repeat, arrive in any order and run into the u32 clamp, and any of them *)
(* may carry FIN.  The others have two one-byte fragments, or come whole.  *)
(* The store holds up to three partials in every order, and RESETs and     *)
(* completions open holes at its head, its middle and its tail.            *)
(***************************************************************************)
EXTENDS Reassembler

CONSTANTS s1, s2

MCStreams == {s1, s2}
MCMsgs    == {1, 2}

Frag(s, m, o, n, last) ==
  [stream_id |-> s, msg_id |-> m, frag_offset |-> o, len |-> n,
   frag |-> TRUE, fin |-> last, compressed |-> FALSE]

(* A message in one frame, as encode_message sends it.                     *)
Whole(s, m, n) ==
  [stream_id |-> s, msg_id |-> m, frag_offset |-> 0, len |-> n,
   frag |-> FALSE, fin |-> TRUE, compressed |-> TRUE]

MCFrames ==
  { Frag(s1, 1, o, n, last) : o \in 0 .. 3, n \in 0 .. 2, last \in BOOLEAN }
    \cup { Frag(k[1], k[2], o, 1, o = 1) :
             k \in {<< s1, 2 >>, << s2, 1 >>}, o \in {0, 1} }
    \cup { Whole(s2, 1, 0) }
=============================================================================
