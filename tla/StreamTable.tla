---------------------------- MODULE StreamTable ----------------------------
(***************************************************************************)
(* The per-stream rolling frame counter (stream_state.hpp,                 *)
(* stream_state.cpp): every frame's 16-bit seq is compared with the last   *)
(* one of its stream, and classified as in order, a gap or a duplicate.    *)
(***************************************************************************)
EXTENDS Integers

CONSTANTS
  Streams,    \* stream ids
  SeqRange    \* 2^16, the range of seq

VARIABLE table     \* streams_: the Rolling record of every stream

Seqs == 0 .. (SeqRange - 1)

Rolling ==
  [frames : Nat, gaps : Nat, duplicates : Nat, resets : Nat,
   last_seq : Seqs, seeded : BOOLEAN]

(* Mutation of Expected: no wrap-around of the 16-bit counter.             *)
Expected_unwrapped(r) == r.last_seq + 1

Expected(r) == (r.last_seq + 1) % SeqRange

(* Mutation of Observed: a gap of a single frame passes unnoticed.         *)
Observed_lax(r, seq) ==
  LET n == [r EXCEPT !.frames = @ + 1] IN
  IF ~r.seeded
    THEN [n EXCEPT !.last_seq = seq, !.seeded = TRUE]
    ELSE IF seq = r.last_seq
      THEN [n EXCEPT !.duplicates = @ + 1]
      ELSE [n EXCEPT !.gaps = @ + (IF seq \notin {Expected(r), Expected(r) + 1}
                                     THEN 1 ELSE 0),
                     !.last_seq = seq]

(* observe(): the effect of a frame on its stream's record.                *)
Observed(r, seq) ==
  LET n == [r EXCEPT !.frames = @ + 1] IN
  IF ~r.seeded
    THEN [n EXCEPT !.last_seq = seq, !.seeded = TRUE]
    ELSE IF seq = r.last_seq
      THEN [n EXCEPT !.duplicates = @ + 1]
      ELSE [n EXCEPT !.gaps = @ + (IF seq # Expected(r) THEN 1 ELSE 0),
                     !.last_seq = seq]

(* note_reset(): the next frame re-seeds the counter.                      *)
AfterReset(r) ==
  [r EXCEPT !.resets = @ + 1, !.seeded = FALSE, !.last_seq = 0]

InitTable ==
  table = [s \in Streams |->
             [frames |-> 0, gaps |-> 0, duplicates |-> 0, resets |-> 0,
              last_seq |-> 0, seeded |-> FALSE]]

(* A frame that is not a RESET.                                            *)
observe(s, seq) == table' = [table EXCEPT ![s] = Observed(@, seq)]

(* A RESET frame is observed like any other, then noted.                   *)
observe_reset(s, seq) ==
  table' = [table EXCEPT ![s] = AfterReset(Observed(@, seq))]
=============================================================================
