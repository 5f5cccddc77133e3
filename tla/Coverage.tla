------------------------------ MODULE Coverage ------------------------------
(***************************************************************************)
(* The bytes of a message that have arrived, as a set of offsets: what the *)
(* coalesced span list PartialMessage::ranges (reassembler.hpp) stands     *)
(* for.  Reassembler uses this form; RangeList models the list and shows   *)
(* that it keeps exactly this set.                                         *)
(***************************************************************************)
EXTENDS Integers

CONSTANT OffMax    \* 0xFFFFFFFF, the largest offset of a u32

ASSUME CoverageAssumption == OffMax \in Nat

Offsets == 0 .. OffMax

(* add_range: [begin, end) is covered; an empty fragment adds nothing.     *)
add_range(ranges, begin, end) == ranges \cup (begin .. (end - 1))

(* is_complete's test on the spans: exactly one, from 0, that reaches      *)
(* total_len.                                                              *)
OneSpanReaches(ranges, total_len) ==
  \E m \in 1 .. OffMax : m >= total_len /\ ranges = 0 .. (m - 1)
=============================================================================
