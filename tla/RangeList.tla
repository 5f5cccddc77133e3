----------------------------- MODULE RangeList -----------------------------
(***************************************************************************)
(* The sorted, coalesced list of [begin, end) spans that add_range keeps   *)
(* for one partial message (reassembler.cpp), beside the set of offsets    *)
(* that Coverage models it by.                                             *)
(***************************************************************************)
EXTENDS Coverage, SequencesExt

VARIABLES
  ranges,    \* PartialMessage::ranges, a sequence of << begin, end >>
  filled     \* the offsets of every fragment placed so far

spanvars == << ranges, filled >>

(* std::pair's order.                                                      *)
SpanLess(x, y) == x[1] < y[1] \/ (x[1] = y[1] /\ x[2] < y[2])

(* Mutation of Coalesce: spans that only touch stay apart.                 *)
Coalesce_touching(merged, span) ==
  IF merged # << >> /\ span[1] < Last(merged)[2]
    THEN [merged EXCEPT ![Len(merged)][2] = IF @ >= span[2] THEN @ ELSE span[2]]
    ELSE Append(merged, span)

(* One round of the merge loop; the spans come sorted.                     *)
Coalesce(merged, span) ==
  IF merged # << >> /\ span[1] <= Last(merged)[2]
    THEN [merged EXCEPT ![Len(merged)][2] = IF @ >= span[2] THEN @ ELSE span[2]]
    ELSE Append(merged, span)

(* std::sort: a span goes behind those that are less.                      *)
Sorted(list) ==
  LET ahead(j, i) == SpanLess(list[j], list[i]) \/ (list[j] = list[i] /\ j < i)
      place(i)    == 1 + Cardinality({j \in DOMAIN list : ahead(j, i)})
  IN  [p \in DOMAIN list |-> list[CHOOSE i \in DOMAIN list : place(i) = p]]

(* The merge loop: neighbours that touch or overlap become one.            *)
Merged(list) ==
  LET merged[n \in 0 .. Len(list)] ==
        IF n = 0 THEN << >> ELSE Coalesce(merged[n - 1], list[n])
  IN  merged[Len(list)]

(* emplace_back, sort, merge.                                              *)
ListAddRange(list, begin, end) ==
  IF end <= begin THEN list ELSE Merged(Sorted(Append(list, << begin, end >>)))

ListReaches(list, total_len) ==
  Len(list) = 1 /\ list[1][1] = 0 /\ list[1][2] >= total_len

InitSpans == ranges = << >> /\ filled = {}

Place(begin, end) ==
  /\ ranges' = ListAddRange(ranges, begin, end)
  /\ filled' = add_range(filled, begin, end)

NextSpans == \E begin, end \in Offsets : Place(begin, end)

-----------------------------------------------------------------------------
SpansTypeOK ==
  /\ ranges \in Seq(Offsets \X Offsets)
  /\ filled \subseteq Offsets

(***************************************************************************)
(* Whatever fragments arrived in whatever order, the list holds each       *)
(* filled offset and no other, as non-empty spans in ascending order with  *)
(* a gap between any two.                                                  *)
(***************************************************************************)
SpansExact ==
  /\ filled = UNION { ranges[i][1] .. (ranges[i][2] - 1) : i \in DOMAIN ranges }
  /\ \A i \in DOMAIN ranges : ranges[i][1] < ranges[i][2]
  /\ \A i, j \in DOMAIN ranges : i < j => ranges[i][2] < ranges[j][1]

(***************************************************************************)
(* is_complete's look at the list answers what the set says, for every     *)
(* length that a FIN can fix.                                              *)
(***************************************************************************)
CompleteAgrees ==
  \A n \in 1 .. OffMax : ListReaches(ranges, n) <=> OneSpanReaches(filled, n)

(***************************************************************************)
(* The list of add_range and is_complete stands for the set in every       *)
(* respect the reassembler relies on.                                      *)
(***************************************************************************)
ListMatchesSet == SpansTypeOK /\ SpansExact /\ CompleteAgrees
=============================================================================
