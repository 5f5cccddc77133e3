--------------------------- MODULE DeliveryQueue ---------------------------
(***************************************************************************)
(* Ordered delivery of completed messages (delivery.hpp, delivery.cpp).    *)
(*                                                                         *)
(* The reassembler emits messages in the order they finish.  DeliveryQueue *)
(* releases each stream's messages in ascending msg_id order: arrivals     *)
(* ahead of the cursor wait in `pending' until the gap is filled, or until *)
(* the window is full and the queue gives the missing ids up for lost.     *)
(*                                                                         *)
(* A message is its id: the queue moves messages and never looks inside.   *)
(* Each call returns its messages in ascending id order (it pops them off  *)
(* an ordered map), so a call is modelled by the SET it releases, and      *)
(* `released' counts how often each id was handed out.                     *)
(***************************************************************************)
EXTENDS Integers, FiniteSets, FiniteSetsExt

CONSTANTS
  Streams,     \* stream ids
  IdMod,       \* 2^32, the range of msg_id
  Ids,         \* the message ids that may arrive
  Window,      \* the constructor's argument
  MaxOffers    \* bound on the number of offer() calls

ASSUME DeliveryAssumption ==
  /\ IdMod \in Nat \ {0}
  /\ Ids \subseteq 0 .. (IdMod - 1)
  /\ Window \in Nat
  /\ MaxOffers \in Nat

VARIABLES
  streams,     \* streams_: the StreamOrder of every stream
  gaps,        \* gaps_
  duplicates,  \* duplicates_
  offers,      \* number of offer() calls so far
  released     \* how often each id of a stream was handed out

vars == << streams, gaps, duplicates, offers, released >>

(* The constructor treats a window of zero as one.                         *)
window == IF Window = 0 THEN 1 ELSE Window

MsgIds == 0 .. (IdMod - 1)

StreamOrder ==
  [started : BOOLEAN, next_expected : MsgIds, pending : SUBSET MsgIds]

(* Where drain() stops when the cursor is at c: past the contiguous run of *)
(* buffered ids that starts there.                                         *)
RunEnd(pending, c) ==
  CHOOSE n \in c .. IdMod : n \notin pending /\ c .. (n - 1) \subseteq pending

(* Ids are u32: incrementing the last one wraps to 0.                      *)
Wrap(n) == IF n = IdMod THEN 0 ELSE n

(* The first message ever seen for a stream sets its starting point.       *)
Started(o, id) == IF o.started THEN o ELSE [o EXCEPT !.started = TRUE,
                                                     !.next_expected = id]

Lowest(pending) == CHOOSE n \in pending : \A k \in pending : n <= k

Highest(pending) == CHOOSE n \in pending : \A k \in pending : k <= n

-----------------------------------------------------------------------------
Init ==
  /\ streams = [s \in Streams |->
                  [started |-> FALSE, next_expected |-> 0, pending |-> {}]]
  /\ gaps = 0
  /\ duplicates = 0
  /\ offers = 0
  /\ released = [s \in Streams |-> [id \in MsgIds |-> 0]]

(* The call returns the ids in R and leaves the stream in state o.         *)
Return(s, o, R) ==
  /\ streams' = [streams EXCEPT ![s] = o]
  /\ released' = [released EXCEPT ![s] =
                    [id \in MsgIds |-> @[id] + (IF id \in R THEN 1 ELSE 0)]]

Offered == offers < MaxOffers /\ offers' = offers + 1

(* Behind the cursor, or already buffered: dropped and counted.            *)
offer_duplicate(s, id) ==
  LET o == Started(streams[s], id) IN
  /\ Offered
  /\ id < o.next_expected \/ (id # o.next_expected /\ id \in o.pending)
  /\ duplicates' = duplicates + 1
  /\ Return(s, o, {})
  /\ UNCHANGED gaps

(* Mutation of offer_in_order: the buffered successors are not drained.    *)
offer_in_order_undrained(s, id) ==
  LET o == Started(streams[s], id) IN
  /\ Offered
  /\ id = o.next_expected
  /\ Return(s, [o EXCEPT !.next_expected = Wrap(id + 1)], {id})
  /\ UNCHANGED << gaps, duplicates >>

(* At the cursor: released, with the contiguous successors.                *)
offer_in_order(s, id) ==
  LET o   == Started(streams[s], id)
      end == RunEnd(o.pending, id + 1)
  IN  /\ Offered
      /\ id = o.next_expected
      /\ Return(s, [o EXCEPT !.next_expected = Wrap(end),
                             !.pending = @ \ (id .. (end - 1))],
                id .. (end - 1))
      /\ UNCHANGED << gaps, duplicates >>

Ahead(o, id) == id > o.next_expected /\ id \notin o.pending

(* Ahead of the cursor, and the window has room.                           *)
offer_buffered(s, id) ==
  LET o == Started(streams[s], id) IN
  /\ Offered
  /\ Ahead(o, id)
  /\ Cardinality(o.pending \cup {id}) <= window
  /\ Return(s, [o EXCEPT !.pending = @ \cup {id}], {})
  /\ UNCHANGED << gaps, duplicates >>

(***************************************************************************)
(* Ahead of the cursor with the window full: the cursor is forced onto the *)
(* lowest buffered id, which is released with its contiguous successors.   *)
(* The buffer held at most `window' ids before, so that the code's loop    *)
(* runs once.                                                              *)
(***************************************************************************)
offer_forced(s, id) ==
  LET o      == Started(streams[s], id)
      p      == o.pending \cup {id}
      lowest == Lowest(p)
      end    == RunEnd(p, lowest)
  IN  /\ Offered
      /\ Ahead(o, id)
      /\ Cardinality(p) > window
      /\ gaps' = gaps + (IF lowest > o.next_expected THEN 1 ELSE 0)
      /\ Return(s, [o EXCEPT !.next_expected = Wrap(end),
                             !.pending = p \ (lowest .. (end - 1))],
                lowest .. (end - 1))
      /\ UNCHANGED duplicates

(* Mutations of flush_stream: the cursor stays behind; a flush counts one  *)
(* gap only.                                                               *)
flush_stream_unmoved(s) ==
  LET o == streams[s] IN
  /\ o.pending # {}
  /\ gaps' = gaps + Cardinality({id \in o.pending :
                       id > o.next_expected /\ id - 1 \notin o.pending})
  /\ Return(s, [o EXCEPT !.pending = {}], o.pending)
  /\ UNCHANGED << duplicates, offers >>

flush_stream_one_gap(s) ==
  LET o == streams[s] IN
  /\ o.pending # {}
  /\ gaps' = gaps + 1
  /\ Return(s, [o EXCEPT !.next_expected = Wrap(Highest(o.pending) + 1),
                         !.pending = {}],
            o.pending)
  /\ UNCHANGED << duplicates, offers >>

(* Release everything; each non-contiguous step past the cursor is a gap.  *)
flush_stream(s) ==
  LET o == streams[s] IN
  /\ o.pending # {}
  /\ gaps' = gaps + Cardinality({id \in o.pending :
                       id > o.next_expected /\ id - 1 \notin o.pending})
  /\ Return(s, [o EXCEPT !.next_expected = Wrap(Highest(o.pending) + 1),
                         !.pending = {}],
            o.pending)
  /\ UNCHANGED << duplicates, offers >>

offer(s, id) ==
  \/ offer_duplicate(s, id)
  \/ offer_in_order(s, id)
  \/ offer_buffered(s, id)
  \/ offer_forced(s, id)

Next ==
  \E s \in Streams :
    \/ \E id \in Ids : offer(s, id)
    \/ flush_stream(s)

Spec == Init /\ [][Next]_vars

-----------------------------------------------------------------------------
TypeOK ==
  /\ streams \in [Streams -> StreamOrder]
  /\ gaps \in Nat
  /\ duplicates \in Nat
  /\ offers \in 0 .. MaxOffers
  /\ released \in [Streams -> [MsgIds -> Nat]]

Out(s) == {id \in MsgIds : released[s][id] > 0}

(***************************************************************************)
(* Nothing deliverable is ever left waiting: what is buffered lies         *)
(* strictly ahead of the cursor, and never exceeds the window.             *)
(***************************************************************************)
PendingAhead ==
  \A s \in Streams :
    /\ \A id \in streams[s].pending : id > streams[s].next_expected
    /\ Cardinality(streams[s].pending) <= window

(***************************************************************************)
(* No message is handed out twice, however often it is offered.            *)
(***************************************************************************)
AtMostOnce ==
  \A s \in Streams : \A id \in MsgIds : released[s][id] <= 1

(***************************************************************************)
(* Across calls, each stream's messages come out in ascending msg_id       *)
(* order: what a call releases lies above everything released before.      *)
(***************************************************************************)
InOrder ==
  [][\A s \in Streams : \A a, b \in MsgIds :
       released[s][a] > 0 /\ released'[s][b] > released[s][b] => a < b]_vars

(***************************************************************************)
(* The books balance.  Every message offered is released, still buffered,  *)
(* or counted as a duplicate: none vanishes.  And gaps() counts exactly    *)
(* the breaks in what was released: each released id whose predecessor     *)
(* was not, except a stream's first.                                       *)
(***************************************************************************)
AccountsExact ==
  /\ offers = duplicates
               + Quantify(Streams \X MsgIds, LAMBDA x : x[2] \in streams[x[1]].pending)
               + Quantify(Streams \X MsgIds, LAMBDA x : x[2] \in Out(x[1]))
  /\ gaps = Quantify(Streams \X MsgIds,
                     LAMBDA x : /\ x[2] \in Out(x[1])
                                /\ x[2] - 1 \notin Out(x[1])
                                /\ \E a \in Out(x[1]) : a < x[2])
=============================================================================
