------------------------ MODULE DeliveryQueue_proofs ------------------------
(***************************************************************************)
(* The delivery queue, proved for every set of streams, every range of     *)
(* message ids, every window and any number of calls.                      *)
(***************************************************************************)
EXTENDS DeliveryQueue, FiniteSetTheorems, TLAPS

-----------------------------------------------------------------------------
(* A set of naturals that is not empty has a least member, and a greatest  *)
(* one if it is bounded.  Induction over the naturals enters the proofs in *)
(* this form only.                                                         *)
LEMMA NatMin ==
  ASSUME NEW T \in SUBSET Nat, T # {}
  PROVE  \E n \in T : \A k \in T : n <= k
<1>1. \E R : IsWellFoundedOn(R, Nat) /\ \A k, n \in Nat : k < n => << k, n >> \in R
  <2>1. IsWellFoundedOn(OpToRel(<, Nat), Nat)
    BY NatLessThanWellFounded
  <2>2. \A k, n \in Nat : k < n => << k, n >> \in OpToRel(<, Nat)
    BY DEF OpToRel
  <2> QED
    BY <2>1, <2>2, Zenon
<1>2. PICK R : IsWellFoundedOn(R, Nat) /\ \A k, n \in Nat : k < n => << k, n >> \in R
  BY <1>1
<1>3. IsWellFoundedOn(R, Nat) /\ T \subseteq Nat
  BY <1>2
<1>4. \E n \in T : \A k \in T : ~(<< k, n >> \in R)
  BY <1>3, WFMin, Zenon
<1>5. \A k, n \in T : k \in Nat /\ n \in Nat /\ (~(k < n) => n <= k)
  OBVIOUS
<1> QED
  BY <1>2, <1>4, <1>5, Zenon

LEMMA BoundedMax ==
  ASSUME NEW m \in Nat, NEW T \in SUBSET (0 .. m), T # {}
  PROVE  \E n \in T : \A k \in T : k <= n
<1> DEFINE U == {j \in Nat : m - j \in T}
<1>1. U # {}
  <2> PICK k \in T : TRUE
    OBVIOUS
  <2>1. m - k \in Nat /\ m - (m - k) = k
    OBVIOUS
  <2> QED
    BY <2>1
<1>2. PICK j \in U : \A i \in U : j <= i
  BY <1>1, NatMin
<1>3. \A k \in T : m - k \in U
  OBVIOUS
<1>4. m - j \in T /\ \A k \in T : k <= m - j
  BY <1>2, <1>3
<1> QED
  BY <1>4

-----------------------------------------------------------------------------
(* The operators of the queue return what their names say.                 *)
LEMMA RunEndExact ==
  ASSUME NEW p \in SUBSET MsgIds, NEW c \in 0 .. IdMod
  PROVE  /\ RunEnd(p, c) \in c .. IdMod
         /\ RunEnd(p, c) \notin p
         /\ c .. (RunEnd(p, c) - 1) \subseteq p
<1> DEFINE T == {n \in c .. IdMod : n \notin p}
<1>1. IdMod \in T
  BY DeliveryAssumption DEF MsgIds
<1>2. T \in SUBSET Nat
  BY DeliveryAssumption
<1>3. PICK n \in T : \A k \in T : n <= k
  BY <1>1, <1>2, NatMin
<1>4. c .. (n - 1) \subseteq p
  BY <1>3, DeliveryAssumption
<1>5. \E e \in c .. IdMod : e \notin p /\ c .. (e - 1) \subseteq p
  BY <1>3, <1>4
<1> QED
  BY <1>5 DEF RunEnd

LEMMA LowestExact ==
  ASSUME NEW p \in SUBSET MsgIds, p # {}
  PROVE  Lowest(p) \in p /\ \A k \in p : Lowest(p) <= k
<1>1. \E n \in p : \A k \in p : n <= k
  BY NatMin, DeliveryAssumption DEF MsgIds
<1> QED
  BY <1>1 DEF Lowest

LEMMA HighestExact ==
  ASSUME NEW p \in SUBSET MsgIds, p # {}
  PROVE  Highest(p) \in p /\ \A k \in p : k <= Highest(p)
<1>1. IdMod - 1 \in Nat /\ p \in SUBSET (0 .. (IdMod - 1))
  BY DeliveryAssumption DEF MsgIds
<1>2. \E n \in p : \A k \in p : k <= n
  BY <1>1, BoundedMax
<1> QED
  BY <1>2 DEF Highest

LEMMA WrapType ==
  ASSUME NEW n \in 0 .. IdMod
  PROVE  Wrap(n) \in MsgIds /\ (n # IdMod => Wrap(n) = n)
  BY DeliveryAssumption DEF Wrap, MsgIds

LEMMA MsgIdsFinite ==
  ASSUME NEW p \in SUBSET MsgIds
  PROVE  IsFiniteSet(p) /\ Cardinality(p) \in Nat
<1>1. IsFiniteSet(MsgIds)
  BY FS_Interval, DeliveryAssumption DEF MsgIds
<1>2. IsFiniteSet(p)
  BY <1>1, FS_Subset
<1> QED
  BY <1>2, FS_CardinalityType

-----------------------------------------------------------------------------
(* What holds of the StreamOrder of every stream after every call.         *)
GoodOrder(o) ==
  /\ o \in StreamOrder
  /\ \A id \in o.pending : id > o.next_expected
  /\ Cardinality(o.pending) <= window
  /\ ~o.started => o.pending = {}

LEMMA WindowPositive == window \in Nat /\ window >= 1
  BY DeliveryAssumption DEF window

LEMMA StartedExact ==
  ASSUME NEW o, GoodOrder(o), NEW id \in MsgIds
  PROVE  /\ GoodOrder(Started(o, id))
         /\ Started(o, id).started
         /\ Started(o, id).pending = o.pending
         /\ Started(o, id).next_expected = IF o.started THEN o.next_expected ELSE id
<1>1. CASE o.started
  BY <1>1 DEF GoodOrder, Started, StreamOrder
<1>2. CASE ~o.started
  <2> DEFINE r == [o EXCEPT !.started = TRUE, !.next_expected = id]
  <2>1. r \in StreamOrder /\ r.started /\ r.next_expected = id /\ r.pending = o.pending
    BY DEF GoodOrder, StreamOrder
  <2>2. Started(o, id) = r
    BY <1>2 DEF Started
  <2>3. o.pending = {}
    BY <1>2 DEF GoodOrder
  <2> HIDE DEF r
  <2> QED
    BY <1>2, <2>1, <2>2, <2>3 DEF GoodOrder
<1> QED
  BY <1>1, <1>2

(* Cursor and buffer after a run of ids was released.                      *)
LEMMA DrainedGood ==
  ASSUME NEW p \in SUBSET MsgIds, NEW lo \in MsgIds, NEW end \in (lo + 1) .. IdMod,
         end \notin p, \A k \in p : lo <= k,
         NEW o \in StreamOrder, o.started, o.next_expected = Wrap(end),
         o.pending = p \ (lo .. (end - 1)), Cardinality(o.pending) <= window
  PROVE  GoodOrder(o)
<1>1. \A k \in p \ (lo .. (end - 1)) : k > Wrap(end)
  BY WrapType, DeliveryAssumption DEF MsgIds
<1> QED
  BY <1>1 DEF GoodOrder

-----------------------------------------------------------------------------
(***************************************************************************)
(* The one shape that all calls have.  A call takes in the ids of New, one *)
(* or none, releases those of R, and keeps the rest.                       *)
(***************************************************************************)
Handled(o, o2, New, R) ==
  /\ GoodOrder(o2) /\ o2.started
  /\ New \subseteq Ids /\ R \subseteq MsgIds
  /\ New \cap o.pending = {} /\ R \cap o2.pending = {}
  /\ New \cup o.pending = R \cup o2.pending
  /\ o.started => \A id \in New : id >= o.next_expected
  /\ R = {} => o.started /\ o2.next_expected = o.next_expected
  /\ R # {} => \E end \in 1 .. IdMod :
                 /\ o2.next_expected = Wrap(end)
                 /\ end - 1 \in R /\ \A id \in R : id < end
  /\ ~o.started => \A x, y \in New : x = y

(* The ids at which a call steps over a gap.                               *)
Breaks(o, R) ==
  {id \in R : o.started /\ id > o.next_expected /\ id - 1 \notin R}

Counted(o, New, R) ==
  /\ gaps' = gaps + Cardinality(Breaks(o, R))
  /\ duplicates' \in Nat
  /\ offers' \in 0 .. MaxOffers
  /\ offers' - duplicates' = offers - duplicates + Cardinality(New)

Shaped(s, o2, New, R) ==
  Return(s, o2, R) /\ Handled(streams[s], o2, New, R) /\ Counted(streams[s], New, R)

QueueInv == TypeOK /\ \A s \in Streams : GoodOrder(streams[s])

LEMMA Sizes ==
  /\ Cardinality({}) = 0
  /\ \A x : Cardinality({x}) = 1
  BY FS_EmptySet, FS_Singleton

LEMMA Tallies ==
  QueueInv => gaps \in Nat /\ duplicates \in Nat /\ offers \in Nat
              /\ MaxOffers \in Nat /\ offers <= MaxOffers
  BY DeliveryAssumption DEF QueueInv, TypeOK

LEMMA IdIsMsgId == \A id \in Ids : id \in MsgIds /\ id \in Nat /\ id < IdMod
  BY DeliveryAssumption DEF MsgIds

(* A duplicate changes nothing but its counter.                            *)
LEMMA DuplicateShaped ==
  ASSUME QueueInv, NEW s \in Streams, NEW id \in Ids, offer_duplicate(s, id)
  PROVE  Shaped(s, streams[s], {}, {})
<1> DEFINE o == streams[s]
           o1 == Started(o, id)
<1>1. GoodOrder(o) /\ id \in MsgIds /\ id \in Nat
  BY IdIsMsgId DEF QueueInv
<1>2. /\ GoodOrder(o1) /\ o1.pending = o.pending
      /\ o1.next_expected = IF o.started THEN o.next_expected ELSE id
  BY <1>1, StartedExact
<1>3. o.started
  BY <1>1, <1>2 DEF offer_duplicate, GoodOrder
<1>4. o1 = o
  BY <1>3 DEF Started
<1>5. Return(s, o, {})
  BY <1>4 DEF offer_duplicate
<1>6. Handled(o, o, {}, {})
  BY <1>1, <1>3 DEF Handled
<1>7. Breaks(o, {}) = {}
  BY DEF Breaks
<1>8. Counted(o, {}, {})
  <2>1. /\ offers < MaxOffers /\ offers' = offers + 1
        /\ duplicates' = duplicates + 1 /\ gaps' = gaps
    BY DEF offer_duplicate, Offered
  <2> QED
    BY <1>7, <2>1, Sizes, Tallies DEF Counted
<1> QED
  BY <1>5, <1>6, <1>8 DEF Shaped

(* An id at the cursor comes out, with the run behind it.                  *)
LEMMA InOrderShaped ==
  ASSUME QueueInv, NEW s \in Streams, NEW id \in Ids, offer_in_order(s, id)
  PROVE  \E o2, R : Shaped(s, o2, {id}, R)
<1> DEFINE o == streams[s]
           o1 == Started(o, id)
           p == o.pending
           end == RunEnd(p, id + 1)
           R == id .. (end - 1)
           o2 == [o1 EXCEPT !.next_expected = Wrap(end), !.pending = p \ R]
<1>1. GoodOrder(o) /\ id \in MsgIds /\ id \in Nat /\ p \in SUBSET MsgIds /\ id < IdMod
  BY IdIsMsgId DEF QueueInv, GoodOrder, StreamOrder
<1>2. /\ GoodOrder(o1) /\ o1.started /\ o1.pending = p /\ o1.next_expected = id
      /\ o.started => o.next_expected = id
  BY <1>1, StartedExact DEF offer_in_order
<1>3. \A k \in p : id < k
  BY <1>1, <1>2 DEF GoodOrder, MsgIds
<1>4. end \in (id + 1) .. IdMod /\ end \notin p /\ (id + 1) .. (end - 1) \subseteq p
  <2>1. id + 1 \in 0 .. IdMod
    BY <1>1, DeliveryAssumption
  <2> QED
    BY <1>1, <2>1, RunEndExact
<1>5. Return(s, o2, R)
  BY <1>2 DEF offer_in_order
<1>6. Cardinality(p \ R) <= window
  <2>1. p \ R \in SUBSET p /\ IsFiniteSet(p) /\ p \ R \in SUBSET MsgIds
    BY <1>1, MsgIdsFinite
  <2>2. Cardinality(p \ R) <= Cardinality(p) /\ Cardinality(p) <= window
    BY <1>1, <2>1, FS_Subset DEF GoodOrder
  <2> HIDE DEF R, p
  <2> QED
    BY <1>1, <2>1, <2>2, MsgIdsFinite, WindowPositive
<1>7. o2 \in StreamOrder /\ o2.started /\ o2.next_expected = Wrap(end)
      /\ o2.pending = p \ R
  <2> DEFINE n == Wrap(end)
             q == p \ R
  <2>1. o1 \in StreamOrder /\ n \in MsgIds /\ q \in SUBSET MsgIds
    BY <1>1, <1>2, <1>4, WrapType, DeliveryAssumption DEF GoodOrder
  <2>2. o1.started /\ o2 = [o1 EXCEPT !.next_expected = n, !.pending = q]
    BY <1>2
  <2> HIDE DEF n, q, o1, o2
  <2>3. /\ o2 \in StreamOrder /\ o2.started
        /\ o2.next_expected = n /\ o2.pending = q
    BY <2>1, <2>2 DEF StreamOrder
  <2> QED
    BY <2>3 DEF n, q
<1> HIDE DEF end, o2
<1>8. GoodOrder(o2)
  <2>1. (\A k \in p : id <= k) /\ Cardinality(o2.pending) <= window
    BY <1>1, <1>3, <1>6, <1>7 DEF MsgIds
  <2> HIDE DEF p
  <2> QED
    BY <1>1, <1>4, <1>7, <2>1, DrainedGood
<1>9. /\ R \subseteq MsgIds /\ id \notin p /\ id \in R /\ {id} \cup p = R \cup (p \ R)
      /\ end \in 1 .. IdMod /\ end - 1 \in R /\ \A k \in R : k < end /\ k >= id
  BY <1>1, <1>3, <1>4, DeliveryAssumption DEF MsgIds
<1>10. Cardinality({id}) = 1
  BY Sizes
<1>11. Handled(o, o2, {id}, R)
  BY <1>1, <1>2, <1>7, <1>8, <1>9, <1>10 DEF Handled
<1>12. Counted(o, {id}, R)
  <2>1. Breaks(o, R) = {}
    BY <1>1, <1>2, <1>4 DEF Breaks
  <2>2. /\ offers < MaxOffers /\ offers' = offers + 1
        /\ duplicates' = duplicates /\ gaps' = gaps
    BY DEF offer_in_order, Offered
  <2>3. Cardinality({}) = 0
    BY Sizes
  <2> HIDE DEF o, p, R
  <2> QED
    BY <1>10, <2>1, <2>2, <2>3, Tallies DEF Counted
<1> QED
  BY <1>5, <1>11, <1>12 DEF Shaped

(* An id ahead of the cursor of a stream is news to it.                    *)
LEMMA AheadFacts ==
  ASSUME QueueInv, NEW s \in Streams, NEW id \in Ids, Ahead(Started(streams[s], id), id)
  PROVE  /\ GoodOrder(streams[s]) /\ streams[s].started
         /\ Started(streams[s], id) = streams[s]
         /\ id \in MsgIds /\ id > streams[s].next_expected
         /\ id \notin streams[s].pending
<1> DEFINE o == streams[s]
<1>1. GoodOrder(o) /\ id \in MsgIds /\ id \in Nat
  BY IdIsMsgId DEF QueueInv
<1>2. o.started
  BY <1>1, StartedExact DEF Ahead
<1>3. Started(o, id) = o
  BY <1>2 DEF Started
<1> QED
  BY <1>1, <1>2, <1>3 DEF Ahead

(* An id ahead of the cursor waits while the window has room.              *)
LEMMA BufferedShaped ==
  ASSUME QueueInv, NEW s \in Streams, NEW id \in Ids, offer_buffered(s, id)
  PROVE  \E o2 : Shaped(s, o2, {id}, {})
<1> DEFINE o == streams[s]
           q == o.pending \cup {id}
           o2 == [o EXCEPT !.pending = q]
<1>1. /\ GoodOrder(o) /\ o.started /\ Started(o, id) = o
      /\ id \in MsgIds /\ id > o.next_expected /\ id \notin o.pending
  BY AheadFacts DEF offer_buffered
<1>2. Return(s, o2, {}) /\ Cardinality(q) <= window
  BY <1>1 DEF offer_buffered
<1>3. o \in StreamOrder /\ q \in SUBSET MsgIds /\ o.next_expected \in Nat /\ id \in Nat
  BY <1>1, IdIsMsgId, DeliveryAssumption DEF GoodOrder, StreamOrder, MsgIds
<1>4. /\ o2 \in StreamOrder /\ o2.started
      /\ o2.next_expected = o.next_expected /\ o2.pending = q
  <2> HIDE DEF q, o
  <2> QED
    BY <1>1, <1>3 DEF StreamOrder
<1> HIDE DEF o2
<1>5. GoodOrder(o2)
  BY <1>1, <1>2, <1>4 DEF GoodOrder
<1>6. Cardinality({id}) = 1 /\ Cardinality({}) = 0
  BY Sizes
<1>7. Handled(o, o2, {id}, {})
  BY <1>1, <1>3, <1>4, <1>5 DEF Handled
<1>8. Counted(o, {id}, {})
  <2>1. Breaks(o, {}) = {}
    BY DEF Breaks
  <2>2. /\ offers < MaxOffers /\ offers' = offers + 1
        /\ duplicates' = duplicates /\ gaps' = gaps
    BY DEF offer_buffered, Offered
  <2> HIDE DEF o
  <2> QED
    BY <1>6, <2>1, <2>2, Tallies DEF Counted
<1> QED
  BY <1>2, <1>7, <1>8 DEF Shaped

(* With the window full, the lowest run comes out across one gap.          *)
LEMMA ForcedShaped ==
  ASSUME QueueInv, NEW s \in Streams, NEW id \in Ids, offer_forced(s, id)
  PROVE  \E o2, R : Shaped(s, o2, {id}, R)
<1> DEFINE o == streams[s]
           p == o.pending \cup {id}
           lo == Lowest(p)
           end == RunEnd(p, lo)
           R == lo .. (end - 1)
           o2 == [o EXCEPT !.next_expected = Wrap(end), !.pending = p \ R]
<1>1. /\ GoodOrder(o) /\ o.started /\ Started(o, id) = o
      /\ id \in MsgIds /\ id > o.next_expected /\ id \notin o.pending
  BY AheadFacts DEF offer_forced
<1>2. /\ Return(s, o2, R) /\ Cardinality(p) > window
      /\ gaps' = gaps + (IF lo > o.next_expected THEN 1 ELSE 0)
  BY <1>1 DEF offer_forced
<1>3. /\ o \in StreamOrder /\ p \in SUBSET MsgIds /\ p # {}
      /\ o.next_expected \in Nat /\ id \in Nat /\ id < IdMod
      /\ \A k \in p : k > o.next_expected /\ k \in Nat /\ k < IdMod
  BY <1>1, IdIsMsgId, DeliveryAssumption DEF GoodOrder, StreamOrder, MsgIds
<1>4. lo \in p /\ (\A k \in p : lo <= k) /\ lo \in MsgIds /\ lo \in Nat /\ lo < IdMod
  BY <1>3, LowestExact
<1>5. end \in lo .. IdMod /\ end \notin p /\ lo .. (end - 1) \subseteq p
  <2>1. lo \in 0 .. IdMod
    BY <1>4, DeliveryAssumption
  <2>2. PICK q, c : q = p /\ c = lo
    OBVIOUS
  <2>3. q \in SUBSET MsgIds /\ c \in 0 .. IdMod
    BY <1>3, <2>1, <2>2
  <2>4. RunEnd(q, c) \in c .. IdMod /\ RunEnd(q, c) \notin q /\ c .. (RunEnd(q, c) - 1) \subseteq q
    BY <2>3, RunEndExact
  <2> QED
    BY <2>2, <2>4
<1>6. end \in (lo + 1) .. IdMod
  BY <1>4, <1>5, DeliveryAssumption
<1>7. Cardinality(p \ R) <= window
  <2>1. IsFiniteSet(o.pending) /\ Cardinality(o.pending) \in Nat
    BY <1>3, MsgIdsFinite
  <2>2. Cardinality(p) = Cardinality(o.pending) + 1 /\ IsFiniteSet(p)
    BY <1>1, <2>1, FS_AddElement
  <2>3. Cardinality(p \ {lo}) = Cardinality(p) - 1 /\ IsFiniteSet(p \ {lo})
    <3> HIDE DEF p, lo
    <3> QED
      BY <1>4, <2>2, FS_RemoveElement
  <2>4. p \ R \in SUBSET (p \ {lo})
    BY <1>4, <1>6
  <2>5. Cardinality(p \ R) <= Cardinality(p \ {lo})
    BY <2>3, <2>4, FS_Subset
  <2>6. Cardinality(o.pending) <= window /\ Cardinality(p \ R) \in Nat
    BY <1>1, <1>3, MsgIdsFinite DEF GoodOrder
  <2> HIDE DEF R, p, lo, o
  <2> QED
    BY <2>1, <2>2, <2>3, <2>5, <2>6, WindowPositive
<1>8. o2 \in StreamOrder /\ o2.started /\ o2.next_expected = Wrap(end)
      /\ o2.pending = p \ R
  <2> DEFINE n == Wrap(end)
             q == p \ R
  <2>1. n \in MsgIds /\ q \in SUBSET MsgIds
    BY <1>3, <1>4, <1>6, WrapType, DeliveryAssumption
  <2>2. o2 = [o EXCEPT !.next_expected = n, !.pending = q]
    OBVIOUS
  <2> HIDE DEF n, q, o, o2
  <2>3. /\ o2 \in StreamOrder /\ o2.started
        /\ o2.next_expected = n /\ o2.pending = q
    BY <1>1, <1>3, <2>1, <2>2 DEF StreamOrder
  <2> QED
    BY <2>3 DEF n, q
<1> HIDE DEF end, o2, lo
<1>9. GoodOrder(o2)
  <2>1. Cardinality(o2.pending) <= window
    BY <1>7, <1>8
  <2> HIDE DEF p
  <2> QED
    BY <1>3, <1>4, <1>5, <1>6, <1>8, <2>1, DrainedGood
<1>10. /\ R \subseteq MsgIds /\ lo \in R /\ R \subseteq p
       /\ end \in 1 .. IdMod /\ end - 1 \in R /\ \A k \in R : k < end
  BY <1>3, <1>4, <1>5, <1>6, DeliveryAssumption DEF MsgIds
<1>11. {id} \cup o.pending = R \cup (p \ R)
  BY <1>10
<1>12. Handled(o, o2, {id}, R)
  <2>1. id >= o.next_expected
    BY <1>1, <1>3
  <2> HIDE DEF R, p, o
  <2> QED
    BY <1>1, <1>3, <1>8, <1>9, <1>10, <1>11, <2>1 DEF Handled
<1>13. Counted(o, {id}, R)
  <2>1. Breaks(o, R) = {lo}
    BY <1>1, <1>3, <1>4, <1>6 DEF Breaks
  <2>2. /\ offers < MaxOffers /\ offers' = offers + 1
        /\ duplicates' = duplicates /\ gaps' = gaps + 1
    BY <1>2, <1>3, <1>4 DEF offer_forced, Offered
  <2>3. Cardinality({lo}) = 1 /\ Cardinality({id}) = 1
    BY Sizes
  <2> HIDE DEF o, p, R
  <2> QED
    BY <2>1, <2>2, <2>3, Tallies DEF Counted
<1> QED
  BY <1>2, <1>12, <1>13 DEF Shaped

(* A flush releases all that is buffered, across every gap in it.          *)
LEMMA FlushShaped ==
  ASSUME QueueInv, NEW s \in Streams, flush_stream(s)
  PROVE  \E o2, R : Shaped(s, o2, {}, R)
<1> DEFINE o == streams[s]
           p == o.pending
           top == Highest(p)
           o2 == [o EXCEPT !.next_expected = Wrap(top + 1), !.pending = {}]
<1>1. /\ p # {} /\ Return(s, o2, p)
      /\ gaps' = gaps + Cardinality({id \in p : id > o.next_expected /\ id - 1 \notin p})
      /\ duplicates' = duplicates /\ offers' = offers
  BY DEF flush_stream
<1>2. GoodOrder(o) /\ o.started /\ o \in StreamOrder /\ p \in SUBSET MsgIds
  BY <1>1 DEF QueueInv, GoodOrder, StreamOrder
<1>3. top \in p /\ (\A k \in p : k <= top) /\ top \in Nat /\ top + 1 \in 1 .. IdMod
  BY <1>1, <1>2, HighestExact, DeliveryAssumption DEF MsgIds
<1>4. /\ o2 \in StreamOrder /\ o2.started /\ o2.next_expected = Wrap(top + 1)
      /\ o2.pending = {}
  <2> DEFINE n == Wrap(top + 1)
  <2>1. n \in MsgIds
    BY <1>3, WrapType, DeliveryAssumption
  <2>2. o2 = [o EXCEPT !.next_expected = n, !.pending = {}]
    OBVIOUS
  <2> HIDE DEF n, o, o2
  <2>3. /\ o2 \in StreamOrder /\ o2.started
        /\ o2.next_expected = n /\ o2.pending = {}
    BY <1>2, <2>1, <2>2 DEF StreamOrder
  <2> QED
    BY <2>3 DEF n
<1> HIDE DEF o2, top
<1>5. Cardinality({}) = 0
  BY Sizes
<1>6. GoodOrder(o2)
  BY <1>4, <1>5, WindowPositive DEF GoodOrder
<1>7. Handled(o, o2, {}, p)
  <2>1. (top + 1) - 1 \in p /\ \A k \in p : k < top + 1
    BY <1>2, <1>3, DeliveryAssumption DEF MsgIds
  <2> HIDE DEF o
  <2> QED
    BY <1>1, <1>2, <1>3, <1>4, <1>6, <2>1 DEF Handled
<1>8. Breaks(o, p) = {id \in p : id > o.next_expected /\ id - 1 \notin p}
  BY <1>2 DEF Breaks
<1>9. Counted(o, {}, p)
  <2> HIDE DEF p, o
  <2> QED
    BY <1>1, <1>5, <1>8, Tallies DEF Counted
<1> QED
  BY <1>1, <1>7, <1>9 DEF Shaped

LEMMA NextShaped ==
  ASSUME QueueInv, Next
  PROVE  \E s \in Streams : \E o2, New, R : Shaped(s, o2, New, R)
<1> PICK s \in Streams : (\E id \in Ids : offer(s, id)) \/ flush_stream(s)
  BY DEF Next
<1>1. CASE \E id \in Ids : offer(s, id)
  <2> PICK id \in Ids : offer(s, id)
    BY <1>1
  <2> QED
    BY DuplicateShaped, InOrderShaped, BufferedShaped, ForcedShaped DEF offer
<1>2. CASE flush_stream(s)
  BY <1>2, FlushShaped
<1> QED
  BY <1>1, <1>2

-----------------------------------------------------------------------------
(* What a call does to every stream.                                       *)
LEMMA ReturnEffect ==
  ASSUME QueueInv, NEW s \in Streams, NEW o2 \in StreamOrder,
         NEW R \in SUBSET MsgIds, Return(s, o2, R)
  PROVE  /\ streams' \in [Streams -> StreamOrder]
         /\ released' \in [Streams -> [MsgIds -> Nat]]
         /\ \A u \in Streams : streams'[u] = IF u = s THEN o2 ELSE streams[u]
         /\ \A u \in Streams : \A id \in MsgIds :
              released'[u][id] = IF u = s /\ id \in R THEN released[u][id] + 1
                                                      ELSE released[u][id]
         /\ \A u \in Streams : Out(u)' = IF u = s THEN Out(u) \cup R ELSE Out(u)
<1> DEFINE row == [id \in MsgIds |-> released[s][id] + (IF id \in R THEN 1 ELSE 0)]
<1>1. streams \in [Streams -> StreamOrder] /\ released \in [Streams -> [MsgIds -> Nat]]
  BY DEF QueueInv, TypeOK
<1>2. row \in [MsgIds -> Nat]
  BY <1>1
<1>3. /\ streams' = [streams EXCEPT ![s] = o2]
      /\ released' = [released EXCEPT ![s] = row]
  BY DEF Return
<1> HIDE DEF row
<1>4. /\ streams' \in [Streams -> StreamOrder]
      /\ released' \in [Streams -> [MsgIds -> Nat]]
      /\ \A u \in Streams : streams'[u] = IF u = s THEN o2 ELSE streams[u]
      /\ \A u \in Streams : released'[u] = IF u = s THEN row ELSE released[u]
  BY <1>1, <1>2, <1>3
<1>5. \A u \in Streams : \A id \in MsgIds :
        /\ released[u][id] \in Nat
        /\ released'[u][id] = IF u = s /\ id \in R THEN released[u][id] + 1
                                                   ELSE released[u][id]
  BY <1>1, <1>4 DEF row
<1>6. \A u \in Streams : Out(u)' = IF u = s THEN Out(u) \cup R ELSE Out(u)
  BY <1>5 DEF Out
<1> QED
  BY <1>4, <1>5, <1>6

LEMMA InitQueueInv == Init => QueueInv
<1> SUFFICES ASSUME Init PROVE QueueInv
  OBVIOUS
<1> DEFINE o == [started |-> FALSE, next_expected |-> 0, pending |-> {}]
<1>1. 0 \in MsgIds /\ Cardinality({}) = 0
  BY Sizes, DeliveryAssumption DEF MsgIds
<1>2. o \in StreamOrder /\ o.pending = {} /\ ~o.started
  BY <1>1 DEF StreamOrder
<1>3. GoodOrder(o)
  BY <1>1, <1>2, WindowPositive DEF GoodOrder
<1>4. TypeOK
  BY <1>2, DeliveryAssumption DEF Init, TypeOK
<1>5. \A s \in Streams : streams[s] = o
  BY DEF Init
<1> QED
  BY <1>3, <1>4, <1>5 DEF QueueInv

LEMMA ShapedQueueInv ==
  ASSUME QueueInv, NEW s \in Streams, NEW o2, NEW New, NEW R, Shaped(s, o2, New, R)
  PROVE  QueueInv'
<1>1. /\ Return(s, o2, R) /\ GoodOrder(o2) /\ o2 \in StreamOrder
      /\ R \in SUBSET MsgIds
  BY DEF Shaped, Handled, GoodOrder
<1>2. /\ streams' \in [Streams -> StreamOrder]
      /\ released' \in [Streams -> [MsgIds -> Nat]]
      /\ \A u \in Streams : streams'[u] = IF u = s THEN o2 ELSE streams[u]
  BY <1>1, ReturnEffect
<1>3. gaps' \in Nat /\ duplicates' \in Nat /\ offers' \in 0 .. MaxOffers
  <2>1. Breaks(streams[s], R) \in SUBSET MsgIds
    BY <1>1 DEF Breaks
  <2>2. Cardinality(Breaks(streams[s], R)) \in Nat
    BY <2>1, MsgIdsFinite
  <2> QED
    BY <2>2, Tallies DEF Shaped, Counted
<1>4. TypeOK'
  BY <1>2, <1>3 DEF TypeOK
<1>5. \A u \in Streams : GoodOrder(streams'[u])
  BY <1>1, <1>2 DEF QueueInv
<1> QED
  BY <1>4, <1>5 DEF QueueInv, GoodOrder, StreamOrder, MsgIds, window

LEMMA StepQueueInv == QueueInv /\ [Next]_vars => QueueInv'
<1> SUFFICES ASSUME QueueInv, [Next]_vars PROVE QueueInv'
  OBVIOUS
<1>1. CASE Next
  BY <1>1, NextShaped, ShapedQueueInv
<1>2. CASE UNCHANGED vars
  BY <1>2 DEF vars, QueueInv, TypeOK, GoodOrder
<1> QED
  BY <1>1, <1>2

LEMMA QueueInvariant == Spec => []QueueInv
  BY InitQueueInv, StepQueueInv, PTL DEF Spec

-----------------------------------------------------------------------------
(* The cursor stays a u32 and the counters stay counters (delivery.hpp).   *)
THEOREM DeliveryTypeCorrect == Spec => []TypeOK
<1>1. QueueInv => TypeOK
  BY DEF QueueInv
<1> QED
  BY <1>1, QueueInvariant, PTL

(* drain() and the window rule leave nothing deliverable behind, and the   *)
(* buffer never exceeds the window, also when the id counter wraps.        *)
THEOREM PendingAheadAlways == Spec => []PendingAhead
<1>1. QueueInv => PendingAhead
  BY DEF QueueInv, GoodOrder, PendingAhead
<1> QED
  BY <1>1, QueueInvariant, PTL

-----------------------------------------------------------------------------
(***************************************************************************)
(* Order, uniqueness and the books.  They hold as long as the last u32 is  *)
(* not used as an id: after it the cursor is back at 0 and ids released    *)
(* long ago are taken for new ones.                                        *)
(*                                                                         *)
(* The cursor is what remembers the releases: it stands right behind the   *)
(* highest id that came out, or nothing came out yet.                      *)
(***************************************************************************)
CursorBehind(o, out) ==
  /\ o.pending \subseteq Ids
  /\ o.started => /\ o.next_expected - 1 \in out
                  /\ \A id \in out : id < o.next_expected
  /\ ~o.started => out = {}

DeliveryInv ==
  QueueInv /\ AtMostOnce /\ \A s \in Streams : CursorBehind(streams[s], Out(s))

(* What a call releases lies at or past the cursor, hence above everything *)
(* that came out before, and the cursor follows it.                        *)
LEMMA HandledOrder ==
  ASSUME IdMod - 1 \notin Ids, NEW o, GoodOrder(o), NEW out \in SUBSET MsgIds,
         CursorBehind(o, out), NEW o2, NEW New, NEW R, Handled(o, o2, New, R)
  PROVE  /\ R \subseteq Ids
         /\ o.started => \A id \in New \cup R : id \in MsgIds /\ id >= o.next_expected
         /\ \A a \in out, b \in New \cup R : a < b
         /\ CursorBehind(o2, out \cup R)
<1>1. /\ New \subseteq Ids /\ R \subseteq New \cup o.pending
      /\ o.pending \subseteq Ids /\ o2.pending \subseteq New \cup o.pending
      /\ R \subseteq MsgIds
  BY DEF Handled, CursorBehind
<1>2. R \subseteq Ids /\ o2.pending \subseteq Ids /\ New \cup R \subseteq MsgIds
  BY <1>1, IdIsMsgId
<1>3. o.next_expected \in Nat /\ \A id \in MsgIds : id \in Nat
  BY DeliveryAssumption DEF GoodOrder, StreamOrder, MsgIds
<1>4. o.started => \A id \in New \cup R : id >= o.next_expected
  <2>1. o.started => \A id \in New : id >= o.next_expected
    BY DEF Handled
  <2>2. \A id \in o.pending : id >= o.next_expected
    BY <1>1, <1>3, IdIsMsgId DEF GoodOrder
  <2> QED
    BY <1>1, <2>1, <2>2
<1>5. \A a \in out, b \in New \cup R : a < b
  BY <1>2, <1>3, <1>4 DEF CursorBehind
<1>6. o2.started
  BY DEF Handled
<1>7. CASE R = {}
  <2>1. o.started /\ o2.next_expected = o.next_expected
    BY <1>7 DEF Handled
  <2> QED
    BY <1>2, <1>4, <1>5, <1>6, <1>7, <2>1 DEF CursorBehind
<1>8. CASE R # {}
  <2>1. PICK end \in 1 .. IdMod : /\ o2.next_expected = Wrap(end)
                                 /\ end - 1 \in R /\ \A id \in R : id < end
    BY <1>8 DEF Handled
  <2>2. end # IdMod /\ end \in 0 .. IdMod
    BY <1>2, <2>1, DeliveryAssumption
  <2>3. o2.next_expected = end
    BY <2>1, <2>2, WrapType
  <2>4. \A id \in out : id < end
    <3>1. \A id \in out : id < end - 1 /\ id \in Nat
      BY <1>3, <1>5, <2>1
    <3> QED
      BY <3>1, <2>2, DeliveryAssumption
  <2> QED
    BY <1>2, <1>4, <1>5, <1>6, <2>1, <2>3, <2>4 DEF CursorBehind
<1> QED
  BY <1>2, <1>4, <1>5, <1>7, <1>8

LEMMA OutOfMsgIds == \A s \in Streams : Out(s) \in SUBSET MsgIds
  BY DEF Out

(* The same, in terms of the step.                                         *)
Ordered(s, o2, New, R) ==
  /\ R \in SUBSET MsgIds /\ New \in SUBSET MsgIds
  /\ \A a \in Out(s), b \in New \cup R : a < b
  /\ CursorBehind(o2, Out(s) \cup R)
  /\ \A u \in Streams : streams'[u] = IF u = s THEN o2 ELSE streams[u]
  /\ \A u \in Streams : \A id \in MsgIds :
       released'[u][id] = IF u = s /\ id \in R THEN released[u][id] + 1
                                               ELSE released[u][id]
  /\ \A u \in Streams : Out(u)' = IF u = s THEN Out(u) \cup R ELSE Out(u)

LEMMA ShapedOrder ==
  ASSUME IdMod - 1 \notin Ids, DeliveryInv, NEW s \in Streams, NEW o2, NEW New, NEW R,
         Shaped(s, o2, New, R)
  PROVE  Ordered(s, o2, New, R)
<1>1. /\ QueueInv /\ GoodOrder(streams[s]) /\ CursorBehind(streams[s], Out(s))
      /\ Handled(streams[s], o2, New, R) /\ Return(s, o2, R)
  BY DEF DeliveryInv, QueueInv, Shaped
<1>2. o2 \in StreamOrder /\ R \in SUBSET MsgIds /\ New \in SUBSET MsgIds
  BY <1>1, IdIsMsgId DEF Handled, GoodOrder
<1>3. /\ \A a \in Out(s), b \in New \cup R : a < b
      /\ CursorBehind(o2, Out(s) \cup R)
  <2>1. Out(s) \in SUBSET MsgIds
    BY OutOfMsgIds
  <2> QED
    BY <1>1, <2>1, HandledOrder, Zenon
<1> QED
  BY <1>1, <1>2, <1>3, ReturnEffect DEF Ordered

LEMMA InitDeliveryInv == Init => DeliveryInv
<1> SUFFICES ASSUME Init PROVE DeliveryInv
  OBVIOUS
<1>1. QueueInv
  BY InitQueueInv
<1>2. \A s \in Streams : \A id \in MsgIds : released[s][id] = 0
  BY DEF Init
<1>3. \A s \in Streams : Out(s) = {}
  BY <1>2 DEF Out
<1>4. \A s \in Streams : ~streams[s].started /\ streams[s].pending = {}
  BY DEF Init
<1> QED
  BY <1>1, <1>2, <1>3, <1>4 DEF DeliveryInv, AtMostOnce, CursorBehind

LEMMA ShapedDeliveryInv ==
  ASSUME IdMod - 1 \notin Ids, DeliveryInv, NEW s \in Streams, NEW o2, NEW New, NEW R,
         Shaped(s, o2, New, R)
  PROVE  DeliveryInv'
<1>1. QueueInv'
  BY ShapedQueueInv DEF DeliveryInv
<1>2. Ordered(s, o2, New, R)
  BY ShapedOrder
<1>3. \A id \in R : released[s][id] = 0
  <2>1. \A id \in R : id \notin Out(s)
    BY <1>2, DeliveryAssumption DEF Ordered, MsgIds
  <2>2. \A id \in MsgIds : released[s][id] \in Nat
    BY DEF DeliveryInv, QueueInv, TypeOK
  <2> QED
    BY <1>2, <2>1, <2>2 DEF Ordered, Out
<1>4. AtMostOnce'
  <2>1. \A u \in Streams : \A id \in MsgIds : released'[u][id] <= 1
    BY <1>2, <1>3 DEF DeliveryInv, AtMostOnce, Ordered
  <2> QED
    BY <2>1 DEF AtMostOnce, MsgIds
<1>5. \A u \in Streams : CursorBehind(streams'[u], Out(u)')
  BY <1>2 DEF DeliveryInv, Ordered
<1> QED
  BY <1>1, <1>4, <1>5 DEF DeliveryInv, CursorBehind

LEMMA StepDeliveryInv ==
  ASSUME IdMod - 1 \notin Ids
  PROVE  DeliveryInv /\ [Next]_vars => DeliveryInv'
<1> SUFFICES ASSUME DeliveryInv, [Next]_vars PROVE DeliveryInv'
  OBVIOUS
<1>1. CASE Next
  <2>1. QueueInv
    BY DEF DeliveryInv
  <2> QED
    BY <1>1, <2>1, NextShaped, ShapedDeliveryInv
<1>2. CASE UNCHANGED vars
  <2>1. streams' = streams /\ released' = released
    BY <1>2 DEF vars
  <2>2. QueueInv'
    BY <1>2, StepQueueInv DEF DeliveryInv
  <2> QED
    BY <2>1, <2>2 DEF DeliveryInv, AtMostOnce, CursorBehind, Out
<1> QED
  BY <1>1, <1>2

LEMMA DeliveryInvariant ==
  ASSUME IdMod - 1 \notin Ids
  PROVE  Spec => []DeliveryInv
  BY InitDeliveryInv, StepDeliveryInv, PTL DEF Spec

-----------------------------------------------------------------------------
(* No message is handed out twice, however often it is offered: an id      *)
(* behind the cursor or in the buffer is a duplicate (DeliveryQueue::offer) *)
THEOREM AtMostOnceAlways ==
  ASSUME IdMod - 1 \notin Ids
  PROVE  Spec => []AtMostOnce
<1>1. DeliveryInv => AtMostOnce
  BY DEF DeliveryInv
<1> QED
  BY <1>1, DeliveryInvariant, PTL

(* Every stream's messages come out in ascending msg_id order across all   *)
(* calls of offer() and flush_stream().                                    *)
THEOREM InOrderAlways ==
  ASSUME IdMod - 1 \notin Ids
  PROVE  Spec => InOrder
<1>1. DeliveryInv /\ [Next]_vars =>
        [\A s \in Streams : \A a, b \in MsgIds :
           released[s][a] > 0 /\ released'[s][b] > released[s][b] => a < b]_vars
  <2> SUFFICES ASSUME DeliveryInv, Next,
                      NEW u \in Streams, NEW a \in MsgIds, NEW b \in MsgIds,
                      released[u][a] > 0, released'[u][b] > released[u][b]
               PROVE  a < b
    OBVIOUS
  <2>1. QueueInv /\ a \in Out(u) /\ released[u][b] \in Nat
    BY DEF DeliveryInv, Out, QueueInv, TypeOK
  <2>2. PICK s \in Streams : \E o2, New, R : Shaped(s, o2, New, R)
    BY <2>1, NextShaped
  <2>3. PICK o2, New, R : Shaped(s, o2, New, R)
    BY <2>2
  <2>4. Ordered(s, o2, New, R)
    BY <2>3, ShapedOrder
  <2> QED
    BY <2>1, <2>4 DEF Ordered
<1> QED
  BY <1>1, DeliveryInvariant, PTL DEF Spec, InOrder

-----------------------------------------------------------------------------
(***************************************************************************)
(* The books.  Sets of (stream, id) pairs are given by the ids of every    *)
(* stream, and counted.                                                    *)
(***************************************************************************)
Pairs(f) == {x \in Streams \X MsgIds : x[2] \in f[x[1]]}

Row(s, A) == {x \in Streams \X MsgIds : x[1] = s /\ x[2] \in A}

LEMMA PairsFinite ==
  ASSUME IsFiniteSet(Streams), NEW S \in SUBSET (Streams \X MsgIds)
  PROVE  IsFiniteSet(S) /\ Cardinality(S) \in Nat
<1>1. IsFiniteSet(MsgIds)
  BY MsgIdsFinite
<1>2. IsFiniteSet(Streams \X MsgIds)
  BY <1>1, FS_Product
<1>3. IsFiniteSet(S)
  BY <1>2, FS_Subset
<1> QED
  BY <1>3, FS_CardinalityType

LEMMA RowSize ==
  ASSUME NEW s \in Streams, NEW A \in SUBSET MsgIds
  PROVE  Cardinality(Row(s, A)) = Cardinality(A)
<1> DEFINE f == [a \in A |-> << s, a >>]
<1>1. f \in [A -> Row(s, A)]
  BY DEF Row
<1>2. \A a, b \in A : f[a] = f[b] => a = b
  OBVIOUS
<1>3. \A x \in Row(s, A) : \E a \in A : f[a] = x
  <2> TAKE x \in Row(s, A)
  <2>1. x \in Streams \X MsgIds /\ x[1] = s /\ x[2] \in A
    BY DEF Row
  <2>2. f[x[2]] = << s, x[2] >> /\ x = << x[1], x[2] >>
    BY <2>1
  <2> QED
    BY <2>1, <2>2
<1>4. f \in Bijection(A, Row(s, A))
  <2> HIDE DEF f
  <2> QED
    BY <1>1, <1>2, <1>3 DEF Bijection, Injection, Surjection, IsInjective
<1>5. ExistsBijection(A, Row(s, A))
  BY <1>4 DEF ExistsBijection
<1>6. IsFiniteSet(A)
  BY MsgIdsFinite
<1> QED
  BY <1>5, <1>6, FS_Bijection

LEMMA DisjointSum ==
  ASSUME IsFiniteSet(Streams), NEW S \in SUBSET (Streams \X MsgIds),
         NEW T \in SUBSET (Streams \X MsgIds), S \cap T = {}
  PROVE  Cardinality(S \cup T) = Cardinality(S) + Cardinality(T)
<1>1. /\ IsFiniteSet(S) /\ IsFiniteSet(T)
      /\ Cardinality(S) \in Nat /\ Cardinality(T) \in Nat
  BY PairsFinite
<1>2. Cardinality(S \cup T) = Cardinality(S) + Cardinality(T) - Cardinality(S \cap T)
  BY <1>1, FS_Union
<1>3. Cardinality(S \cap T) = 0
  BY Sizes
<1> QED
  BY <1>1, <1>2, <1>3

(* Giving one stream new ids adds as many pairs.                           *)
Grown(f, g, s, A) ==
  /\ f \in [Streams -> SUBSET MsgIds] /\ g \in [Streams -> SUBSET MsgIds]
  /\ s \in Streams /\ A \in SUBSET MsgIds /\ A \cap f[s] = {}
  /\ \A u \in Streams : g[u] = IF u = s THEN f[u] \cup A ELSE f[u]

LEMMA PairsGrow ==
  ASSUME IsFiniteSet(Streams), NEW f, NEW g, NEW s, NEW A, Grown(f, g, s, A)
  PROVE  Cardinality(Pairs(g)) = Cardinality(Pairs(f)) + Cardinality(A)
<1> USE DEF Grown
<1>1. Pairs(g) = Pairs(f) \cup Row(s, A)
  BY DEF Pairs, Row
<1>2. Pairs(f) \cap Row(s, A) = {}
  BY DEF Pairs, Row
<1>3. Pairs(f) \in SUBSET (Streams \X MsgIds) /\ Row(s, A) \in SUBSET (Streams \X MsgIds)
  BY DEF Pairs, Row
<1>4. Cardinality(Pairs(f) \cup Row(s, A)) = Cardinality(Pairs(f)) + Cardinality(Row(s, A))
  BY <1>2, <1>3, DisjointSum
<1> QED
  BY <1>1, <1>4, RowSize

(* The ids a stream was given, and the breaks in what it let out.          *)
Held == [s \in Streams |-> streams[s].pending \cup Out(s)]

JumpsIn(out) == {id \in out : id - 1 \notin out /\ \E a \in out : a < id}

Jumps == [s \in Streams |-> JumpsIn(Out(s))]

BooksInv ==
  /\ offers - duplicates = Cardinality(Pairs(Held))
  /\ gaps = Cardinality(Pairs(Jumps))

LEMMA HeldType ==
  ASSUME QueueInv
  PROVE  Held \in [Streams -> SUBSET MsgIds] /\ Jumps \in [Streams -> SUBSET MsgIds]
<1>1. \A s \in Streams : streams[s].pending \in SUBSET MsgIds
  BY DEF QueueInv, GoodOrder, StreamOrder
<1> QED
  BY <1>1, OutOfMsgIds DEF Held, Jumps, JumpsIn

(* What a call adds to the breaks of a stream is what Breaks says: above   *)
(* the cursor, whose predecessor came out, only a missing id breaks.       *)
LEMMA HandledJumps ==
  ASSUME IdMod - 1 \notin Ids, NEW o, GoodOrder(o), NEW out \in SUBSET MsgIds,
         CursorBehind(o, out), NEW o2, NEW New, NEW R, Handled(o, o2, New, R)
  PROVE  JumpsIn(out \cup R) = JumpsIn(out) \cup Breaks(o, R)
<1>1. /\ R \subseteq MsgIds
      /\ o.started => \A id \in R : id >= o.next_expected
      /\ \A a \in out, b \in R : a < b
  <2>1. /\ o.started => \A id \in New \cup R : id \in MsgIds /\ id >= o.next_expected
        /\ \A a \in out, b \in New \cup R : a < b
    BY HandledOrder, Zenon
  <2> QED
    BY <2>1 DEF Handled
<1>2. o.next_expected \in Nat /\ \A id \in MsgIds : id \in Nat
  BY DeliveryAssumption DEF GoodOrder, StreamOrder, MsgIds
<1>3. \A id \in out : id \in JumpsIn(out \cup R) <=> id \in JumpsIn(out)
  <2> TAKE id \in out
  <2>1. id \in Nat /\ \A b \in R : b \in Nat /\ id < b
    BY <1>1, <1>2
  <2>2. id - 1 \notin R
    BY <2>1
  <2>3. \A a \in R : ~(a < id)
    BY <2>1
  <2> QED
    BY <2>2, <2>3 DEF JumpsIn
<1>4. out \cap R = {}
  BY <1>1, <1>2
<1>5. CASE o.started
  <2>1. o.next_expected - 1 \in out /\ \A a \in out : a < o.next_expected
    BY <1>5 DEF CursorBehind
  <2>2. \A id \in R : id \in JumpsIn(out \cup R) <=> id \in Breaks(o, R)
    <3> TAKE id \in R
    <3>1. id \in Nat /\ id >= o.next_expected /\ \A a \in out : a \in Nat
      BY <1>1, <1>2, <1>5
    <3>2. o.next_expected - 1 < id
      BY <1>2, <3>1
    <3>3. id - 1 \in out <=> ~(id > o.next_expected)
      BY <1>2, <2>1, <3>1
    <3> QED
      BY <1>5, <2>1, <3>2, <3>3 DEF JumpsIn, Breaks
  <2> QED
    BY <1>3, <1>4, <2>2 DEF JumpsIn, Breaks
<1>6. CASE ~o.started
  <2>1. out = {} /\ o.pending = {} /\ \A x, y \in New : x = y
    BY <1>6 DEF CursorBehind, GoodOrder, Handled
  <2>2. R \subseteq New
    BY <2>1 DEF Handled
  <2>3. \A x, y \in R : ~(x < y)
    BY <1>1, <1>2, <2>1, <2>2
  <2> QED
    BY <1>6, <2>1, <2>3 DEF JumpsIn, Breaks
<1> QED
  BY <1>5, <1>6

(* A call adds its new ids to those held, and its breaks to the jumps.     *)
LEMMA ShapedBooks ==
  ASSUME IsFiniteSet(Streams), IdMod - 1 \notin Ids, DeliveryInv, BooksInv,
         NEW s \in Streams, NEW o2, NEW New, NEW R, Shaped(s, o2, New, R)
  PROVE  BooksInv'
<1> DEFINE o == streams[s]
           B == Breaks(o, R)
<1>1. QueueInv /\ QueueInv' /\ GoodOrder(o) /\ CursorBehind(o, Out(s))
  BY ShapedQueueInv DEF DeliveryInv, QueueInv
<1>2. Handled(o, o2, New, R) /\ Counted(o, New, R) /\ Ordered(s, o2, New, R)
  BY ShapedOrder DEF Shaped
<1>3. /\ Held \in [Streams -> SUBSET MsgIds] /\ Jumps \in [Streams -> SUBSET MsgIds]
      /\ Held' \in [Streams -> SUBSET MsgIds] /\ Jumps' \in [Streams -> SUBSET MsgIds]
  <2>1. Held \in [Streams -> SUBSET MsgIds] /\ Jumps \in [Streams -> SUBSET MsgIds]
    BY <1>1, HeldType
  <2>2. (Held \in [Streams -> SUBSET MsgIds] /\ Jumps \in [Streams -> SUBSET MsgIds])'
    BY <1>1, HeldType, PTL
  <2> QED
    BY <2>1, <2>2 DEF MsgIds
<1>4. /\ \A u \in Streams : Held'[u] = streams'[u].pending \cup Out(u)'
      /\ \A u \in Streams : Jumps'[u] = JumpsIn(Out(u)')
  BY DEF Held, Jumps, JumpsIn
<1>5. \A u \in Streams : Held'[u] = IF u = s THEN Held[u] \cup New ELSE Held[u]
  BY <1>2, <1>4 DEF Handled, Ordered, Held
<1>6. \A u \in Streams : Jumps'[u] = IF u = s THEN Jumps[u] \cup B ELSE Jumps[u]
  <2>1. JumpsIn(Out(s) \cup R) = JumpsIn(Out(s)) \cup B
    BY <1>1, <1>2, OutOfMsgIds, HandledJumps
  <2> QED
    BY <1>2, <1>4, <2>1 DEF Ordered, Jumps
<1>7. (New \cup R) \cap Out(s) = {} /\ R \in SUBSET MsgIds /\ New \in SUBSET MsgIds
  <2>1. /\ \A a \in Out(s), b \in New \cup R : a < b
        /\ R \in SUBSET MsgIds /\ New \in SUBSET MsgIds
    BY <1>2 DEF Ordered
  <2>2. \A id \in MsgIds : ~(id < id)
    BY DeliveryAssumption DEF MsgIds
  <2> QED
    BY <2>1, <2>2, Zenon
<1>8. New \in SUBSET MsgIds /\ New \cap Held[s] = {}
  BY <1>7, <1>2 DEF Handled, Held
<1>9. B \in SUBSET MsgIds /\ B \cap Jumps[s] = {}
  <2>1. B \subseteq R /\ Jumps[s] \subseteq Out(s)
    BY DEF Breaks, Jumps, JumpsIn
  <2> QED
    BY <1>7, <2>1
<1> HIDE DEF B
<1>10. Cardinality(Pairs(Held')) = Cardinality(Pairs(Held)) + Cardinality(New)
  <2>1. Grown(Held, Held', s, New)
    BY <1>3, <1>5, <1>8 DEF Grown
  <2> QED
    BY <2>1, PairsGrow
<1>11. Cardinality(Pairs(Jumps')) = Cardinality(Pairs(Jumps)) + Cardinality(B)
  <2>1. Grown(Jumps, Jumps', s, B)
    BY <1>3, <1>6, <1>9 DEF Grown
  <2> QED
    BY <2>1, PairsGrow
<1>12. /\ offers' - duplicates' = Cardinality(Pairs(Held'))
       /\ gaps' = Cardinality(Pairs(Jumps'))
  BY <1>2, <1>10, <1>11 DEF Counted, BooksInv, B
<1>13. Pairs(Held)' = Pairs(Held') /\ Pairs(Jumps)' = Pairs(Jumps')
  BY DEF Pairs, MsgIds
<1> QED
  BY <1>12, <1>13 DEF BooksInv

LEMMA InitBooksInv == Init => BooksInv
<1> SUFFICES ASSUME Init PROVE BooksInv
  OBVIOUS
<1>1. \A s \in Streams : streams[s].pending = {}
  BY DEF Init
<1>2. \A s \in Streams : Out(s) = {}
  BY DEF Init, Out
<1>3. Pairs(Held) = {} /\ Pairs(Jumps) = {}
  BY <1>1, <1>2 DEF Pairs, Held, Jumps, JumpsIn
<1>4. Cardinality({}) = 0
  BY Sizes
<1> QED
  BY <1>3, <1>4 DEF Init, BooksInv

LEMMA StepBooksInv ==
  ASSUME IsFiniteSet(Streams), IdMod - 1 \notin Ids
  PROVE  DeliveryInv /\ BooksInv /\ [Next]_vars => BooksInv'
<1> SUFFICES ASSUME DeliveryInv, BooksInv, [Next]_vars PROVE BooksInv'
  OBVIOUS
<1>1. CASE Next
  <2>1. QueueInv
    BY DEF DeliveryInv
  <2> QED
    BY <1>1, <2>1, NextShaped, ShapedBooks
<1>2. CASE UNCHANGED vars
  BY <1>2 DEF vars, BooksInv, Pairs, Held, Jumps, JumpsIn, Out
<1> QED
  BY <1>1, <1>2

(* The books balance: every message offered was released, is buffered, or  *)
(* was counted by duplicates(); and gaps() counts exactly the breaks in    *)
(* what came out.                                                          *)
THEOREM AccountsExactAlways ==
  ASSUME IsFiniteSet(Streams), IdMod - 1 \notin Ids
  PROVE  Spec => []AccountsExact
<1>1. DeliveryInv /\ BooksInv => AccountsExact
  <2> SUFFICES ASSUME DeliveryInv, BooksInv PROVE AccountsExact
    OBVIOUS
  <2> DEFINE P == {x \in Streams \X MsgIds : x[2] \in streams[x[1]].pending}
             O == {x \in Streams \X MsgIds : x[2] \in Out(x[1])}
             J == {x \in Streams \X MsgIds : /\ x[2] \in Out(x[1])
                                             /\ x[2] - 1 \notin Out(x[1])
                                             /\ \E a \in Out(x[1]) : a < x[2]}
  <2>1. P \cap O = {}
    <3> SUFFICES ASSUME NEW s \in Streams, NEW id \in MsgIds,
                        id \in streams[s].pending, id \in Out(s)
                 PROVE  FALSE
      OBVIOUS
    <3>1. /\ GoodOrder(streams[s]) /\ CursorBehind(streams[s], Out(s))
      BY DEF DeliveryInv, QueueInv
    <3>2. streams[s].started /\ id > streams[s].next_expected
          /\ streams[s].next_expected \in Nat /\ id \in Nat
      BY <3>1, DeliveryAssumption DEF GoodOrder, StreamOrder, MsgIds
    <3>3. id < streams[s].next_expected
      BY <3>1, <3>2 DEF CursorBehind
    <3> QED
      BY <3>2, <3>3
  <2>2. Pairs(Held) = P \cup O /\ Pairs(Jumps) = J
    BY DEF Pairs, Held, Jumps, JumpsIn
  <2>3. Cardinality(P \cup O) = Cardinality(P) + Cardinality(O)
    <3>1. P \in SUBSET (Streams \X MsgIds) /\ O \in SUBSET (Streams \X MsgIds)
      OBVIOUS
    <3> HIDE DEF P, O
    <3> QED
      BY <2>1, <3>1, DisjointSum
  <2>4. Cardinality(P) \in Nat /\ Cardinality(O) \in Nat
    <3>1. P \in SUBSET (Streams \X MsgIds) /\ O \in SUBSET (Streams \X MsgIds)
      OBVIOUS
    <3> HIDE DEF P, O
    <3> QED
      BY <3>1, PairsFinite
  <2>5. AccountsExact <=> offers = duplicates + Cardinality(P) + Cardinality(O)
                          /\ gaps = Cardinality(J)
    BY DEF AccountsExact, Quantify
  <2>6. offers \in Nat /\ duplicates \in Nat
    BY Tallies DEF DeliveryInv
  <2> HIDE DEF P, O, J
  <2> QED
    BY <2>2, <2>3, <2>4, <2>5, <2>6 DEF BooksInv
<1> QED
  BY <1>1, InitBooksInv, StepBooksInv, DeliveryInvariant, PTL DEF Spec
=============================================================================
