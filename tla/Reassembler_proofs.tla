------------------------- MODULE Reassembler_proofs -------------------------
(***************************************************************************)
(* The slot store of the reassembler implements the plain map of           *)
(* ReassemblyMap, as long as no RESET finds more than one message of its   *)
(* stream in flight; and the span list that add_range keeps for a partial  *)
(* is the set of offsets that the other modules use in its place.          *)
(***************************************************************************)
EXTENDS Reassembler, RangeList, Fragments_proofs, FiniteSetTheorems, SequenceTheorems

(* IndexAgrees for any store and index.                                    *)
Agree(st, ix) ==
  /\ \A k \in DOMAIN ix : ix[k] \in DOMAIN st /\ KeyOf(st[ix[k]]) = k
  /\ \A i \in DOMAIN st : KeyOf(st[i]) \in DOMAIN ix /\ ix[KeyOf(st[i])] = i

(* Two stores that hold the same partial for a key.                        *)
Same(st, ix, st2, ix2, k) == st2[ix2[k]] = st[ix[k]]

-----------------------------------------------------------------------------
(* slot_for finds or appends the partial of its key and moves nothing.     *)
LEMMA SlotForAgrees ==
  ASSUME NEW st \in Seq(PartialMessage), NEW ix, NEW key \in Keys, Agree(st, ix)
  PROVE  LET at == slot_for(st, ix, key) IN
         /\ at.store \in Seq(PartialMessage)
         /\ Agree(at.store, at.index)
         /\ DOMAIN at.index = DOMAIN ix \cup {key}
         /\ at.slot = at.index[key]
         /\ at.slot \in DOMAIN at.store
         /\ at.store[at.slot] = IF key \in DOMAIN ix THEN st[ix[key]] ELSE Fresh(key)
         /\ \A k \in DOMAIN ix : Same(st, ix, at.store, at.index, k)
<1> DEFINE at == slot_for(st, ix, key)
<1>1. CASE key \in DOMAIN ix
  <2>1. at.store = st /\ at.index = ix /\ at.slot = ix[key]
    BY <1>1 DEF slot_for
  <2> HIDE DEF at
  <2>2. DOMAIN at.index = DOMAIN ix \cup {key}
    BY <1>1, <2>1
  <2>3. at.slot \in DOMAIN at.store
    BY <1>1, <2>1 DEF Agree
  <2> QED
    BY <1>1, <2>1, <2>2, <2>3 DEF at, Same
<1>2. CASE key \notin DOMAIN ix
  <2> DEFINE n == Len(st) + 1
             st2 == Append(st, Fresh(key))
             ix2 == [k \in DOMAIN ix \cup {key} |-> IF k = key THEN n ELSE ix[k]]
  <2>1. at.store = st2 /\ at.index = ix2 /\ at.slot = n
    BY <1>2 DEF slot_for
  <2>2. PICK s \in Streams, m \in Msgs : key = << s, m >>
    BY DEF Keys
  <2>3. Fresh(key) \in PartialMessage /\ KeyOf(Fresh(key)) = key
    <3>1. 0 \in 0 .. MaxResets
      BY FragmentsAssumption
    <3> QED
      BY <2>2, <3>1, FreshExact DEF KeyOf
  <2>4. /\ st2 \in Seq(PartialMessage)
        /\ Len(st2) = n /\ DOMAIN st2 = 1 .. n
        /\ st2[n] = Fresh(key)
        /\ \A i \in DOMAIN st : i \in DOMAIN st2 /\ i # n /\ st2[i] = st[i]
        /\ \A i \in DOMAIN st2 : i = n \/ i \in DOMAIN st
    BY <2>3
  <2>5. /\ DOMAIN ix2 = DOMAIN ix \cup {key}
        /\ ix2[key] = n
        /\ \A k \in DOMAIN ix : k # key /\ ix2[k] = ix[k]
    BY <1>2
  <2> HIDE DEF st2, ix2, n
  <2>6. Agree(st2, ix2)
    <3>1. n \in DOMAIN st2
      <4>1. n \in 1 .. n
        BY DEF n
      <4> QED
        BY <4>1, <2>4
    <3>2. ASSUME NEW k \in DOMAIN ix2
          PROVE  ix2[k] \in DOMAIN st2 /\ KeyOf(st2[ix2[k]]) = k
      <4>1. CASE k = key
        BY <4>1, <3>1, <2>3, <2>4, <2>5
      <4>2. CASE k # key
        <5>1. k \in DOMAIN ix /\ ix2[k] = ix[k]
          BY <4>2, <2>5
        <5>2. ix[k] \in DOMAIN st /\ KeyOf(st[ix[k]]) = k
          BY <5>1 DEF Agree
        <5> QED
          BY <5>1, <5>2, <2>4
      <4> QED
        BY <4>1, <4>2
    <3>3. ASSUME NEW i \in DOMAIN st2
          PROVE  KeyOf(st2[i]) \in DOMAIN ix2 /\ ix2[KeyOf(st2[i])] = i
      <4>1. CASE i = n
        BY <4>1, <2>3, <2>4, <2>5
      <4>2. CASE i # n
        <5>1. i \in DOMAIN st /\ st2[i] = st[i]
          BY <4>2, <2>4
        <5>2. KeyOf(st[i]) \in DOMAIN ix /\ ix[KeyOf(st[i])] = i
          BY <5>1 DEF Agree
        <5> QED
          BY <5>1, <5>2, <2>5
      <4> QED
        BY <4>1, <4>2
    <3> QED
      BY <3>2, <3>3 DEF Agree
  <2>7. n \in DOMAIN st2
    BY <2>4, <2>5, <2>6 DEF Agree
  <2>8. \A k \in DOMAIN ix : Same(st, ix, st2, ix2, k)
    BY <2>4, <2>5 DEF Same, Agree
  <2> QED
    BY <1>2, <2>1, <2>4, <2>5, <2>6, <2>7, <2>8
<1> QED
  BY <1>1, <1>2

(* Overwriting a partial by one of the same key.                           *)
LEMMA ReplaceAgrees ==
  ASSUME NEW st \in Seq(PartialMessage), NEW ix, Agree(st, ix),
         NEW i \in DOMAIN st, NEW p \in PartialMessage, KeyOf(p) = KeyOf(st[i])
  PROVE  LET st2 == [st EXCEPT ![i] = p] IN
         /\ st2 \in Seq(PartialMessage)
         /\ DOMAIN st2 = DOMAIN st
         /\ Agree(st2, ix)
         /\ st2[i] = p
         /\ \A j \in DOMAIN st : j # i => st2[j] = st[j]
<1> DEFINE st2 == [st EXCEPT ![i] = p]
<1>1. /\ st2 \in Seq(PartialMessage)
      /\ DOMAIN st2 = DOMAIN st
      /\ st2[i] = p
      /\ \A j \in DOMAIN st : j # i => st2[j] = st[j]
  OBVIOUS
<1>2. \A j \in DOMAIN st : KeyOf(st2[j]) = KeyOf(st[j])
  BY <1>1
<1> HIDE DEF st2
<1>3. Agree(st2, ix)
  BY <1>1, <1>2 DEF Agree
<1> QED
  BY <1>1, <1>3 DEF st2

(* remove_slot drops its key and keeps every other partial.                *)
LEMMA RemoveAgrees ==
  ASSUME NEW st \in Seq(PartialMessage), NEW ix, Agree(st, ix),
         NEW key \in DOMAIN ix
  PROVE  LET rem == remove_slot(st, ix, ix[key], key) IN
         /\ rem.store \in Seq(PartialMessage)
         /\ Agree(rem.store, rem.index)
         /\ DOMAIN rem.index = DOMAIN ix \ {key}
         /\ \A k \in DOMAIN rem.index : Same(st, ix, rem.store, rem.index, k)
         /\ \A j \in DOMAIN rem.store : \E i \in DOMAIN st : rem.store[j] = st[i]
<1> DEFINE rem   == remove_slot(st, ix, ix[key], key)
           i     == ix[key]
           last  == Len(st)
           moved == KeyOf(st[last])
           st2   == [j \in 1 .. (last - 1) |-> IF j = i THEN st[last] ELSE st[j]]
           left  == DOMAIN ix \ {key}
           ix2   == IF i = last THEN [k \in left |-> ix[k]]
                    ELSE [k \in left \cup {moved} |-> IF k = moved THEN i ELSE ix[k]]
<1>1. rem.store = st2 /\ rem.index = ix2
  BY DEF remove_slot
<1>2. /\ last \in Nat /\ DOMAIN st = 1 .. last
      /\ i \in 1 .. last /\ last \in 1 .. last /\ KeyOf(st[i]) = key
  BY DEF Agree
<1>3. /\ moved \in DOMAIN ix /\ ix[moved] = last
      /\ (i # last => moved # key)
  BY <1>2 DEF Agree
<1>4. /\ DOMAIN st2 = 1 .. (last - 1)
      /\ \A j \in 1 .. (last - 1) : st2[j] = IF j = i THEN st[last] ELSE st[j]
  OBVIOUS
<1>5. st2 \in Seq(PartialMessage)
  <2>1. \A j \in 1 .. (last - 1) : st2[j] \in PartialMessage
    BY <1>2, <1>4
  <2>2. last - 1 \in Nat
    BY <1>2
  <2> QED
    BY <2>1, <2>2, <1>4
<1>6. /\ DOMAIN ix2 = left
      /\ \A k \in left : ix2[k] = IF i # last /\ k = moved THEN i ELSE ix[k]
  BY <1>3
<1>7. \A k \in left : ix[k] \in 1 .. last /\ ix[k] # i /\ KeyOf(st[ix[k]]) = k
  BY <1>2 DEF Agree
<1>8. \A k \in left : ix[k] = last => k = moved
  BY <1>2 DEF Agree
<1> HIDE DEF rem, st2, ix2, moved, last, i
<1>9. \A k \in left : ix2[k] \in 1 .. (last - 1) /\ st2[ix2[k]] = st[ix[k]]
  <2> SUFFICES ASSUME NEW k \in left
               PROVE  ix2[k] \in 1 .. (last - 1) /\ st2[ix2[k]] = st[ix[k]]
    OBVIOUS
  <2>1. CASE i # last /\ k = moved
    <3>1. ix2[k] = i /\ i \in 1 .. (last - 1)
      BY <2>1, <1>2, <1>6
    <3> QED
      BY <3>1, <2>1, <1>3, <1>4
  <2>2. CASE ~(i # last /\ k = moved)
    <3>1. ix2[k] = ix[k] /\ ix[k] # last
      BY <2>2, <1>6, <1>7, <1>8
    <3>2. ix[k] \in 1 .. (last - 1) /\ ix[k] # i
      BY <3>1, <1>2, <1>7
    <3> QED
      BY <3>1, <3>2, <1>4
  <2> QED
    BY <2>1, <2>2
<1>10. \A j \in 1 .. (last - 1) :
         KeyOf(st2[j]) \in left /\ ix2[KeyOf(st2[j])] = j
  <2> SUFFICES ASSUME NEW j \in 1 .. (last - 1)
               PROVE  KeyOf(st2[j]) \in left /\ ix2[KeyOf(st2[j])] = j
    OBVIOUS
  <2>1. CASE j = i
    <3>1. i # last /\ st2[j] = st[last]
      BY <2>1, <1>2, <1>4
    <3> QED
      BY <3>1, <2>1, <1>3, <1>6 DEF moved
  <2>2. CASE j # i
    <3>1. st2[j] = st[j] /\ j \in 1 .. last /\ j # last
      BY <2>2, <1>2, <1>4
    <3>2. KeyOf(st[j]) \in DOMAIN ix /\ ix[KeyOf(st[j])] = j
      BY <3>1, <1>2 DEF Agree
    <3> QED
      BY <3>1, <3>2, <2>2, <1>3, <1>6 DEF i
  <2> QED
    BY <2>1, <2>2
<1>11. Agree(st2, ix2)
  BY <1>4, <1>6, <1>7, <1>9, <1>10 DEF Agree
<1>12. \A k \in left : Same(st, ix, st2, ix2, k)
  BY <1>9 DEF Same
<1>13. \A j \in DOMAIN st2 : \E x \in DOMAIN st : st2[j] = st[x]
  BY <1>2, <1>4
<1> QED
  BY <1>1, <1>5, <1>6, <1>11, <1>12, <1>13 DEF rem, i

-----------------------------------------------------------------------------
(* At most one hole means none, or exactly one.                            *)
LEMMA HolesCases ==
  ASSUME NEW st \in Seq(PartialMessage), NEW s, Cardinality(Holes(st, s)) <= 1
  PROVE  \/ Holes(st, s) = {} /\ Cardinality(Holes(st, s)) = 0
         \/ \E h \in DOMAIN st : /\ Holes(st, s) = {h}
                                 /\ Cardinality(Holes(st, s)) = 1
<1> DEFINE holes == Holes(st, s)
<1>1. holes \subseteq DOMAIN st /\ DOMAIN st = 1 .. Len(st) /\ Len(st) \in Nat
  BY DEF Holes
<1>2. IsFiniteSet(holes)
  <2>1. IsFiniteSet(1 .. Len(st))
    BY <1>1, FS_Interval
  <2> QED
    BY <1>1, <2>1, FS_Subset
<1>3. Cardinality(holes) \in Nat
  BY <1>2, FS_CardinalityType
<1>4. Cardinality(holes) = 0 \/ Cardinality(holes) = 1
  BY <1>3
<1>5. CASE Cardinality(holes) = 0
  BY <1>2, <1>5, FS_EmptySet
<1>6. CASE Cardinality(holes) = 1
  <2>1. PICK h : holes = {h}
    BY <1>2, <1>6, FS_Singleton
  <2>2. h \in DOMAIN st
    BY <2>1, <1>1
  <2> QED
    BY <2>1, <2>2, <1>6
<1> QED
  BY <1>4, <1>5, <1>6

(* Without a hole the compaction moves nothing.                            *)
LEMMA CompactedNone ==
  ASSUME NEW st \in Seq(PartialMessage)
  PROVE  Compacted(st, {}) = st
<1>1. Len(st) \in Nat /\ DOMAIN st = 1 .. Len(st)
  OBVIOUS
<1>2. Cardinality({}) = 0
  BY FS_EmptySet
<1>3. \A i : {h \in {} : h < i} = {}
  OBVIOUS
<1>4. ASSUME NEW j \in 1 .. Len(st)
      PROVE  (CHOOSE i \in DOMAIN st \ {} :
                i - Cardinality({h \in {} : h < i}) = j) = j
  BY <1>1, <1>2, <1>3, <1>4
<1>5. Compacted(st, {}) = [j \in 1 .. Len(st) |-> st[j]]
  BY <1>1, <1>2, <1>4 DEF Compacted
<1> QED
  BY <1>1, <1>5

(* With one hole the slots behind it move down by one.                     *)
LEMMA CompactedOne ==
  ASSUME NEW st \in Seq(PartialMessage), NEW h \in DOMAIN st
  PROVE  Compacted(st, {h}) =
           [j \in 1 .. (Len(st) - 1) |-> IF j < h THEN st[j] ELSE st[j + 1]]
<1>1. Len(st) \in Nat /\ DOMAIN st = 1 .. Len(st) /\ h \in 1 .. Len(st)
  OBVIOUS
<1>2. Cardinality({}) = 0 /\ Cardinality({h}) = 1
  BY FS_EmptySet, FS_Singleton
<1>3. ASSUME NEW i \in DOMAIN st
      PROVE  Cardinality({x \in {h} : x < i}) = IF h < i THEN 1 ELSE 0
  <2>1. {x \in {h} : x < i} = IF h < i THEN {h} ELSE {}
    OBVIOUS
  <2> QED
    BY <2>1, <1>2
<1>4. ASSUME NEW j \in 1 .. (Len(st) - 1)
      PROVE  (CHOOSE i \in DOMAIN st \ {h} :
                i - Cardinality({x \in {h} : x < i}) = j)
             = IF j < h THEN j ELSE j + 1
  <2> DEFINE c(i) == Cardinality({x \in {h} : x < i})
             g    == IF j < h THEN j ELSE j + 1
  <2>1. \A i \in DOMAIN st : c(i) = IF h < i THEN 1 ELSE 0
    BY <1>3
  <2> HIDE DEF c
  <2>2. g \in DOMAIN st \ {h} /\ g - c(g) = j
    BY <2>1, <1>1
  <2>3. \A i \in DOMAIN st \ {h} : i - c(i) = j => i = g
    BY <2>1, <1>1
  <2> HIDE DEF g
  <2>4. (CHOOSE i \in DOMAIN st \ {h} : i - c(i) = j) = g
    BY <2>2, <2>3
  <2> QED
    BY <2>4 DEF c, g
<1> DEFINE from(j) == CHOOSE i \in DOMAIN st \ {h} :
                        i - Cardinality({x \in {h} : x < i}) = j
<1>5. Compacted(st, {h}) = [j \in 1 .. (Len(st) - 1) |-> st[from(j)]]
  BY <1>2 DEF Compacted
<1>6. \A j \in 1 .. (Len(st) - 1) : from(j) = IF j < h THEN j ELSE j + 1
  BY <1>4
<1> HIDE DEF from
<1>7. \A j \in 1 .. (Len(st) - 1) :
        st[from(j)] = IF j < h THEN st[j] ELSE st[j + 1]
  BY <1>6
<1> QED
  BY <1>5, <1>7

(* What a RESET of s owes the other streams: it removes the keys of s and  *)
(* keeps every other partial.                                              *)
ResetKeeps(st, ix, s) ==
  LET st2 == Compacted(st, Holes(st, s))
      ix2 == Slid(ix, st, Holes(st, s))
  IN  /\ st2 \in Seq(PartialMessage)
      /\ Agree(st2, ix2)
      /\ DOMAIN ix2 = {k \in DOMAIN ix : k[1] # s}
      /\ \A k \in DOMAIN ix2 : Same(st, ix, st2, ix2, k)
      /\ \A j \in DOMAIN st2 : \E i \in DOMAIN st : st2[j] = st[i]

(* It pays that debt when it meets at most one hole.                       *)
LEMMA ResetAgrees ==
  ASSUME NEW st \in Seq(PartialMessage), NEW ix, Agree(st, ix),
         NEW s, Cardinality(Holes(st, s)) <= 1
  PROVE  ResetKeeps(st, ix, s)
<1> DEFINE holes == Holes(st, s)
           st2   == Compacted(st, holes)
           ix2   == Slid(ix, st, holes)
           left  == {k \in DOMAIN ix : k[1] # s}
<1>1. Len(st) \in Nat /\ DOMAIN st = 1 .. Len(st)
  OBVIOUS
<1>2. \A k \in DOMAIN ix : ix[k] \in DOMAIN st /\ KeyOf(st[ix[k]]) = k
                           /\ k[1] = st[ix[k]].stream_id
  BY DEF Agree, KeyOf
<1>3. \A k \in DOMAIN ix : k[1] = s <=> ix[k] \in holes
  BY <1>2 DEF Holes
<1>4. DOMAIN ix \ {KeyOf(st[h]) : h \in holes} = left
  <2>1. ASSUME NEW k \in DOMAIN ix, NEW h \in holes, k = KeyOf(st[h])
        PROVE  k[1] = s
    BY <2>1 DEF Holes, KeyOf
  <2>2. ASSUME NEW k \in DOMAIN ix, k[1] = s
        PROVE  \E h \in holes : k = KeyOf(st[h])
    BY <2>2, <1>2, <1>3
  <2> QED
    BY <2>1, <2>2
<1>5. /\ DOMAIN ix2 = left
      /\ \A k \in left : ix2[k] = IF \E h \in holes : h < ix[k]
                                    THEN ix[k] - 1 ELSE ix[k]
  BY <1>4 DEF Slid
<1>6. CASE holes = {}
  <2>1. st2 = st
    BY <1>6, CompactedNone
  <2>2. left = DOMAIN ix
    BY <1>3, <1>6
  <2>3. \A k \in DOMAIN ix : ix2[k] = ix[k]
    BY <2>2, <1>5, <1>6
  <2> HIDE DEF st2, ix2, left, holes
  <2>4. Agree(st2, ix2)
    BY <2>1, <2>2, <2>3, <1>5 DEF Agree
  <2>5. \A k \in DOMAIN ix2 : Same(st, ix, st2, ix2, k)
    BY <2>1, <2>2, <2>3, <1>5 DEF Same
  <2>6. \A j \in DOMAIN st2 : \E i \in DOMAIN st : st2[j] = st[i]
    BY <2>1
  <2>7. st2 \in Seq(PartialMessage)
    BY <2>1
  <2> QED
    BY <2>4, <2>5, <2>6, <2>7, <1>5 DEF ResetKeeps, st2, ix2, left, holes
<1>7. ASSUME NEW h \in DOMAIN st, holes = {h}
      PROVE  /\ st2 \in Seq(PartialMessage)
             /\ Agree(st2, ix2)
             /\ \A k \in DOMAIN ix2 : Same(st, ix, st2, ix2, k)
             /\ \A j \in DOMAIN st2 : \E i \in DOMAIN st : st2[j] = st[i]
  <2>1. st2 = [j \in 1 .. (Len(st) - 1) |-> IF j < h THEN st[j] ELSE st[j + 1]]
    BY <1>7, CompactedOne
  <2>2. h \in 1 .. Len(st) /\ Len(st) - 1 \in Nat
    BY <1>1
  <2>3. \A k \in left : /\ ix[k] \in 1 .. Len(st) /\ ix[k] # h
                        /\ KeyOf(st[ix[k]]) = k
                        /\ ix2[k] = IF h < ix[k] THEN ix[k] - 1 ELSE ix[k]
    BY <1>1, <1>2, <1>3, <1>5, <1>7
  <2>4. /\ DOMAIN st2 = 1 .. (Len(st) - 1)
        /\ \A j \in 1 .. (Len(st) - 1) :
             st2[j] = IF j < h THEN st[j] ELSE st[j + 1]
    BY <2>1
  <2>5. \A i \in 1 .. Len(st) : i # h =>
          KeyOf(st[i]) \in left /\ ix[KeyOf(st[i])] = i
    <3> SUFFICES ASSUME NEW i \in 1 .. Len(st), i # h
                 PROVE  KeyOf(st[i]) \in left /\ ix[KeyOf(st[i])] = i
      OBVIOUS
    <3>1. KeyOf(st[i]) \in DOMAIN ix /\ ix[KeyOf(st[i])] = i
      BY <1>1 DEF Agree
    <3>2. KeyOf(st[i])[1] # s
      BY <3>1, <1>3, <1>7
    <3> QED
      BY <3>1, <3>2
  <2> HIDE DEF st2, ix2, left, holes
  <2>6. \A j \in 1 .. (Len(st) - 1) :
          \E i \in 1 .. Len(st) : i # h /\ st2[j] = st[i]
                                  /\ j = IF h < i THEN i - 1 ELSE i
    <3> SUFFICES ASSUME NEW j \in 1 .. (Len(st) - 1)
                 PROVE  \E i \in 1 .. Len(st) : i # h /\ st2[j] = st[i]
                                  /\ j = IF h < i THEN i - 1 ELSE i
      OBVIOUS
    <3>1. CASE j < h
      BY <3>1, <2>2, <2>4
    <3>2. CASE ~(j < h)
      <4>1. j + 1 \in 1 .. Len(st) /\ j + 1 # h /\ h < j + 1 /\ j = (j + 1) - 1
        BY <3>2, <2>2
      <4> QED
        BY <4>1, <3>2, <2>4
    <3> QED
      BY <3>1, <3>2
  <2>7. st2 \in Seq(PartialMessage)
    <3>1. \A j \in 1 .. (Len(st) - 1) : st2[j] \in PartialMessage
      BY <2>6, <1>1
    <3> QED
      BY <3>1, <2>1, <2>2
  <2>8. \A k \in left : ix2[k] \in 1 .. (Len(st) - 1) /\ st2[ix2[k]] = st[ix[k]]
    <3> SUFFICES ASSUME NEW k \in left
                 PROVE  ix2[k] \in 1 .. (Len(st) - 1) /\ st2[ix2[k]] = st[ix[k]]
      OBVIOUS
    <3>1. CASE h < ix[k]
      <4>1. /\ ix2[k] = ix[k] - 1 /\ ix2[k] \in 1 .. (Len(st) - 1)
            /\ ~(ix2[k] < h) /\ ix2[k] + 1 = ix[k]
        BY <3>1, <2>2, <2>3
      <4> QED
        BY <4>1, <2>4
    <3>2. CASE ~(h < ix[k])
      <4>1. ix2[k] = ix[k] /\ ix2[k] \in 1 .. (Len(st) - 1) /\ ix2[k] < h
        BY <3>2, <2>2, <2>3
      <4> QED
        BY <4>1, <2>4
    <3> QED
      BY <3>1, <3>2
  <2>9. \A j \in 1 .. (Len(st) - 1) :
          KeyOf(st2[j]) \in left /\ ix2[KeyOf(st2[j])] = j
    <3> SUFFICES ASSUME NEW j \in 1 .. (Len(st) - 1)
                 PROVE  KeyOf(st2[j]) \in left /\ ix2[KeyOf(st2[j])] = j
      OBVIOUS
    <3>1. PICK i \in 1 .. Len(st) : i # h /\ st2[j] = st[i]
                                    /\ j = IF h < i THEN i - 1 ELSE i
      BY <2>6
    <3> QED
      BY <3>1, <2>3, <2>5
  <2>10. Agree(st2, ix2)
    BY <2>3, <2>4, <2>8, <2>9, <1>5 DEF Agree
  <2> QED
    BY <2>4, <2>6, <2>7, <2>8, <2>10, <1>1, <1>5 DEF Same
<1> QED
  BY <1>5, <1>6, <1>7, HolesCases DEF ResetKeeps

-----------------------------------------------------------------------------
(* The inductive invariant: the map and the store agree, so no access is   *)
(* out of bounds, and every slot holds the bytes it claims.                *)
Exact(st, rs) == \A i \in DOMAIN st : HoldsWhatItClaims(st[i], rs[st[i].stream_id])

SlotInv == TypeOK /\ IndexAgrees /\ ~fault /\ Exact(store, resets)

LEMMA AgreesIsAgree == IndexAgrees <=> Agree(store, index)
  BY DEF IndexAgrees, Agree

LEMMA InitSlotInv == Init => SlotInv
<1> SUFFICES ASSUME Init PROVE SlotInv
  OBVIOUS
<1>1. store = << >> /\ DOMAIN index = {} /\ DOMAIN store = {}
  BY DEF Init
<1>2. resets \in [Streams -> 0 .. MaxResets]
  BY FragmentsAssumption DEF Init
<1>3. out = NoMessage /\ fault = FALSE
  BY DEF Init
<1>4. store \in Seq(PartialMessage)
  BY <1>1
<1>5. TypeOK
  BY <1>1, <1>2, <1>3, <1>4 DEF TypeOK
<1>6. IndexAgrees /\ Exact(store, resets)
  BY <1>1 DEF IndexAgrees, Exact
<1> QED
  BY <1>3, <1>5, <1>6 DEF SlotInv

(* The slot, the partial with the frame placed, and the store holding it.  *)
SlotOf(f)  == slot_for(store, index, FrameKey(f))
Filled(f)  == WithFragment(SlotOf(f).store[SlotOf(f).slot], f, resets[f.stream_id])
StoreOf(f) == [SlotOf(f).store EXCEPT ![SlotOf(f).slot] = Filled(f)]
Retired(f) == remove_slot(StoreOf(f), SlotOf(f).index, SlotOf(f).slot, FrameKey(f))

(* The partial a frame works on: found or fresh, and exact before and      *)
(* after the frame is placed.                                              *)
LEMMA FilledExact ==
  ASSUME SlotInv, NEW f \in Frames
  PROVE  /\ FrameKey(f) \in Keys
         /\ SlotOf(f).store \in Seq(PartialMessage)
         /\ Agree(SlotOf(f).store, SlotOf(f).index)
         /\ DOMAIN SlotOf(f).index = DOMAIN index \cup {FrameKey(f)}
         /\ SlotOf(f).slot = SlotOf(f).index[FrameKey(f)]
         /\ SlotOf(f).slot \in DOMAIN SlotOf(f).store
         /\ SlotOf(f).store[SlotOf(f).slot] =
              IF FrameKey(f) \in DOMAIN index
                THEN store[index[FrameKey(f)]] ELSE Fresh(FrameKey(f))
         /\ \A k \in DOMAIN index :
              Same(store, index, SlotOf(f).store, SlotOf(f).index, k)
         /\ Filled(f) \in PartialMessage /\ KeyOf(Filled(f)) = FrameKey(f)
         /\ HoldsWhatItClaims(Filled(f), resets[Filled(f).stream_id])
         /\ is_complete(Filled(f)) => Emitted(Filled(f), f) \in Message
<1> DEFINE key == FrameKey(f)
           e   == resets[f.stream_id]
           q   == SlotOf(f).store[SlotOf(f).slot]
<1>1. f.stream_id \in Streams /\ f.msg_id \in Msgs
  BY Landing DEF DataFrame
<1>2. e \in 0 .. MaxResets
  BY <1>1 DEF SlotInv, TypeOK
<1>3. key \in Keys /\ key = << f.stream_id, f.msg_id >>
  BY <1>1 DEF FrameKey, Keys
<1>4. store \in Seq(PartialMessage) /\ Agree(store, index)
  BY AgreesIsAgree DEF SlotInv, TypeOK
<1> HIDE DEF key
<1>5. /\ SlotOf(f).store \in Seq(PartialMessage)
      /\ Agree(SlotOf(f).store, SlotOf(f).index)
      /\ DOMAIN SlotOf(f).index = DOMAIN index \cup {key}
      /\ SlotOf(f).slot = SlotOf(f).index[key]
      /\ SlotOf(f).slot \in DOMAIN SlotOf(f).store
      /\ q = IF key \in DOMAIN index THEN store[index[key]] ELSE Fresh(key)
      /\ \A k \in DOMAIN index :
           Same(store, index, SlotOf(f).store, SlotOf(f).index, k)
  BY <1>3, <1>4, SlotForAgrees DEF SlotOf, key
<1>6. /\ q \in PartialMessage
      /\ q.stream_id = f.stream_id /\ q.msg_id = f.msg_id
      /\ HoldsWhatItClaims(q, e)
  <2>1. CASE key \in DOMAIN index
    <3>1. q = store[index[key]] /\ index[key] \in DOMAIN store /\ KeyOf(q) = key
      BY <2>1, <1>4, <1>5 DEF Agree
    <3>2. q \in PartialMessage
      BY <3>1, <1>4
    <3>3. q.stream_id = f.stream_id /\ q.msg_id = f.msg_id
      BY <3>1, <1>3 DEF KeyOf
    <3>4. HoldsWhatItClaims(q, resets[q.stream_id])
      BY <3>1 DEF SlotInv, Exact
    <3> QED
      BY <3>2, <3>3, <3>4
  <2>2. CASE key \notin DOMAIN index
    <3>1. q = Fresh(<< f.stream_id, f.msg_id >>)
      BY <2>2, <1>3, <1>5
    <3> HIDE DEF q, e
    <3> QED
      BY <3>1, <1>1, <1>2, FreshExact
  <2> QED
    BY <2>1, <2>2
<1>7. Filled(f) = WithFragment(q, f, e)
  BY DEF Filled
<1> HIDE DEF q
<1>8. /\ Filled(f) \in PartialMessage
      /\ Filled(f).stream_id = f.stream_id /\ Filled(f).msg_id = f.msg_id
      /\ HoldsWhatItClaims(Filled(f), e)
  <2> HIDE DEF e
  <2> QED
    BY <1>2, <1>6, <1>7, FragmentExact
<1>9. is_complete(Filled(f)) => Emitted(Filled(f), f) \in Message
  <2> HIDE DEF e
  <2> QED
    BY <1>2, <1>8, EmittedExact
<1>10. KeyOf(Filled(f)) = key
  BY <1>3, <1>8 DEF KeyOf
<1> QED
  BY <1>3, <1>5, <1>8, <1>9, <1>10 DEF q, key

(* The store with the frame placed: one slot changed, still in agreement.  *)
LEMMA StoreOfAgrees ==
  ASSUME SlotInv, NEW f \in Frames
  PROVE  /\ StoreOf(f) \in Seq(PartialMessage)
         /\ DOMAIN StoreOf(f) = DOMAIN SlotOf(f).store
         /\ Agree(StoreOf(f), SlotOf(f).index)
         /\ StoreOf(f)[SlotOf(f).slot] = Filled(f)
         /\ Exact(StoreOf(f), resets)
         /\ \A k \in DOMAIN SlotOf(f).index :
              StoreOf(f)[SlotOf(f).index[k]] =
                IF k = FrameKey(f) THEN Filled(f) ELSE store[index[k]]
<1> DEFINE st == SlotOf(f).store
           ix == SlotOf(f).index
           n  == SlotOf(f).slot
<1>1. /\ st \in Seq(PartialMessage) /\ Agree(st, ix)
      /\ DOMAIN ix = DOMAIN index \cup {FrameKey(f)}
      /\ n = ix[FrameKey(f)] /\ n \in DOMAIN st
      /\ st[n] = IF FrameKey(f) \in DOMAIN index
                   THEN store[index[FrameKey(f)]] ELSE Fresh(FrameKey(f))
      /\ \A k \in DOMAIN index : Same(store, index, st, ix, k)
      /\ Filled(f) \in PartialMessage /\ KeyOf(Filled(f)) = FrameKey(f)
      /\ HoldsWhatItClaims(Filled(f), resets[Filled(f).stream_id])
  BY FilledExact
<1>2. KeyOf(st[n]) = FrameKey(f)
  BY <1>1 DEF Agree
<1>3. StoreOf(f) = [st EXCEPT ![n] = Filled(f)]
  BY DEF StoreOf
<1> HIDE DEF st, ix, n
<1>4. /\ StoreOf(f) \in Seq(PartialMessage)
      /\ DOMAIN StoreOf(f) = DOMAIN st
      /\ Agree(StoreOf(f), ix)
      /\ StoreOf(f)[n] = Filled(f)
      /\ \A j \in DOMAIN st : j # n => StoreOf(f)[j] = st[j]
  <2> DEFINE p == Filled(f)
  <2>1. p \in PartialMessage /\ KeyOf(p) = KeyOf(st[n])
    BY <1>1, <1>2
  <2>2. st \in Seq(PartialMessage) /\ Agree(st, ix) /\ n \in DOMAIN st
    BY <1>1
  <2>3. StoreOf(f) = [st EXCEPT ![n] = p]
    BY <1>3
  <2> HIDE DEF p
  <2>4. LET st2 == [st EXCEPT ![n] = p] IN
        /\ st2 \in Seq(PartialMessage)
        /\ DOMAIN st2 = DOMAIN st
        /\ Agree(st2, ix)
        /\ st2[n] = p
        /\ \A j \in DOMAIN st : j # n => st2[j] = st[j]
    BY <2>1, <2>2, ReplaceAgrees
  <2> QED
    BY <2>3, <2>4 DEF p
<1>5. \A j \in DOMAIN st : j # n => \E k \in DOMAIN index : st[j] = store[index[k]]
  <2> SUFFICES ASSUME NEW j \in DOMAIN st, j # n
               PROVE  \E k \in DOMAIN index : st[j] = store[index[k]]
    OBVIOUS
  <2>1. KeyOf(st[j]) \in DOMAIN ix /\ ix[KeyOf(st[j])] = j
    BY <1>1 DEF Agree
  <2>2. KeyOf(st[j]) \in DOMAIN index
    BY <2>1, <1>1
  <2> QED
    BY <2>1, <2>2, <1>1 DEF Same
<1>6. Exact(StoreOf(f), resets)
  <2>1. \A k \in DOMAIN index :
          HoldsWhatItClaims(store[index[k]], resets[store[index[k]].stream_id])
    BY DEF SlotInv, IndexAgrees, Exact
  <2> SUFFICES ASSUME NEW j \in DOMAIN st
               PROVE  HoldsWhatItClaims(StoreOf(f)[j], resets[StoreOf(f)[j].stream_id])
    BY <1>4 DEF Exact
  <2>2. CASE j = n
    BY <2>2, <1>1, <1>4
  <2>3. CASE j # n
    BY <2>1, <2>3, <1>4, <1>5
  <2> QED
    BY <2>2, <2>3
<1>7. \A k \in DOMAIN ix : StoreOf(f)[ix[k]] =
                IF k = FrameKey(f) THEN Filled(f) ELSE store[index[k]]
  <2> SUFFICES ASSUME NEW k \in DOMAIN ix, k # FrameKey(f)
               PROVE  StoreOf(f)[ix[k]] = store[index[k]]
    BY <1>1, <1>4
  <2>1. ix[k] \in DOMAIN st /\ ix[k] # n
    BY <1>1, <1>2 DEF Agree
  <2> QED
    BY <2>1, <1>1, <1>4 DEF Same
<1> QED
  BY <1>4, <1>6, <1>7 DEF st, ix, n

-----------------------------------------------------------------------------
(* accept_data in the two forms it takes: it never faults.                 *)
LEMMA AcceptForms ==
  ASSUME SlotInv, NEW f \in Frames, accept_data(f)
  PROVE  /\ fault' = FALSE /\ resets' = resets
         /\ \/ /\ is_complete(Filled(f))
               /\ store' = Retired(f).store /\ index' = Retired(f).index
               /\ out' = Emitted(Filled(f), f)
            \/ /\ ~is_complete(Filled(f))
               /\ store' = StoreOf(f) /\ index' = SlotOf(f).index
               /\ out' = NoMessage
<1>1. SlotOf(f).slot \in DOMAIN SlotOf(f).store
  BY FilledExact
<1>2. fault' = FALSE
  BY <1>1 DEF accept_data, SlotOf
<1> QED
  BY <1>2 DEF accept_data, SlotOf, Filled, StoreOf, Retired

LEMMA RetiredAgrees ==
  ASSUME SlotInv, NEW f \in Frames
  PROVE  /\ Retired(f).store \in Seq(PartialMessage)
         /\ Agree(Retired(f).store, Retired(f).index)
         /\ Exact(Retired(f).store, resets)
         /\ DOMAIN Retired(f).index = DOMAIN index \ {FrameKey(f)}
         /\ \A k \in DOMAIN Retired(f).index :
              Same(store, index, Retired(f).store, Retired(f).index, k)
<1> DEFINE st  == StoreOf(f)
           ix  == SlotOf(f).index
           key == FrameKey(f)
<1>1. /\ st \in Seq(PartialMessage) /\ Agree(st, ix) /\ key \in DOMAIN ix
      /\ DOMAIN ix = DOMAIN index \cup {key}
      /\ Retired(f) = remove_slot(st, ix, ix[key], key)
  BY FilledExact, StoreOfAgrees DEF Retired
<1>2. \A k \in DOMAIN ix \ {key} : st[ix[k]] = store[index[k]]
  BY StoreOfAgrees
<1>3. Exact(st, resets)
  BY StoreOfAgrees
<1> HIDE DEF st, ix, key
<1>4. /\ Retired(f).store \in Seq(PartialMessage)
      /\ Agree(Retired(f).store, Retired(f).index)
      /\ DOMAIN Retired(f).index = DOMAIN ix \ {key}
      /\ \A k \in DOMAIN Retired(f).index :
           Same(st, ix, Retired(f).store, Retired(f).index, k)
      /\ \A j \in DOMAIN Retired(f).store :
           \E i \in DOMAIN st : Retired(f).store[j] = st[i]
  BY <1>1, RemoveAgrees
<1>5. Exact(Retired(f).store, resets)
  BY <1>3, <1>4 DEF Exact
<1>6. \A k \in DOMAIN Retired(f).index :
        Same(store, index, Retired(f).store, Retired(f).index, k)
  BY <1>2, <1>4 DEF Same
<1>7. DOMAIN Retired(f).index = DOMAIN index \ {key}
  BY <1>1, <1>4
<1> QED
  BY <1>4, <1>5, <1>6, <1>7 DEF key

LEMMA AcceptSlotInv ==
  ASSUME SlotInv, NEW f \in Frames, accept_data(f)
  PROVE  SlotInv'
<1>1. /\ store' \in Seq(PartialMessage)
      /\ Agree(store', index')
      /\ Exact(store', resets)
      /\ DOMAIN index' \subseteq Keys
      /\ out' \in Message \cup {NoMessage}
  <2>1. DOMAIN index \subseteq Keys /\ FrameKey(f) \in Keys
    BY FilledExact DEF SlotInv, TypeOK
  <2>2. CASE /\ is_complete(Filled(f))
             /\ store' = Retired(f).store /\ index' = Retired(f).index
             /\ out' = Emitted(Filled(f), f)
    <3>1. out' \in Message
      BY <2>2, FilledExact
    <3>2. /\ store' \in Seq(PartialMessage) /\ Agree(store', index')
          /\ Exact(store', resets) /\ DOMAIN index' = DOMAIN index \ {FrameKey(f)}
      BY <2>2, RetiredAgrees
    <3> QED
      BY <2>1, <3>1, <3>2
  <2>3. CASE /\ store' = StoreOf(f) /\ index' = SlotOf(f).index
             /\ out' = NoMessage
    <3>1. /\ store' \in Seq(PartialMessage) /\ Agree(store', index')
          /\ Exact(store', resets)
      BY <2>3, StoreOfAgrees
    <3>2. DOMAIN index' = DOMAIN index \cup {FrameKey(f)}
      BY <2>3, FilledExact
    <3> QED
      BY <2>1, <2>3, <3>1, <3>2
  <2> QED
    BY <2>2, <2>3, AcceptForms
<1>2. fault' = FALSE /\ resets' = resets
  BY AcceptForms
<1>3. \A k \in DOMAIN index' : index'[k] \in Nat
  BY <1>1 DEF Agree
<1>4. IndexAgrees'
  BY <1>1 DEF IndexAgrees, Agree
<1>5. Exact(store', resets')
  BY <1>1, <1>2
<1> QED
  BY <1>1, <1>2, <1>3, <1>4, <1>5 DEF SlotInv, TypeOK

(* A RESET that meets at most one hole.                                    *)
LEMMA ResetSlotInv ==
  ASSUME SlotInv, NEW s \in Streams, OneHole(s), reset_stream(s)
  PROVE  SlotInv'
<1> DEFINE holes == Holes(store, s)
<1>1. /\ store' = Compacted(store, holes) /\ index' = Slid(index, store, holes)
      /\ resets' = [resets EXCEPT ![s] = @ + 1] /\ resets[s] < MaxResets
      /\ out' = NoMessage /\ fault' = fault
  BY DEF reset_stream
<1>2. store \in Seq(PartialMessage) /\ Agree(store, index)
  BY AgreesIsAgree DEF SlotInv, TypeOK
<1>3. /\ store' \in Seq(PartialMessage)
      /\ Agree(store', index')
      /\ DOMAIN index' = {k \in DOMAIN index : k[1] # s}
      /\ \A j \in DOMAIN store' : \E i \in DOMAIN store : store'[j] = store[i]
  <2>1. Cardinality(Holes(store, s)) <= 1
    BY DEF OneHole
  <2>2. ResetKeeps(store, index, s)
    BY <1>2, <2>1, ResetAgrees
  <2> QED
    BY <1>1, <2>2 DEF ResetKeeps
<1>4. resets' \in [Streams -> 0 .. MaxResets]
  BY <1>1, FragmentsAssumption DEF SlotInv, TypeOK
<1>5. \A k \in DOMAIN index' : index'[k] \in Nat
  BY <1>3 DEF Agree
<1>6. DOMAIN index' \subseteq Keys
  BY <1>3 DEF SlotInv, TypeOK
<1>7. IndexAgrees'
  BY <1>3 DEF IndexAgrees, Agree
<1>8. Exact(store', resets')
  <2> SUFFICES ASSUME NEW j \in DOMAIN store'
               PROVE  HoldsWhatItClaims(store'[j], resets'[store'[j].stream_id])
    BY DEF Exact
  <2>1. PICK i \in DOMAIN store : store'[j] = store[i]
    BY <1>3
  <2>2. HoldsWhatItClaims(store[i], resets[store[i].stream_id])
    BY DEF SlotInv, Exact
  <2>3. KeyOf(store'[j]) \in DOMAIN index'
    BY <1>3 DEF Agree
  <2>4. KeyOf(store'[j])[1] # s
    BY <1>3, <2>3
  <2>5. store[i].stream_id # s
    BY <2>1, <2>4 DEF KeyOf
  <2>6. store[i] \in PartialMessage
    BY <1>2
  <2>7. resets'[store[i].stream_id] = resets[store[i].stream_id]
    BY <1>1, <2>5, <2>6 DEF SlotInv, TypeOK, PartialMessage
  <2> QED
    BY <2>1, <2>2, <2>7
<1> QED
  BY <1>1, <1>3, <1>4, <1>5, <1>6, <1>7, <1>8 DEF SlotInv, TypeOK

LEMMA StepSlotInv == SlotInv /\ [OneHoleNext]_vars => SlotInv'
<1> SUFFICES ASSUME SlotInv, [OneHoleNext]_vars PROVE SlotInv'
  OBVIOUS
<1>1. CASE OneHoleNext
  BY <1>1, AcceptSlotInv, ResetSlotInv DEF OneHoleNext
<1>2. CASE UNCHANGED vars
  BY <1>2 DEF vars, SlotInv, TypeOK, IndexAgrees, Exact
<1> QED
  BY <1>1, <1>2

LEMMA SlotInvariant == OneHoleSpec => []SlotInv
  BY InitSlotInv, StepSlotInv, PTL DEF OneHoleSpec

-----------------------------------------------------------------------------
(* The index and the store agree at all times, so that no access of        *)
(* accept_data, remove_slot or reset_stream leaves the store, as long as   *)
(* no RESET finds two messages of its stream in flight.                    *)
THEOREM IndexAgreesAlways == OneHoleSpec => [](IndexAgrees /\ ~fault)
<1>1. SlotInv => IndexAgrees /\ ~fault
  BY DEF SlotInv
<1> QED
  BY <1>1, SlotInvariant, PTL

(* The reassembler's own state is well formed in the same executions.      *)
THEOREM SlotTypeCorrect == OneHoleSpec => []TypeOK
<1>1. SlotInv => TypeOK
  BY DEF SlotInv
<1> QED
  BY <1>1, SlotInvariant, PTL

-----------------------------------------------------------------------------
(* The operators of the abstract specification are those of Fragments.     *)
LEMMA SameOperators ==
  ASSUME NEW f, NEW p, NEW e, NEW key
  PROVE  /\ Map!FrameKey(f) = FrameKey(f)
         /\ Map!Fresh(key) = Fresh(key)
         /\ Map!WithFragment(p, f, e) = WithFragment(p, f, e)
         /\ Map!is_complete(p) <=> is_complete(p)
         /\ Map!Emitted(p, f) = Emitted(p, f)
         /\ Map!NoMessage = NoMessage
<1>1. Map!FrameKey(f) = FrameKey(f) /\ Map!Fresh(key) = Fresh(key)
  BY DEF Map!FrameKey, FrameKey, Map!Fresh, Fresh
<1>2. Map!Emitted(p, f) = Emitted(p, f) /\ Map!NoMessage = NoMessage
  BY DEF Map!Emitted, Emitted, Map!NoMessage, NoMessage
<1>3. Map!Begin(f) = Begin(f) /\ Map!End(f) = End(f)
  BY DEF Map!Begin, Begin, Map!End, End
<1>4. \A a, b : Map!Bigger(a, b) = Bigger(a, b)
  BY DEF Map!Bigger, Bigger
<1>5. \A k : Map!PayloadByte(f, e, k) = PayloadByte(f, e, k)
  BY DEF Map!PayloadByte, PayloadByte
<1>6. \A b : Map!Placed(b, f, e) = Placed(b, f, e)
  BY <1>3, <1>4, <1>5 DEF Map!Placed, Placed
<1>7. \A r, a, b : Map!add_range(r, a, b) = add_range(r, a, b)
  BY DEF Map!add_range, add_range
<1>8. Map!WithFragment(p, f, e) = WithFragment(p, f, e)
  BY <1>3, <1>4, <1>6, <1>7 DEF Map!WithFragment, WithFragment
<1>9. \A r, n : Map!OneSpanReaches(r, n) <=> OneSpanReaches(r, n)
  BY DEF Map!OneSpanReaches, OneSpanReaches
<1>10. Map!is_complete(p) <=> is_complete(p)
  BY <1>9 DEF Map!is_complete, is_complete
<1> QED
  BY <1>1, <1>2, <1>8, <1>10

LEMMA HeldValues ==
  /\ DOMAIN Held = DOMAIN index
  /\ \A k \in DOMAIN index : Held[k] = store[index[k]]
  BY DEF Held

(* The partial that the abstract specification computes for a frame.       *)
LEMMA SameUpdate ==
  ASSUME SlotInv, NEW f \in Frames
  PROVE  Map!Updated(f) = Filled(f)
<1> DEFINE key == FrameKey(f)
           q   == IF key \in DOMAIN index THEN store[index[key]] ELSE Fresh(key)
<1>1. Filled(f) = WithFragment(q, f, resets[f.stream_id])
  BY FilledExact DEF Filled
<1>2. Map!FrameKey(f) = key /\ Map!Fresh(key) = Fresh(key)
  BY SameOperators
<1>3. (IF key \in DOMAIN Held THEN Held[key] ELSE Map!Fresh(key)) = q
  BY <1>2, HeldValues
<1>4. Map!Updated(f) = Map!WithFragment(q, f, resets[f.stream_id])
  <2>1. Map!Updated(f) =
          Map!WithFragment(IF key \in DOMAIN Held THEN Held[key] ELSE Map!Fresh(key),
                           f, resets[f.stream_id])
    BY <1>2 DEF Map!Updated
  <2> HIDE DEF q, key
  <2> QED
    BY <2>1, <1>3
<1> HIDE DEF q
<1> QED
  BY <1>1, <1>4, SameOperators

LEMMA AcceptRefines ==
  ASSUME SlotInv, NEW f \in Frames, accept_data(f)
  PROVE  Map!Fill(f) \/ Map!Emit(f)
<1> DEFINE key == FrameKey(f)
<1>1. /\ Map!Updated(f) = Filled(f) /\ Map!FrameKey(f) = key
      /\ Map!NoMessage = NoMessage
      /\ Map!is_complete(Filled(f)) <=> is_complete(Filled(f))
      /\ Map!Emitted(Filled(f), f) = Emitted(Filled(f), f)
  BY SameUpdate, SameOperators
<1>2. resets' = resets
  BY AcceptForms
<1>3. Held' = [k \in DOMAIN index' |-> store'[index'[k]]]
  BY DEF Held
<1>4. CASE /\ is_complete(Filled(f))
           /\ store' = Retired(f).store /\ index' = Retired(f).index
           /\ out' = Emitted(Filled(f), f)
  <2>1. /\ DOMAIN index' = DOMAIN index \ {key}
        /\ \A k \in DOMAIN index' : store'[index'[k]] = store[index[k]]
    BY <1>4, RetiredAgrees DEF Same
  <2> HIDE DEF key
  <2>2. Held' = [k \in DOMAIN Held \ {key} |-> Held[k]]
    BY <2>1, <1>3, HeldValues
  <2> QED
    BY <1>1, <1>2, <1>4, <2>2 DEF Map!Emit
<1>5. CASE /\ ~is_complete(Filled(f))
           /\ store' = StoreOf(f) /\ index' = SlotOf(f).index
           /\ out' = NoMessage
  <2>1. /\ DOMAIN index' = DOMAIN index \cup {key}
        /\ \A k \in DOMAIN index' :
             store'[index'[k]] = IF k = key THEN Filled(f) ELSE store[index[k]]
    BY <1>5, FilledExact, StoreOfAgrees
  <2> HIDE DEF key
  <2>2. Held' = [k \in DOMAIN Held \cup {key} |->
                   IF k = key THEN Filled(f) ELSE Held[k]]
    BY <2>1, <1>3, HeldValues
  <2> QED
    BY <1>1, <1>2, <1>5, <2>2 DEF Map!Fill
<1> QED
  BY <1>4, <1>5, AcceptForms

LEMMA ResetRefines ==
  ASSUME SlotInv, NEW s \in Streams, OneHole(s), reset_stream(s)
  PROVE  Map!Reset(s)
<1>1. /\ store' = Compacted(store, Holes(store, s))
      /\ index' = Slid(index, store, Holes(store, s))
      /\ resets' = [resets EXCEPT ![s] = @ + 1] /\ resets[s] < MaxResets
      /\ out' = NoMessage
  BY DEF reset_stream
<1>2. ResetKeeps(store, index, s)
  BY ResetAgrees, AgreesIsAgree DEF SlotInv, TypeOK, OneHole
<1>3. /\ DOMAIN index' = {k \in DOMAIN index : k[1] # s}
      /\ \A k \in DOMAIN index' : store'[index'[k]] = store[index[k]]
  BY <1>1, <1>2 DEF ResetKeeps, Same
<1>4. Held' = [k \in DOMAIN index' |-> store'[index'[k]]]
  BY DEF Held
<1>5. Held' = [k \in {k \in DOMAIN Held : k[1] # s} |-> Held[k]]
  BY <1>3, <1>4, HeldValues
<1>6. Map!NoMessage = NoMessage
  BY SameOperators
<1> QED
  BY <1>1, <1>5, <1>6 DEF Map!Reset

LEMMA InitRefines == Init => Map!Init
<1> SUFFICES ASSUME Init PROVE Map!Init
  OBVIOUS
<1>1. DOMAIN index = {}
  BY DEF Init
<1>2. Held = [k \in {} |-> Map!Fresh(k)]
  BY <1>1 DEF Held
<1>3. Map!NoMessage = NoMessage
  BY SameOperators
<1> QED
  BY <1>2, <1>3 DEF Init, Map!Init

LEMMA StepRefines == SlotInv /\ [OneHoleNext]_vars => [Map!Next]_(Map!vars)
<1> SUFFICES ASSUME SlotInv, [OneHoleNext]_vars PROVE [Map!Next]_(Map!vars)
  OBVIOUS
<1>1. CASE OneHoleNext
  BY <1>1, AcceptRefines, ResetRefines DEF OneHoleNext, Map!Next
<1>2. CASE UNCHANGED vars
  <2>1. UNCHANGED << Held, resets, out >>
    BY <1>2 DEF vars, Held
  <2> QED
    BY <2>1 DEF Map!vars
<1> QED
  BY <1>1, <1>2

(* The slot store is transparent: with at most one message of a stream in  *)
(* flight at its RESETs, the reassembler implements the plain map of       *)
(* ReassemblyMap, so its theorems (exact coverage, whole messages) hold of *)
(* store_ and index_ seen through Held.                                    *)
THEOREM ReassemblerRefinesMap == OneHoleSpec => RefinesMap
  BY InitRefines, StepRefines, SlotInvariant, PTL DEF OneHoleSpec, RefinesMap, Map!Spec

-----------------------------------------------------------------------------
(* The promises of the plain map, for the slot store itself.  Coverage is  *)
(* a consequence of SlotInv; the other two speak of the last step and are  *)
(* carried along.                                                          *)
LEMMA SameCoverage ==
  \A p, e : Map!HoldsWhatItClaims(p, e) <=> HoldsWhatItClaims(p, e)
  BY DEF Map!HoldsWhatItClaims, HoldsWhatItClaims

LEMMA CoverageFromSlots == SlotInv => CoverageExact
<1> SUFFICES ASSUME SlotInv, NEW k \in DOMAIN Held
             PROVE  HoldsWhatItClaims(Held[k], resets[k[1]])
  BY SameCoverage DEF CoverageExact, Map!CoverageExact
<1>1. k \in DOMAIN index /\ Held[k] = store[index[k]]
  BY HeldValues
<1>2. index[k] \in DOMAIN store /\ KeyOf(store[index[k]]) = k
  BY <1>1 DEF SlotInv, IndexAgrees
<1>3. k[1] = store[index[k]].stream_id
  BY <1>2 DEF KeyOf
<1> QED
  BY <1>1, <1>2, <1>3 DEF SlotInv, Exact

(* Every partial in the store holds exactly the bytes its ranges claim.    *)
THEOREM SlotCoverageExact == OneHoleSpec => []CoverageExact
  BY CoverageFromSlots, SlotInvariant, PTL

Promises == EmittedWhole /\ NothingCompleteHeld

LEMMA InitPromises == Init => Promises
<1> SUFFICES ASSUME Init PROVE Promises
  OBVIOUS
<1>1. DOMAIN Held = {} /\ out = Map!NoMessage
  BY HeldValues, SameOperators DEF Init
<1> QED
  BY <1>1 DEF Promises, EmittedWhole, Map!EmittedWhole,
              NothingCompleteHeld, Map!NothingCompleteHeld

LEMMA AcceptPromises ==
  ASSUME SlotInv, Promises, NEW f \in Frames, accept_data(f)
  PROVE  Promises'
<1> DEFINE key == FrameKey(f)
<1>1. /\ Map!Updated(f) = Filled(f) /\ Map!FrameKey(f) = key
      /\ Map!NoMessage = NoMessage
      /\ Map!Emitted(Filled(f), f) = Emitted(Filled(f), f)
  BY SameUpdate, SameOperators
<1>2. NothingCompleteHeld
  BY DEF Promises
<1>3. CASE Map!Fill(f)
  <2>1. /\ ~Map!is_complete(Filled(f))
        /\ DOMAIN Held' = DOMAIN Held \cup {key}
        /\ \A k \in DOMAIN Held' :
             Held'[k] = IF k = key THEN Filled(f) ELSE Held[k]
        /\ out' = Map!NoMessage
    BY <1>1, <1>3 DEF Map!Fill
  <2> HIDE DEF key
  <2>2. NothingCompleteHeld'
    BY <1>2, <2>1 DEF NothingCompleteHeld, Map!NothingCompleteHeld
  <2>3. EmittedWhole'
    BY <2>1 DEF EmittedWhole, Map!EmittedWhole
  <2> QED
    BY <2>2, <2>3 DEF Promises
<1>4. CASE Map!Emit(f)
  <2>1. /\ Map!is_complete(Filled(f))
        /\ DOMAIN Held' \subseteq DOMAIN Held
        /\ \A k \in DOMAIN Held' : Held'[k] = Held[k]
        /\ out' = Emitted(Filled(f), f)
    BY <1>1, <1>4 DEF Map!Emit
  <2>2. NothingCompleteHeld'
    BY <1>2, <2>1 DEF NothingCompleteHeld, Map!NothingCompleteHeld
  <2>3. EmittedWhole'
    <3>1. is_complete(Filled(f))
      BY <2>1, SameOperators
    <3>2. /\ Filled(f) \in PartialMessage
          /\ Filled(f).stream_id = f.stream_id /\ Filled(f).msg_id = f.msg_id
          /\ HoldsWhatItClaims(Filled(f), resets[f.stream_id])
          /\ f.stream_id \in Streams
          /\ resets[f.stream_id] \in 0 .. MaxResets
      <4>1. /\ Filled(f) \in PartialMessage /\ KeyOf(Filled(f)) = key
            /\ HoldsWhatItClaims(Filled(f), resets[Filled(f).stream_id])
        BY FilledExact
      <4>2. Filled(f).stream_id = f.stream_id /\ Filled(f).msg_id = f.msg_id
        BY <4>1 DEF KeyOf, FrameKey
      <4>3. f.stream_id \in Streams
        BY Landing DEF DataFrame
      <4> QED
        BY <4>1, <4>2, <4>3 DEF SlotInv, TypeOK
    <3>3. /\ out'.stream_id = f.stream_id
          /\ \A j \in 0 .. (Len(out'.data) - 1) :
               out'.data[j + 1] =
                 << out'.stream_id, out'.msg_id, resets[f.stream_id], j >>
      BY <2>1, <3>1, <3>2, EmittedExact
    <3>4. resets' = resets
      BY AcceptForms
    <3> QED
      BY <3>3, <3>4 DEF EmittedWhole, Map!EmittedWhole
  <2> QED
    BY <2>2, <2>3 DEF Promises
<1> QED
  BY <1>3, <1>4, AcceptRefines

LEMMA ResetPromises ==
  ASSUME SlotInv, Promises, NEW s \in Streams, OneHole(s), reset_stream(s)
  PROVE  Promises'
<1>1. /\ DOMAIN Held' \subseteq DOMAIN Held
      /\ \A k \in DOMAIN Held' : Held'[k] = Held[k]
      /\ out' = Map!NoMessage
  BY ResetRefines DEF Map!Reset
<1> QED
  BY <1>1 DEF Promises, EmittedWhole, Map!EmittedWhole,
              NothingCompleteHeld, Map!NothingCompleteHeld

LEMMA StepPromises ==
  SlotInv /\ Promises /\ [OneHoleNext]_vars => Promises'
<1> SUFFICES ASSUME SlotInv, Promises, [OneHoleNext]_vars PROVE Promises'
  OBVIOUS
<1>1. CASE OneHoleNext
  BY <1>1, AcceptPromises, ResetPromises DEF OneHoleNext
<1>2. CASE UNCHANGED vars
  <2>1. UNCHANGED << Held, resets, out >>
    BY <1>2 DEF vars, Held
  <2> QED
    BY <2>1 DEF Promises, EmittedWhole, Map!EmittedWhole,
                NothingCompleteHeld, Map!NothingCompleteHeld
<1> QED
  BY <1>1, <1>2

LEMMA PromisesAlways == OneHoleSpec => []Promises
  BY InitPromises, StepPromises, SlotInvariant, PTL DEF OneHoleSpec

(* Every message accept_data emits consists of its own bytes, each at its  *)
(* offset and none from before a RESET of its stream.                      *)
THEOREM SlotEmittedWhole == OneHoleSpec => []EmittedWhole
<1>1. Promises => EmittedWhole
  BY DEF Promises
<1> QED
  BY <1>1, PromisesAlways, PTL

(* accept_data never leaves in flight a message is_complete() accepts.     *)
THEOREM SlotNothingCompleteHeld == OneHoleSpec => []NothingCompleteHeld
<1>1. Promises => NothingCompleteHeld
  BY DEF Promises
<1> QED
  BY <1>1, PromisesAlways, PTL

-----------------------------------------------------------------------------
(* ---- The span list of add_range (RangeList).                       ---- *)
USE DEF Offsets

(* Induction over the naturals, in the form of a least element of a set.   *)
LEMMA LeastNat ==
  ASSUME NEW T \in SUBSET Nat, T # {}
  PROVE  \E n \in T : \A k \in T : n <= k
<1>1. IsWellFoundedOn(OpToRel(<, Nat), Nat)
  BY NatLessThanWellFounded
<1>2. \A k, n \in Nat : k < n => << k, n >> \in OpToRel(<, Nat)
  BY DEF OpToRel
<1>3. PICK R : R = OpToRel(<, Nat)
  OBVIOUS
<1>4. \A k, n \in Nat : k < n => << k, n >> \in R
  BY <1>2, <1>3, Zenon
<1>5. IsWellFoundedOn(R, Nat) /\ T \subseteq Nat
  BY <1>1, <1>3, Zenon
<1>6. \E n \in T : \A k \in T : ~(<< k, n >> \in R)
  BY <1>5, WFMin, Zenon
<1>7. \A k, n \in T : ~(k < n) => n <= k
  OBVIOUS
<1>8. \A k \in T : k \in Nat
  OBVIOUS
<1> QED
  BY <1>4, <1>6, <1>7, <1>8, Zenon

(* A set with 0 that is closed under successor holds all of them.          *)
LEMMA CountUp ==
  ASSUME NEW S, 0 \in S, \A n \in Nat : n \in S => n + 1 \in S
  PROVE  \A n \in Nat : n \in S
<1> DEFINE U == Nat \ S
<1>1. SUFFICES ASSUME U # {} PROVE FALSE
  OBVIOUS
<1>2. PICK n \in U : \A k \in U : n <= k
  BY <1>1, LeastNat
<1>3. n # 0 /\ n - 1 \in Nat /\ n - 1 \notin U /\ n = (n - 1) + 1
  BY <1>2
<1> QED
  BY <1>3

(* Lists of non-empty spans; in order of their begins; with gaps between.  *)
SpanSet == Offsets \X Offsets

Spanned(w) == w \in Seq(SpanSet) /\ \A i \in 1 .. Len(w) : w[i][1] < w[i][2]

Rising(w) == \A i, j \in 1 .. Len(w) : i < j => w[i][1] <= w[j][1]

Apart(w) == \A i, j \in 1 .. Len(w) : i < j => w[i][2] < w[j][1]

(* One of the first n spans holds the offset x.                            *)
Covers(w, n, x) == \E i \in 1 .. n : w[i][1] <= x /\ x < w[i][2]

(* The merge loop after n rounds.                                          *)
Merging(w, n, m) ==
  /\ Spanned(m) /\ Apart(m)
  /\ \A x \in Nat : Covers(m, Len(m), x) <=> Covers(w, n, x)
  /\ n # 0 => Len(m) # 0 /\ m[Len(m)][1] <= w[n][1]

LEMMA SpanAt ==
  ASSUME NEW w, Spanned(w), NEW i \in 1 .. Len(w)
  PROVE  /\ w[i][1] \in Nat /\ w[i][2] \in Nat /\ w[i][1] < w[i][2]
         /\ w[i][1] \in Offsets /\ w[i][2] \in Offsets /\ w[i] = << w[i][1], w[i][2] >>
<1>1. w[i] \in SpanSet /\ w[i][1] < w[i][2]
  BY DEF Spanned
<1> QED
  BY <1>1, CoverageAssumption DEF SpanSet

LEMMA MergeRound ==
  ASSUME NEW w, Spanned(w), Rising(w), NEW n \in Nat, n + 1 <= Len(w),
         NEW m, Merging(w, n, m)
  PROVE  Merging(w, n + 1, Coalesce(m, w[n + 1]))
<1>1. PICK s, b, e : s = w[n + 1] /\ b = s[1] /\ e = s[2]
  BY Zenon
<1>2. b \in Nat /\ e \in Nat /\ b < e /\ s \in SpanSet /\ s = << b, e >>
      /\ n \in Nat /\ n + 1 \in 1 .. Len(w) /\ (n # 0 => n \in 1 .. Len(w) /\ w[n][1] <= b)
  <2>1. n + 1 \in 1 .. Len(w) /\ (n # 0 => n \in 1 .. Len(w))
    BY DEF Spanned
  <2>2. b \in Nat /\ e \in Nat /\ b < e /\ s = << b, e >>
    BY <1>1, <2>1, SpanAt
  <2>3. n # 0 => w[n][1] <= b
    BY <1>1, <2>1 DEF Rising
  <2>4. s \in SpanSet
    BY <1>1, <2>1 DEF Spanned
  <2> QED
    BY <2>1, <2>2, <2>3, <2>4
<1>3. PICK k \in Nat : k = Len(m)
  BY DEF Merging, Spanned
<1>4. /\ m \in Seq(SpanSet)
      /\ \A i \in 1 .. k : m[i][1] \in Nat /\ m[i][2] \in Nat /\ m[i][1] < m[i][2]
      /\ \A i, j \in 1 .. k : i < j => m[i][2] < m[j][1]
      /\ k # 0 <=> m # << >>
  BY <1>3, SpanAt DEF Merging, Spanned, Apart
<1>5. ASSUME NEW x \in Nat
      PROVE  Covers(w, n + 1, x) <=> Covers(m, k, x) \/ (b <= x /\ x < e)
  <2>1. Covers(w, n + 1, x) <=> Covers(w, n, x) \/ (b <= x /\ x < e)
    <3>1. \A i : i \in 1 .. (n + 1) <=> i \in 1 .. n \/ i = n + 1
      OBVIOUS
    <3> QED
      BY <1>1, <3>1 DEF Covers
  <2> QED
    BY <1>3, <2>1 DEF Merging
<1>6. PICK r : r = Coalesce(m, s)
  OBVIOUS
<1>7. CASE k = 0 \/ m[k][2] < b
  <2>1. r = Append(m, s)
    <3>1. k # 0 => k \in 1 .. k
      OBVIOUS
    <3> QED
      BY <1>1, <1>2, <1>3, <1>4, <1>6, <1>7, <3>1 DEF Coalesce, Last
  <2>2. /\ r \in Seq(SpanSet) /\ Len(r) = k + 1 /\ r[k + 1] = s
        /\ \A i \in 1 .. k : r[i] = m[i]
    BY <1>2, <1>3, <1>4, <2>1
  <2>3. \A i \in 1 .. (k + 1) : i \in 1 .. k \/ i = k + 1
    OBVIOUS
  <2>4. Spanned(r)
    BY <1>1, <1>2, <1>4, <2>2, <2>3 DEF Spanned
  <2>5. Apart(r)
    <3>1. SUFFICES ASSUME NEW i \in 1 .. (k + 1), NEW j \in 1 .. (k + 1), i < j
                   PROVE  r[i][2] < r[j][1]
      BY <2>2 DEF Apart
    <3>2. CASE j \in 1 .. k
      BY <1>4, <2>2, <3>1, <3>2
    <3>3. CASE j = k + 1
      <4>1. i \in 1 .. k /\ k \in 1 .. k /\ m[k][2] < b
        BY <1>7, <3>1, <3>3
      <4>2. m[i][2] < b
        <5>1. m[i][2] \in Nat /\ m[k][2] \in Nat /\ m[k][1] \in Nat /\ m[k][1] < m[k][2]
          BY <1>4, <4>1
        <5>2. i < k => m[i][2] < m[k][1]
          BY <1>4, <4>1
        <5>3. i = k \/ i < k
          BY <4>1
        <5> QED
          BY <1>2, <4>1, <5>1, <5>2, <5>3
      <4> QED
        BY <1>1, <2>2, <3>3, <4>1, <4>2
    <3> QED
      BY <2>3, <3>2, <3>3
  <2>6. ASSUME NEW x \in Nat
        PROVE  Covers(r, k + 1, x) <=> Covers(w, n + 1, x)
    <3>1. Covers(r, k + 1, x) <=> Covers(m, k, x) \/ (b <= x /\ x < e)
      <4>1. \A i : i \in 1 .. (k + 1) <=> i \in 1 .. k \/ i = k + 1
        OBVIOUS
      <4> QED
        BY <1>1, <2>2, <4>1 DEF Covers
    <3> QED
      BY <1>5, <3>1
  <2>7. r[k + 1][1] <= w[n + 1][1] /\ k + 1 # 0
    BY <1>1, <1>2, <2>2
  <2> QED
    BY <1>1, <1>6, <2>2, <2>4, <2>5, <2>6, <2>7 DEF Merging
<1>8. CASE k # 0 /\ b <= m[k][2]
  <2>1. PICK p \in Nat, q \in Nat : p = m[k][1] /\ q = m[k][2] /\ m[k] = << p, q >> /\ p < q
    BY <1>3, <1>4, <1>8, SpanAt DEF Merging
  <2>2. p <= b
    <3>1. n # 0
      <4>1. Covers(m, k, p)
        BY <1>3, <1>8, <2>1 DEF Covers
      <4>2. Covers(w, n, p)
        BY <1>3, <2>1, <4>1 DEF Merging
      <4> QED
        BY <4>2 DEF Covers
    <3>2. w[n][1] \in Nat
      BY <1>2, <3>1, SpanAt
    <3> QED
      BY <1>2, <1>3, <2>1, <3>1, <3>2 DEF Merging
  <2>3. PICK z \in Nat : z = (IF q >= e THEN q ELSE e)
    BY <1>2
  <2>4. r = [m EXCEPT ![k] = << p, z >>]
    <3>1. m # << >> /\ b <= Last(m)[2] /\ Last(m)[2] = q /\ s[1] = b /\ s[2] = e
      BY <1>1, <1>3, <1>4, <1>8, <2>1 DEF Last
    <3>2. r = [m EXCEPT ![k][2] = IF @ >= s[2] THEN @ ELSE s[2]]
      BY <1>3, <1>6, <3>1 DEF Coalesce
    <3>3. [<< p, q >> EXCEPT ![2] = z] = << p, z >>
      OBVIOUS
    <3>4. r = [m EXCEPT ![k] = [m[k] EXCEPT ![2] = IF m[k][2] >= s[2] THEN m[k][2] ELSE s[2]]]
      BY <3>2
    <3> QED
      BY <2>1, <2>3, <3>1, <3>3, <3>4
  <2>5. << p, z >> \in SpanSet /\ p < z /\ q <= z /\ e <= z
    <3>1. p \in Offsets /\ q \in Offsets
      BY <1>3, <1>8, <2>1, SpanAt DEF Merging
    <3>2. e \in Offsets
      BY <1>1, <1>2, SpanAt
    <3>3. z \in Offsets
      BY <2>3, <3>1, <3>2
    <3>4. << p, z >> \in SpanSet
      BY <3>1, <3>3 DEF SpanSet
    <3>5. p < z /\ q <= z /\ e <= z
      BY <1>2, <2>1, <2>3
    <3> QED
      BY <3>4, <3>5
  <2>6. /\ r \in Seq(SpanSet) /\ Len(r) = k /\ r[k] = << p, z >>
        /\ \A i \in 1 .. k : i # k => r[i] = m[i]
    BY <1>3, <1>4, <1>8, <2>4, <2>5
  <2>7. Spanned(r)
    BY <1>4, <2>5, <2>6 DEF Spanned
  <2>8. Apart(r)
    <3>1. SUFFICES ASSUME NEW i \in 1 .. k, NEW j \in 1 .. k, i < j PROVE r[i][2] < r[j][1]
      BY <2>6 DEF Apart
    <3>2. i # k /\ r[i] = m[i] /\ m[i][2] < m[j][1]
      BY <1>4, <2>6, <3>1
    <3>3. r[j][1] = m[j][1]
      BY <2>1, <2>6
    <3> QED
      BY <3>2, <3>3
  <2>9. ASSUME NEW x \in Nat
        PROVE  Covers(r, k, x) <=> Covers(w, n + 1, x)
    <3>1. p <= x /\ x < z <=> (p <= x /\ x < q) \/ (b <= x /\ x < e)
      <4>1. p <= b /\ b <= q /\ ((z = q /\ e <= q) \/ (z = e /\ q < e))
        BY <1>2, <1>8, <2>1, <2>2, <2>3
      <4> QED
        BY <1>2, <2>1, <2>3, <4>1
    <3>2. Covers(m, k, x) <=> (p <= x /\ x < q) \/ \E i \in 1 .. k : i # k /\ m[i][1] <= x /\ x < m[i][2]
      BY <1>8, <2>1 DEF Covers
    <3>3. Covers(r, k, x) <=> (p <= x /\ x < z) \/ \E i \in 1 .. k : i # k /\ m[i][1] <= x /\ x < m[i][2]
      BY <1>8, <2>6 DEF Covers
    <3> QED
      BY <1>5, <3>1, <3>2, <3>3
  <2>10. r[k][1] <= w[n + 1][1]
    BY <1>1, <2>2, <2>6
  <2> QED
    BY <1>1, <1>6, <1>8, <2>6, <2>7, <2>8, <2>9, <2>10 DEF Merging
<1> QED
  <2>1. k # 0 => m[k][2] \in Nat
    BY <1>4
  <2> QED
    BY <1>2, <1>7, <1>8, <2>1

(* The recursive function of the merge loop exists.                        *)
MergesTo(w, k, f) ==
  f = [n \in 0 .. k |-> IF n = 0 THEN << >> ELSE Coalesce(f[n - 1], w[n])]

LEMMA MergesExists ==
  ASSUME NEW w, NEW k \in Nat
  PROVE  \E f : MergesTo(w, k, f)
<1> DEFINE S == {n \in Nat : \E f : MergesTo(w, n, f)}
<1>1. 0 \in S
  <2>1. MergesTo(w, 0, [n \in 0 .. 0 |-> << >>])
    BY DEF MergesTo
  <2> QED
    BY <2>1
<1>2. ASSUME NEW n \in Nat, n \in S PROVE n + 1 \in S
  <2>1. PICK f : MergesTo(w, n, f)
    BY <1>2
  <2> DEFINE g == [i \in 0 .. (n + 1) |-> IF i = n + 1 THEN Coalesce(f[n], w[n + 1]) ELSE f[i]]
  <2>2. ASSUME NEW i \in 0 .. (n + 1)
        PROVE  g[i] = IF i = 0 THEN << >> ELSE Coalesce(g[i - 1], w[i])
    <3>1. CASE i = n + 1
      <4>1. (n + 1) - 1 = n /\ n \in 0 .. (n + 1) /\ n # n + 1 /\ i # 0
        BY <3>1
      <4> QED
        BY <3>1, <4>1
    <3>2. CASE i # n + 1
      <4>1. i \in 0 .. n /\ g[i] = f[i] /\ (i # 0 => i - 1 \in 0 .. n /\ g[i - 1] = f[i - 1])
        BY <3>2
      <4>2. f[i] = IF i = 0 THEN << >> ELSE Coalesce(f[i - 1], w[i])
        BY <2>1, <4>1 DEF MergesTo
      <4> HIDE DEF g
      <4> QED
        BY <4>1, <4>2
    <3> QED
      BY <3>1, <3>2
  <2>3. g = [i \in 0 .. (n + 1) |-> g[i]]
    OBVIOUS
  <2> HIDE DEF g
  <2>4. MergesTo(w, n + 1, g)
    BY <2>2, <2>3 DEF MergesTo
  <2> QED
    BY <2>4
<1> HIDE DEF S
<1>3. k \in S
  BY <1>1, <1>2, CountUp
<1> QED
  BY <1>3 DEF S

(* A sorted list is merged into one with gaps that covers the same.        *)
LEMMA MergedExact ==
  ASSUME NEW w, Spanned(w), Rising(w)
  PROVE  Merging(w, Len(w), Merged(w))
<1>1. PICK k \in Nat : k = Len(w)
  BY DEF Spanned
<1>2. PICK f : f = CHOOSE g : MergesTo(w, k, g)
  OBVIOUS
<1>3. MergesTo(w, k, f)
  BY <1>2, MergesExists, Zenon
<1>4. Merged(w) = f[k]
  BY <1>1, <1>2, Zenon DEF Merged, MergesTo
<1>5. /\ f[0] = << >>
      /\ \A n \in Nat : n + 1 <= k => f[n + 1] = Coalesce(f[n], w[n + 1])
  <2>1. PICK h : h = [n \in 0 .. k |-> IF n = 0 THEN << >> ELSE Coalesce(f[n - 1], w[n])]
    OBVIOUS
  <2>2. f = h
    BY <1>3, <2>1, Zenon DEF MergesTo
  <2>3. h[0] = << >>
    BY <2>1
  <2>4. ASSUME NEW n \in Nat, n + 1 <= k PROVE h[n + 1] = Coalesce(f[n], w[n + 1])
    <3>1. n + 1 \in 0 .. k /\ n + 1 # 0 /\ (n + 1) - 1 = n
      BY <2>4
    <3> QED
      BY <2>1, <3>1
  <2> QED
    BY <2>2, <2>3, <2>4
<1> DEFINE S == {n \in Nat : n <= k => Merging(w, n, f[n])}
<1>6. 0 \in S
  <2>1. Len(<< >>) = 0 /\ << >> \in Seq(SpanSet)
    OBVIOUS
  <2>2. Spanned(<< >>) /\ Apart(<< >>)
    BY <2>1 DEF Spanned, Apart
  <2>3. \A x \in Nat : Covers(<< >>, Len(<< >>), x) <=> Covers(w, 0, x)
    BY <2>1 DEF Covers
  <2>4. Merging(w, 0, << >>)
    BY <2>2, <2>3 DEF Merging
  <2> QED
    BY <1>5, <2>4
<1>7. ASSUME NEW n \in Nat, n \in S PROVE n + 1 \in S
  <2>1. SUFFICES ASSUME n + 1 <= k PROVE Merging(w, n + 1, f[n + 1])
    OBVIOUS
  <2>2. Merging(w, n, f[n])
    BY <1>7, <2>1
  <2>3. Merging(w, n + 1, Coalesce(f[n], w[n + 1]))
    BY <1>1, <2>1, <2>2, MergeRound
  <2> QED
    BY <1>5, <2>1, <2>3
<1> HIDE DEF S
<1>8. k \in S
  BY <1>6, <1>7, CountUp
<1> QED
  BY <1>1, <1>4, <1>8 DEF S

(* std::sort: the places are a permutation that puts Ahead first.          *)
Ahead(w, j, i) == SpanLess(w[j], w[i]) \/ (w[j] = w[i] /\ j < i)

InFront(w, i) == {j \in DOMAIN w : Ahead(w, j, i)}

PlaceOf(w, i) == 1 + Cardinality(InFront(w, i))

LEMMA AheadOrder ==
  ASSUME NEW w, Spanned(w)
  PROVE  /\ \A i \in 1 .. Len(w) : ~Ahead(w, i, i)
         /\ \A i, j, k \in 1 .. Len(w) : Ahead(w, i, j) /\ Ahead(w, j, k) => Ahead(w, i, k)
         /\ \A i, j \in 1 .. Len(w) : i = j \/ Ahead(w, i, j) \/ Ahead(w, j, i)
         /\ \A i, j \in 1 .. Len(w) : Ahead(w, i, j) => w[i][1] <= w[j][1]
<1>1. \A i \in 1 .. Len(w) : i \in Nat /\ w[i][1] \in Nat /\ w[i][2] \in Nat
                             /\ w[i] = << w[i][1], w[i][2] >>
  <2>1. Len(w) \in Nat
    BY DEF Spanned
  <2> QED
    BY <2>1, SpanAt
<1>2. \A i \in 1 .. Len(w) : ~Ahead(w, i, i)
  BY <1>1 DEF Ahead, SpanLess
<1>3. ASSUME NEW i \in 1 .. Len(w), NEW j \in 1 .. Len(w), NEW k \in 1 .. Len(w),
             Ahead(w, i, j), Ahead(w, j, k)
      PROVE  Ahead(w, i, k)
  BY <1>1, <1>3 DEF Ahead, SpanLess
<1>4. ASSUME NEW i \in 1 .. Len(w), NEW j \in 1 .. Len(w)
      PROVE  i = j \/ Ahead(w, i, j) \/ Ahead(w, j, i)
  <2>1. PICK a \in Nat, b \in Nat, c \in Nat, d \in Nat :
           a = w[i][1] /\ b = w[i][2] /\ c = w[j][1] /\ d = w[j][2]
    BY <1>1
  <2>2. w[i] = << a, b >> /\ w[j] = << c, d >> /\ i \in Nat /\ j \in Nat
    BY <1>1, <2>1
  <2>3. a < c \/ c < a \/ (a = c /\ (b < d \/ d < b \/ b = d))
    OBVIOUS
  <2>4. i < j \/ j < i \/ i = j
    BY <2>2
  <2>5. (a = c /\ b = d => w[i] = w[j])
    BY <2>2
  <2> QED
    BY <2>1, <2>3, <2>4, <2>5 DEF Ahead, SpanLess
<1>5. ASSUME NEW i \in 1 .. Len(w), NEW j \in 1 .. Len(w), Ahead(w, i, j)
      PROVE  w[i][1] <= w[j][1]
  BY <1>1, <1>5 DEF Ahead, SpanLess
<1> QED
  BY <1>2, <1>3, <1>4, <1>5

LEMMA PlaceOrder ==
  ASSUME NEW w, Spanned(w)
  PROVE  /\ \A i \in 1 .. Len(w) : PlaceOf(w, i) \in 1 .. Len(w)
         /\ \A i, j \in 1 .. Len(w) : Ahead(w, j, i) => PlaceOf(w, j) < PlaceOf(w, i)
<1>1. PICK n, D : n = Len(w) /\ D = 1 .. n
  OBVIOUS
<1>2. n \in Nat /\ DOMAIN w = D
  BY <1>1 DEF Spanned
<1>3. IsFiniteSet(D) /\ Cardinality(D) = n
  <2>1. 1 \in Int /\ n \in Int
    BY <1>2
  <2>2. IsFiniteSet(1 .. n) /\ Cardinality(1 .. n) = IF 1 > n THEN 0 ELSE n - 1 + 1
    BY <2>1, FS_Interval
  <2>3. (IF 1 > n THEN 0 ELSE n - 1 + 1) = n
    BY <1>2
  <2> QED
    BY <1>1, <2>2, <2>3, Zenon
<1>4. ASSUME NEW i \in D
      PROVE  /\ InFront(w, i) \in SUBSET D /\ i \notin InFront(w, i)
             /\ IsFiniteSet(InFront(w, i)) /\ Cardinality(InFront(w, i)) \in Nat
             /\ Cardinality(InFront(w, i)) < n
  <2>1. InFront(w, i) \in SUBSET D /\ i \notin InFront(w, i)
    BY <1>1, <1>2, AheadOrder DEF InFront
  <2>2. PICK A : A = InFront(w, i)
    OBVIOUS
  <2>3. A \in SUBSET D /\ A # D
    BY <2>1, <2>2
  <2>4. IsFiniteSet(A) /\ Cardinality(A) <= Cardinality(D) /\ Cardinality(A) # Cardinality(D)
    BY <1>3, <2>3, FS_Subset
  <2>5. Cardinality(A) \in Nat
    BY <2>4, FS_CardinalityType
  <2>6. Cardinality(A) < n
    BY <1>2, <1>3, <2>4, <2>5
  <2> QED
    BY <2>1, <2>2, <2>4, <2>5, <2>6
<1>5. ASSUME NEW i \in D PROVE PlaceOf(w, i) \in D
  BY <1>1, <1>2, <1>4 DEF PlaceOf
<1>6. ASSUME NEW i \in D, NEW j \in D, Ahead(w, j, i) PROVE PlaceOf(w, j) < PlaceOf(w, i)
  <2>1. PICK A, B : A = InFront(w, j) /\ B = InFront(w, i)
    OBVIOUS
  <2>2. A \in SUBSET B
    BY <1>1, <1>2, <1>6, <2>1, AheadOrder DEF InFront
  <2>3. j \in B /\ j \notin A
    BY <1>2, <1>4, <1>6, <2>1 DEF InFront
  <2>4. IsFiniteSet(B) /\ Cardinality(A) \in Nat /\ Cardinality(B) \in Nat
    BY <1>4, <2>1
  <2>5. Cardinality(A) <= Cardinality(B) /\ Cardinality(A) # Cardinality(B)
    BY <2>2, <2>3, <2>4, FS_Subset
  <2> QED
    BY <2>1, <2>4, <2>5 DEF PlaceOf
<1> QED
  BY <1>1, <1>5, <1>6

(* Sorting permutes the list, in order of the begins.                      *)
Permutes(w, g) ==
  /\ g \in [1 .. Len(w) -> 1 .. Len(w)]
  /\ \A i \in 1 .. Len(w) : \E p \in 1 .. Len(w) : g[p] = i
  /\ \A p, q \in 1 .. Len(w) : p < q => w[g[p]][1] <= w[g[q]][1]

LEMMA SortExists ==
  ASSUME NEW w, Spanned(w)
  PROVE  \E g : Permutes(w, g) /\ Sorted(w) = [p \in 1 .. Len(w) |-> w[g[p]]]
<1>1. PICK n, D : n = Len(w) /\ D = 1 .. n
  OBVIOUS
<1>2. n \in Nat /\ DOMAIN w = D
  BY <1>1 DEF Spanned
<1>3. /\ \A i \in D : PlaceOf(w, i) \in D
      /\ \A i, j \in D : Ahead(w, j, i) => PlaceOf(w, j) < PlaceOf(w, i)
  BY <1>1, PlaceOrder
<1>4. \A i, j \in D : PlaceOf(w, i) = PlaceOf(w, j) => i = j
  <2>1. SUFFICES ASSUME NEW i \in D, NEW j \in D, PlaceOf(w, i) = PlaceOf(w, j), i # j
                 PROVE  FALSE
    OBVIOUS
  <2>2. Ahead(w, i, j) \/ Ahead(w, j, i)
    BY <1>1, <2>1, AheadOrder
  <2>3. PlaceOf(w, i) \in Nat
    BY <1>1, <1>2, <1>3
  <2> QED
    BY <1>3, <2>1, <2>2, <2>3
<1>5. PICK f : f = [i \in D |-> PlaceOf(w, i)]
  OBVIOUS
<1>6. f \in Injection(D, D)
  <2>1. f \in [D -> D] /\ \A a, b \in D : f[a] = f[b] => a = b
    BY <1>3, <1>4, <1>5
  <2> QED
    BY <2>1 DEF Injection, IsInjective
<1>7. IsFiniteSet(D)
  BY <1>1, <1>2, FS_Interval
<1>8. f \in Surjection(D, D)
  BY <1>6, <1>7, FS_Injection
<1>9. \A p \in D : \E i \in D : PlaceOf(w, i) = p
  <2>1. \A p \in D : \E i \in D : f[i] = p
    BY <1>8 DEF Surjection
  <2> QED
    BY <1>5, <2>1
<1>10. PICK g : g = [p \in D |-> CHOOSE i \in D : PlaceOf(w, i) = p]
  OBVIOUS
<1>11. \A p \in D : g[p] \in D /\ PlaceOf(w, g[p]) = p
  BY <1>9, <1>10
<1>12. Sorted(w) = [p \in D |-> w[g[p]]]
  <2>1. Sorted(w) = [p \in DOMAIN w |-> w[CHOOSE i \in DOMAIN w : PlaceOf(w, i) = p]]
    BY DEF Sorted, PlaceOf, InFront, Ahead
  <2>2. \A p \in D : g[p] = CHOOSE i \in D : PlaceOf(w, i) = p
    BY <1>10
  <2> QED
    BY <1>2, <2>1, <2>2
<1>13. g \in [D -> D]
  BY <1>10, <1>11
<1>14. \A i \in D : \E p \in D : g[p] = i
  BY <1>3, <1>4, <1>11
<1>15. ASSUME NEW p \in D, NEW q \in D, p < q PROVE w[g[p]][1] <= w[g[q]][1]
  <2>1. g[p] \in D /\ g[q] \in D /\ PlaceOf(w, g[p]) = p /\ PlaceOf(w, g[q]) = q
    BY <1>11
  <2>2. p # q /\ ~(q < p)
    BY <1>1, <1>2, <1>15
  <2>3. g[p] # g[q] /\ ~Ahead(w, g[q], g[p])
    BY <1>3, <2>1, <2>2
  <2> QED
    BY <1>1, <2>1, <2>3, AheadOrder
<1> QED
  BY <1>1, <1>12, <1>13, <1>14, <1>15 DEF Permutes

LEMMA SortedExact ==
  ASSUME NEW w, Spanned(w)
  PROVE  /\ Spanned(Sorted(w)) /\ Rising(Sorted(w))
         /\ \A x \in Nat : Covers(Sorted(w), Len(Sorted(w)), x) <=> Covers(w, Len(w), x)
<1>1. PICK n \in Nat : n = Len(w)
  BY DEF Spanned
<1>2. PICK g : Permutes(w, g) /\ Sorted(w) = [p \in 1 .. Len(w) |-> w[g[p]]]
  BY SortExists
<1>3. PICK r : r = Sorted(w)
  OBVIOUS
<1>4. /\ g \in [1 .. n -> 1 .. n]
      /\ \A i \in 1 .. n : \E p \in 1 .. n : g[p] = i
      /\ \A p, q \in 1 .. n : p < q => w[g[p]][1] <= w[g[q]][1]
  <2>1. Permutes(w, g)
    BY <1>2
  <2> QED
    BY <1>1, <2>1 DEF Permutes
<1>5. \A i \in 1 .. n : w[i] \in SpanSet /\ w[i][1] < w[i][2]
  BY <1>1 DEF Spanned
<1>6. r = [p \in 1 .. n |-> w[g[p]]]
  BY <1>1, <1>2, <1>3
<1>7. \A p \in 1 .. n : r[p] = w[g[p]] /\ g[p] \in 1 .. n
  BY <1>4, <1>6
<1>8. r \in Seq(SpanSet) /\ Len(r) = n
  <2>1. r \in [1 .. n -> SpanSet]
    BY <1>5, <1>6, <1>7
  <2>2. r \in Seq(SpanSet)
    BY <2>1, SeqDef
  <2>3. Len(r) \in Nat /\ DOMAIN r = 1 .. Len(r) /\ DOMAIN r = 1 .. n
    <3>1. DOMAIN r = 1 .. n
      BY <1>6
    <3>2. Len(r) \in Nat /\ DOMAIN r = 1 .. Len(r)
      BY <2>2, LenProperties
    <3> QED
      BY <3>1, <3>2
  <2>4. Len(r) = n
    <3>1. PICK a \in Nat : a = Len(r)
      BY <2>3
    <3>2. \A i : i \in 1 .. a <=> i \in 1 .. n
      BY <2>3, <3>1
    <3>3. ~(a < n) /\ ~(n < a)
      <4>1. a < n => a + 1 \in 1 .. n
        OBVIOUS
      <4>2. n < a => n + 1 \in 1 .. a
        OBVIOUS
      <4> QED
        BY <3>2, <4>1, <4>2
    <3>4. a = n
      BY <3>3
    <3> QED
      BY <3>1, <3>4
  <2> QED
    BY <2>2, <2>4
<1>9. Spanned(r) /\ Rising(r)
  <2>1. ASSUME NEW p \in 1 .. n PROVE r[p][1] < r[p][2]
    BY <1>5, <1>7
  <2>2. ASSUME NEW p \in 1 .. n, NEW q \in 1 .. n, p < q PROVE r[p][1] <= r[q][1]
    BY <1>4, <1>7, <2>2
  <2> QED
    BY <1>8, <2>1, <2>2 DEF Spanned, Rising
<1>10. ASSUME NEW x \in Nat PROVE Covers(r, n, x) <=> Covers(w, n, x)
  <2>1. ASSUME NEW i \in 1 .. n, w[i][1] <= x, x < w[i][2]
        PROVE  \E p \in 1 .. n : r[p][1] <= x /\ x < r[p][2]
    <3>1. PICK p \in 1 .. n : g[p] = i
      BY <1>4
    <3> QED
      BY <1>7, <2>1, <3>1
  <2> QED
    BY <1>7, <2>1 DEF Covers
<1> QED
  BY <1>1, <1>3, <1>8, <1>9, <1>10

(* add_range keeps a list with gaps, and adds the offsets of the span.     *)
LEMMA AddExact ==
  ASSUME NEW w, Spanned(w), Apart(w), NEW b \in Offsets, NEW e \in Offsets
  PROVE  /\ Spanned(ListAddRange(w, b, e)) /\ Apart(ListAddRange(w, b, e))
         /\ \A x \in Nat : Covers(ListAddRange(w, b, e), Len(ListAddRange(w, b, e)), x)
                            <=> Covers(w, Len(w), x) \/ (b <= x /\ x < e)
<1>0. b \in Nat /\ e \in Nat
  BY CoverageAssumption
<1>1. CASE e <= b
  <2>1. ListAddRange(w, b, e) = w
    BY <1>1 DEF ListAddRange
  <2>2. \A x \in Nat : ~(b <= x /\ x < e)
    BY <1>0, <1>1
  <2> QED
    BY <2>1, <2>2
<1>2. CASE b < e
  <2>1. PICK k \in Nat : k = Len(w)
    BY DEF Spanned
  <2>2. PICK a : a = Append(w, << b, e >>)
    OBVIOUS
  <2>3. << b, e >> \in SpanSet /\ w \in Seq(SpanSet)
    BY DEF SpanSet, Spanned
  <2>4. /\ a \in Seq(SpanSet) /\ Len(a) = k + 1 /\ a[k + 1] = << b, e >>
        /\ \A i \in 1 .. k : a[i] = w[i]
    BY <2>1, <2>2, <2>3
  <2>5. \A i : i \in 1 .. (k + 1) <=> i \in 1 .. k \/ i = k + 1
    OBVIOUS
  <2>6. Spanned(a)
    BY <1>2, <2>1, <2>4, <2>5 DEF Spanned
  <2>7. ASSUME NEW x \in Nat
        PROVE  Covers(a, Len(a), x) <=> Covers(w, k, x) \/ (b <= x /\ x < e)
    BY <2>4, <2>5 DEF Covers
  <2>8. PICK s : s = Sorted(a)
    OBVIOUS
  <2>9. /\ Spanned(s) /\ Rising(s)
        /\ \A x \in Nat : Covers(s, Len(s), x) <=> Covers(a, Len(a), x)
    BY <2>6, <2>8, SortedExact
  <2>10. PICK m : m = Merged(s)
    OBVIOUS
  <2>11. Merging(s, Len(s), m)
    BY <2>9, <2>10, MergedExact
  <2>12. ListAddRange(w, b, e) = m
    BY <1>0, <1>2, <2>2, <2>8, <2>10 DEF ListAddRange
  <2> QED
    BY <2>1, <2>7, <2>9, <2>11, <2>12 DEF Merging
<1> QED
  BY <1>0, <1>1, <1>2

(* ---- The list and the set, step by step.                           ---- *)
ListExact(w, v) ==
  /\ w \in Seq(SpanSet) /\ v \subseteq Offsets
  /\ v = UNION { w[i][1] .. (w[i][2] - 1) : i \in DOMAIN w }
  /\ \A i \in DOMAIN w : w[i][1] < w[i][2]
  /\ \A i, j \in DOMAIN w : i < j => w[i][2] < w[j][1]

ListHolds(w, v) ==
  /\ v \subseteq Offsets /\ Spanned(w) /\ Apart(w)
  /\ \A x \in Nat : x \in v <=> Covers(w, Len(w), x)

LEMMA ExactHolds ==
  ASSUME NEW w, NEW v
  PROVE  ListExact(w, v) <=> ListHolds(w, v)
<1>1. SUFFICES ASSUME w \in Seq(SpanSet), v \subseteq Offsets
               PROVE  ListExact(w, v) <=> ListHolds(w, v)
  BY DEF ListExact, ListHolds, Spanned
<1>2. PICK k \in Nat : k = Len(w)
  BY <1>1
<1>3. DOMAIN w = 1 .. k
  BY <1>1, <1>2
<1>4. \A i \in 1 .. k : w[i][1] \in Nat /\ w[i][2] \in Nat
  BY <1>1, <1>2, CoverageAssumption DEF SpanSet
<1>5. v \subseteq Nat
  BY <1>1, CoverageAssumption
<1>6. \A i \in 1 .. k : \A x :
         x \in w[i][1] .. (w[i][2] - 1) <=> x \in Nat /\ w[i][1] <= x /\ x < w[i][2]
  BY <1>4
<1>7. v = UNION { w[i][1] .. (w[i][2] - 1) : i \in DOMAIN w }
      <=> \A x \in Nat : x \in v <=> Covers(w, k, x)
  <2>1. PICK U : U = UNION { w[i][1] .. (w[i][2] - 1) : i \in DOMAIN w }
    OBVIOUS
  <2>2. \A x : x \in U <=> \E i \in 1 .. k : x \in w[i][1] .. (w[i][2] - 1)
    BY <1>3, <2>1
  <2>3. \A x : x \in U <=> x \in Nat /\ Covers(w, k, x)
    BY <1>6, <2>2 DEF Covers
  <2>4. v = U <=> \A x \in Nat : x \in v <=> Covers(w, k, x)
    BY <1>5, <2>3
  <2> QED
    BY <2>1, <2>4
<1>8. Spanned(w) <=> \A i \in DOMAIN w : w[i][1] < w[i][2]
  BY <1>1, <1>2, <1>3 DEF Spanned
<1>9. Apart(w) <=> \A i, j \in DOMAIN w : i < j => w[i][2] < w[j][1]
  BY <1>2, <1>3 DEF Apart
<1> QED
  BY <1>1, <1>2, <1>7, <1>8, <1>9 DEF ListExact, ListHolds

(* One span that starts at 0 and reaches the length: what is_complete asks *)
(* of the list is what the set says.                                       *)
LEMMA CompleteOfHolds ==
  ASSUME NEW w, NEW v, ListHolds(w, v), NEW n \in 1 .. OffMax
  PROVE  ListReaches(w, n) <=> OneSpanReaches(v, n)
<1>0. n \in Nat /\ n # 0 /\ OffMax \in Nat
  BY CoverageAssumption
<1>1. PICK k \in Nat : k = Len(w)
  BY DEF ListHolds, Spanned
<1>2. \A i \in 1 .. k : w[i][1] \in Nat /\ w[i][2] \in Nat /\ w[i][1] < w[i][2]
                        /\ w[i][1] \in Offsets /\ w[i][2] \in Offsets
  BY <1>1, SpanAt DEF ListHolds
<1>3. /\ \A i, j \in 1 .. k : i < j => w[i][2] < w[j][1]
      /\ v \subseteq Nat
      /\ \A x \in Nat : x \in v <=> \E i \in 1 .. k : w[i][1] <= x /\ x < w[i][2]
  BY <1>1, CoverageAssumption DEF ListHolds, Apart, Covers
<1>4. ASSUME ListReaches(w, n) PROVE OneSpanReaches(v, n)
  <2>1. PICK m : m = w[1][2]
    OBVIOUS
  <2>2. k = 1 /\ w[1][1] = 0 /\ m >= n /\ 1 \in 1 .. k
    BY <1>1, <1>4, <2>1 DEF ListReaches
  <2>3. m \in Nat /\ m \in 1 .. OffMax
    <3>1. m \in Offsets
      BY <1>2, <2>1, <2>2
    <3>2. m \in Nat /\ m <= OffMax
      BY <1>0, <3>1
    <3>3. m >= 1
      BY <1>0, <2>2, <3>2
    <3> QED
      BY <1>0, <3>2, <3>3
  <2>4. \A x \in Nat : x \in v <=> x < m
    BY <1>3, <2>1, <2>2
  <2>5. v = 0 .. (m - 1)
    <3>1. \A x : x \in v <=> x \in Nat /\ x < m
      BY <1>3, <2>4
    <3>2. \A x : x \in 0 .. (m - 1) <=> x \in Nat /\ x < m
      BY <2>3
    <3> QED
      BY <3>1, <3>2
  <2> QED
    BY <2>2, <2>3, <2>5 DEF OneSpanReaches
<1>5. ASSUME OneSpanReaches(v, n) PROVE ListReaches(w, n)
  <2>1. PICK m \in 1 .. OffMax : m >= n /\ v = 0 .. (m - 1)
    BY <1>5 DEF OneSpanReaches
  <2>2. m \in Nat /\ m # 0 /\ \A x \in Nat : x \in v <=> x < m
    BY <1>0, <2>1
  <2>3. PICK i \in 1 .. k : w[i][1] <= 0 /\ 0 < w[i][2]
    BY <1>3, <2>2
  <2>4. PICK e \in Nat : e = w[i][2]
    BY <1>2, <2>3
  <2>5. w[i][1] = 0 /\ 0 < e
    BY <1>2, <2>3, <2>4
  <2>6. \A j \in 1 .. k : i < j => e < w[j][1]
    BY <1>3, <2>3, <2>4
  <2>7. \A j \in 1 .. k : ~(j < i)
    BY <1>2, <1>3, <2>3, <2>5
  <2>8. e \notin v
    <3>1. ASSUME NEW j \in 1 .. k, w[j][1] <= e, e < w[j][2] PROVE FALSE
      <4>1. j = i \/ i < j
        BY <1>1, <2>3, <2>7, <3>1
      <4> QED
        BY <1>2, <2>4, <2>6, <3>1, <4>1
    <3> QED
      BY <1>3, <2>4, <3>1
  <2>9. e >= m
    BY <2>2, <2>4, <2>8
  <2>10. \A j \in 1 .. k : j = i
    <3>1. SUFFICES ASSUME NEW j \in 1 .. k, i < j PROVE FALSE
      BY <1>1, <2>3, <2>7
    <3>2. w[j][1] \in Nat /\ w[j][1] < w[j][2]
      BY <1>2
    <3>3. w[j][1] \in v
      BY <1>3, <3>2
    <3> QED
      BY <2>2, <2>4, <2>6, <2>9, <3>1, <3>2, <3>3
  <2>11. k = 1 /\ i = 1
    <3>1. 1 \in 1 .. k /\ k \in 1 .. k
      BY <1>1, <2>3
    <3> QED
      BY <2>10, <3>1
  <2>12. e >= n
    BY <1>0, <2>1, <2>2, <2>4, <2>9
  <2> QED
    BY <1>1, <2>4, <2>5, <2>11, <2>12 DEF ListReaches
<1> QED
  BY <1>4, <1>5

(* The inductive invariant.                                                *)
SpansInv == SpansTypeOK /\ SpansExact

LEMMA SpansHold ==
  /\ SpansInv <=> ListHolds(ranges, filled)
  /\ SpansInv' <=> ListHolds(ranges', filled')
<1>1. SpansInv <=> ListExact(ranges, filled)
  BY DEF SpansInv, SpansTypeOK, SpansExact, ListExact, SpanSet
<1>2. SpansInv' <=> ListExact(ranges', filled')
  BY DEF SpansInv, SpansTypeOK, SpansExact, ListExact, SpanSet
<1> QED
  BY <1>1, <1>2, ExactHolds

LEMMA SpansStart == InitSpans => SpansInv
<1>1. SUFFICES ASSUME ranges = << >>, filled = {} PROVE ListHolds(ranges, filled)
  BY SpansHold DEF InitSpans
<1>2. Len(<< >>) = 0 /\ << >> \in Seq(SpanSet)
  OBVIOUS
<1>3. Spanned(ranges) /\ Apart(ranges)
  BY <1>1, <1>2 DEF Spanned, Apart
<1>4. \A x \in Nat : x \in filled <=> Covers(ranges, Len(ranges), x)
  BY <1>1, <1>2 DEF Covers
<1> QED
  BY <1>1, <1>3, <1>4 DEF ListHolds

LEMMA SpansStep == SpansInv /\ [NextSpans]_spanvars => SpansInv'
<1>1. SUFFICES ASSUME SpansInv, [NextSpans]_spanvars PROVE SpansInv'
  OBVIOUS
<1>2. CASE UNCHANGED spanvars
  BY <1>1, <1>2 DEF spanvars, SpansInv, SpansTypeOK, SpansExact
<1>3. CASE NextSpans
  <2>1. PICK b \in Offsets, e \in Offsets : Place(b, e)
    BY <1>3 DEF NextSpans
  <2>2. PICK w, v, r, u : w = ranges /\ v = filled /\ r = ranges' /\ u = filled'
    OBVIOUS
  <2>3. /\ v \subseteq Offsets /\ Spanned(w) /\ Apart(w)
        /\ \A x \in Nat : x \in v <=> Covers(w, Len(w), x)
    BY <1>1, <2>2, SpansHold DEF ListHolds
  <2>4. r = ListAddRange(w, b, e) /\ u = add_range(v, b, e)
    BY <2>1, <2>2 DEF Place
  <2>5. /\ Spanned(r) /\ Apart(r)
        /\ \A x \in Nat : Covers(r, Len(r), x) <=> Covers(w, Len(w), x) \/ (b <= x /\ x < e)
    BY <2>3, <2>4, AddExact
  <2>6. b \in Nat /\ e \in Nat /\ e <= OffMax /\ OffMax \in Nat
    BY CoverageAssumption
  <2>7. u = v \cup (b .. (e - 1))
    BY <2>4 DEF add_range
  <2>8. u \subseteq Offsets
    BY <2>3, <2>6, <2>7
  <2>9. \A x \in Nat : x \in u <=> Covers(r, Len(r), x)
    BY <2>3, <2>5, <2>6, <2>7
  <2>10. ListHolds(r, u)
    BY <2>5, <2>8, <2>9 DEF ListHolds
  <2> QED
    BY <2>2, <2>10, SpansHold
<1> QED
  BY <1>1, <1>2, <1>3

(***************************************************************************)
(* Whatever spans add_range is given and in whatever order, its list is    *)
(* the ascending list of spans, with a gap between any two, of exactly the *)
(* offsets placed, and is_complete's look at the list answers what the set *)
(* of offsets says.  For every OffMax.                                     *)
(***************************************************************************)
THEOREM ListMatchesSetAlways ==
  InitSpans /\ [][NextSpans]_spanvars => []ListMatchesSet
<1>1. SpansInv => ListMatchesSet
  <2>1. SUFFICES ASSUME SpansInv PROVE CompleteAgrees
    BY DEF SpansInv, ListMatchesSet
  <2>2. ListHolds(ranges, filled)
    BY <2>1, SpansHold
  <2> QED
    BY <2>2, CompleteOfHolds DEF CompleteAgrees
<1> QED
  BY <1>1, SpansStart, SpansStep, PTL
=============================================================================
