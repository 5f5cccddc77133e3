-------------------------- MODULE Fragments_proofs --------------------------
(***************************************************************************)
(* What a DATA frame does to a partial message, proved for every width of  *)
(* the offsets and every frame: placing the fragment keeps the partial     *)
(* exact, and what is_complete accepts can be emitted.                     *)
(***************************************************************************)
EXTENDS Fragments, TLAPS

USE DEF Offsets

-----------------------------------------------------------------------------
(* Where a fragment lands: its ends are offsets, and the payload byte that *)
(* goes to cell i + 1 is the message's byte i.                             *)
LEMMA Landing ==
  ASSUME NEW f \in Frames
  PROVE  /\ DataFrame(f)
         /\ Begin(f) \in Offsets /\ End(f) \in Offsets
         /\ Begin(f) <= End(f) /\ End(f) <= Begin(f) + f.len
         /\ f.len \in Nat
         /\ Begin(f) = f.frag_offset
         /\ End(f) = OffMax \/ End(f) = Begin(f) + f.len
<1>1. DataFrame(f) /\ (~f.frag => f.frag_offset = 0)
  BY FragmentsAssumption
<1>2. f.frag_offset \in Offsets /\ f.len \in Nat
  BY <1>1 DEF DataFrame
<1>3. Begin(f) = f.frag_offset
  BY <1>1 DEF Begin
<1> QED
  BY <1>1, <1>2, <1>3, CoverageAssumption DEF End

LEMMA PlacedCells ==
  ASSUME NEW f \in Frames, NEW e \in 0 .. MaxResets, NEW b \in Buffers,
         Len(b) \in Offsets
  PROVE  /\ Placed(b, f, e) \in Buffers
         /\ Len(Placed(b, f, e)) = Bigger(Len(b), End(f))
         /\ \A j \in 0 .. (Bigger(Len(b), End(f)) - 1) :
              Placed(b, f, e)[j + 1] =
                IF Begin(f) <= j /\ j < End(f)
                  THEN << f.stream_id, f.msg_id, e, j >>
                  ELSE IF j < Len(b) THEN b[j + 1] ELSE Zero
<1> DEFINE n == Bigger(Len(b), End(f))
           c(i) == IF Begin(f) < i /\ i <= Begin(f) + f.len
                     THEN PayloadByte(f, e, i - 1 - Begin(f))
                     ELSE IF i <= Len(b) THEN b[i] ELSE Zero
<1>1. n \in Offsets /\ n >= Len(b) /\ n >= End(f)
  BY Landing, CoverageAssumption DEF Bigger
<1>2. \A i \in 1 .. n : PayloadByte(f, e, i - 1 - Begin(f))
                          = << f.stream_id, f.msg_id, e, i - 1 >>
  BY <1>1, Landing, CoverageAssumption DEF PayloadByte
<1>3. \A i \in 1 .. n : << f.stream_id, f.msg_id, e, i - 1 >> \in Bytes
  BY <1>1, Landing, CoverageAssumption DEF Bytes, DataFrame
<1>4. \A i \in 1 .. n : c(i) \in Bytes \cup {Zero}
  BY <1>1, <1>2, <1>3, CoverageAssumption DEF Buffers
<1>5. Placed(b, f, e) = [i \in 1 .. n |-> c(i)]
  BY DEF Placed
<1> HIDE DEF c, n
<1>6. Placed(b, f, e) \in [1 .. n -> Bytes \cup {Zero}]
  BY <1>4, <1>5
<1>7. Placed(b, f, e) \in Buffers /\ Len(Placed(b, f, e)) = n
  BY <1>1, <1>6, CoverageAssumption DEF Buffers
<1>8. ASSUME NEW j \in 0 .. (n - 1)
      PROVE  Placed(b, f, e)[j + 1] =
                IF Begin(f) <= j /\ j < End(f)
                  THEN << f.stream_id, f.msg_id, e, j >>
                  ELSE IF j < Len(b) THEN b[j + 1] ELSE Zero
  <2>1. j + 1 \in 1 .. n /\ (j + 1) - 1 = j
    BY <1>1, CoverageAssumption
  <2>2. Placed(b, f, e)[j + 1] = c(j + 1)
    BY <2>1, <1>5
  <2>3. Begin(f) < j + 1 /\ j + 1 <= Begin(f) + f.len
          <=> Begin(f) <= j /\ j < End(f)
    BY <1>1, Landing, CoverageAssumption
  <2>4. j + 1 <= Len(b) <=> j < Len(b)
    BY CoverageAssumption
  <2> QED
    BY <2>1, <2>2, <2>3, <2>4, <1>2 DEF c
<1> QED
  BY <1>7, <1>8 DEF n

(* The fields of a partial after a fragment.                               *)
LEMMA WithFragmentFields ==
  ASSUME NEW p \in PartialMessage, NEW f \in Frames, NEW e \in 0 .. MaxResets,
         Len(p.buffer) \in Offsets
  PROVE  LET q == WithFragment(p, f, e) IN
         /\ q \in PartialMessage
         /\ q.stream_id = p.stream_id
         /\ q.msg_id = p.msg_id
         /\ q.buffer = Placed(p.buffer, f, e)
         /\ q.ranges = add_range(p.ranges, Begin(f), End(f))
         /\ q.high_water = Bigger(p.high_water, End(f))
         /\ q.total_len = p.total_len \/ q.total_len = q.high_water
         /\ q.total_len = IF f.fin THEN q.high_water ELSE p.total_len
         /\ q.have_fin <=> p.have_fin \/ f.fin
<1> DEFINE high == Bigger(p.high_water, End(f))
           comp == p.compressed \/ f.compressed
           buf  == Placed(p.buffer, f, e)
           rng  == add_range(p.ranges, Begin(f), End(f))
           fin  == p.have_fin \/ f.fin
           tot  == IF f.fin THEN high ELSE p.total_len
<1>1. comp \in BOOLEAN /\ fin \in BOOLEAN
  OBVIOUS
<1>2. high \in Offsets /\ tot \in Offsets /\ (tot = p.total_len \/ tot = high)
  BY Landing, CoverageAssumption DEF PartialMessage, Bigger
<1>3. buf \in Buffers
  BY PlacedCells DEF PartialMessage
<1>4. rng \in SUBSET Offsets
  BY Landing, CoverageAssumption DEF add_range, PartialMessage
<1>5. WithFragment(p, f, e) =
        [p EXCEPT !.compressed = comp, !.buffer = buf, !.ranges = rng,
                  !.high_water = high, !.have_fin = fin, !.total_len = tot]
  BY DEF WithFragment
<1> HIDE DEF high, comp, buf, rng, fin, tot
<1>6. WithFragment(p, f, e) =
        [stream_id |-> p.stream_id, msg_id |-> p.msg_id, buffer |-> buf,
         ranges |-> rng, high_water |-> high, total_len |-> tot,
         have_fin |-> fin, compressed |-> comp]
  BY <1>5 DEF PartialMessage
<1>7. tot = IF f.fin THEN high ELSE p.total_len
  BY DEF tot
<1>8. WithFragment(p, f, e).have_fin <=> p.have_fin \/ f.fin
  <2>1. WithFragment(p, f, e).have_fin = fin
    BY <1>6
  <2> QED
    BY <2>1, Zenon DEF fin
<1> QED
  BY <1>1, <1>2, <1>3, <1>4, <1>6, <1>7, <1>8 DEF PartialMessage, high, buf, rng

(* A fragment of its own message keeps a partial exact.                    *)
LEMMA FragmentExact ==
  ASSUME NEW p \in PartialMessage, NEW f \in Frames, NEW e \in 0 .. MaxResets,
         p.stream_id = f.stream_id, p.msg_id = f.msg_id,
         HoldsWhatItClaims(p, e)
  PROVE  /\ WithFragment(p, f, e) \in PartialMessage
         /\ WithFragment(p, f, e).stream_id = f.stream_id
         /\ WithFragment(p, f, e).msg_id = f.msg_id
         /\ HoldsWhatItClaims(WithFragment(p, f, e), e)
<1> DEFINE q == WithFragment(p, f, e)
           h == Bigger(p.high_water, End(f))
<1>1. Len(p.buffer) = p.high_water /\ p.high_water \in Offsets
      /\ p.buffer \in Buffers /\ p.total_len \in Offsets
      /\ p.total_len <= p.high_water /\ p.ranges \subseteq 0 .. (p.high_water - 1)
  BY DEF HoldsWhatItClaims, PartialMessage
<1>2. /\ q \in PartialMessage
      /\ q.stream_id = f.stream_id /\ q.msg_id = f.msg_id
      /\ q.buffer = Placed(p.buffer, f, e)
      /\ q.ranges = p.ranges \cup (Begin(f) .. (End(f) - 1))
      /\ q.high_water = h
      /\ q.total_len = p.total_len \/ q.total_len = h
  BY <1>1, WithFragmentFields DEF add_range
<1>3. h \in Offsets /\ p.high_water <= h /\ End(f) <= h
  BY <1>1, Landing, CoverageAssumption DEF Bigger
<1>4. Len(q.buffer) = h /\ q.total_len <= h /\ q.ranges \subseteq 0 .. (h - 1)
  <2>1. Len(q.buffer) = h
    <3>1. Len(p.buffer) \in Offsets /\ Bigger(Len(p.buffer), End(f)) = h
      BY <1>1
    <3>2. Len(Placed(p.buffer, f, e)) = Bigger(Len(p.buffer), End(f))
      BY <1>1, <3>1, PlacedCells
    <3> QED
      BY <1>2, <3>1, <3>2
  <2>2. h \in Nat /\ p.high_water \in Nat /\ p.total_len \in Nat
    BY <1>1, <1>3, CoverageAssumption
  <2>3. Begin(f) \in Nat /\ End(f) \in Nat
    BY Landing, CoverageAssumption
  <2>4. q.total_len <= h
    BY <1>1, <1>2, <1>3, <2>2
  <2>5. p.ranges \subseteq 0 .. (h - 1)
    BY <1>1, <1>3, <2>2
  <2>6. Begin(f) .. (End(f) - 1) \subseteq 0 .. (h - 1)
    BY <1>3, <2>2, <2>3
  <2> QED
    BY <1>2, <2>1, <2>4, <2>5, <2>6
<1>5. ASSUME NEW j \in 0 .. (h - 1)
      PROVE  q.buffer[j + 1] = IF j \in q.ranges
                                 THEN << q.stream_id, q.msg_id, e, j >>
                                 ELSE Zero
  <2>1. q.buffer[j + 1] = IF Begin(f) <= j /\ j < End(f)
                            THEN << f.stream_id, f.msg_id, e, j >>
                            ELSE IF j < Len(p.buffer) THEN p.buffer[j + 1] ELSE Zero
    <3>1. Len(p.buffer) \in Offsets /\ Bigger(Len(p.buffer), End(f)) = h
      BY <1>1
    <3>2. \A i \in 0 .. (Bigger(Len(p.buffer), End(f)) - 1) :
            Placed(p.buffer, f, e)[i + 1] =
              IF Begin(f) <= i /\ i < End(f)
                THEN << f.stream_id, f.msg_id, e, i >>
                ELSE IF i < Len(p.buffer) THEN p.buffer[i + 1] ELSE Zero
      BY <1>1, <3>1, PlacedCells
    <3> QED
      BY <1>2, <3>1, <3>2
  <2>2. j \in q.ranges <=> j \in p.ranges \/ (Begin(f) <= j /\ j < End(f))
    BY <1>2, <1>3, Landing, CoverageAssumption
  <2>3. CASE Begin(f) <= j /\ j < End(f)
    BY <2>1, <2>2, <2>3, <1>2
  <2>4. CASE ~(Begin(f) <= j /\ j < End(f)) /\ j < p.high_water
    <3>1. p.buffer[j + 1] = IF j \in p.ranges
                              THEN << p.stream_id, p.msg_id, e, j >> ELSE Zero
      BY <1>1, <2>4, CoverageAssumption DEF HoldsWhatItClaims
    <3> QED
      BY <3>1, <2>1, <2>2, <2>4, <1>1, <1>2
  <2>5. CASE ~(Begin(f) <= j /\ j < End(f)) /\ ~(j < p.high_water)
    <3>1. j \notin p.ranges
      BY <1>1, <2>5, CoverageAssumption
    <3> QED
      BY <3>1, <2>1, <2>2, <2>5, <1>1
  <2> QED
    BY <2>3, <2>4, <2>5
<1> HIDE DEF q, h
<1>6. HoldsWhatItClaims(q, e)
  BY <1>2, <1>4, <1>5 DEF HoldsWhatItClaims
<1> QED
  BY <1>2, <1>6 DEF q

(* A fresh partial claims nothing.                                         *)
LEMMA FreshExact ==
  ASSUME NEW s \in Streams, NEW m \in Msgs, NEW e \in 0 .. MaxResets
  PROVE  LET p == Fresh(<< s, m >>) IN
         /\ p \in PartialMessage
         /\ p.stream_id = s /\ p.msg_id = m
         /\ HoldsWhatItClaims(p, e)
<1> DEFINE p == Fresh(<< s, m >>)
<1>1. p = [stream_id |-> s, msg_id |-> m, buffer |-> << >>,
           ranges |-> {}, high_water |-> 0, total_len |-> 0,
           have_fin |-> FALSE, compressed |-> FALSE]
  BY DEF Fresh
<1>2. << >> \in Buffers /\ Len(<< >>) = 0 /\ 0 \in Offsets
  BY CoverageAssumption DEF Buffers
<1>3. p \in PartialMessage
  <2> DEFINE no == FALSE
             nil == << >>
  <2>1. p = [stream_id |-> s, msg_id |-> m, buffer |-> nil,
             ranges |-> {}, high_water |-> 0, total_len |-> 0,
             have_fin |-> no, compressed |-> no]
    BY <1>1
  <2>2. no \in BOOLEAN /\ nil \in Buffers
    BY <1>2
  <2> HIDE DEF no, nil, p
  <2> QED
    BY <1>2, <2>1, <2>2 DEF PartialMessage
<1>4. HoldsWhatItClaims(p, e)
  BY <1>1, <1>2 DEF HoldsWhatItClaims
<1> QED
  BY <1>1, <1>3, <1>4

(* What is_complete accepts is covered up to its length.                   *)
LEMMA CompleteCovered ==
  ASSUME NEW p \in PartialMessage, is_complete(p)
  PROVE  \A j \in 0 .. (p.total_len - 1) : j \in p.ranges
<1>1. p.total_len \in Nat
  BY CoverageAssumption DEF PartialMessage
<1>2. CASE p.total_len = 0
  BY <1>2
<1>3. CASE OneSpanReaches(p.ranges, p.total_len)
  BY <1>1, <1>3, CoverageAssumption DEF OneSpanReaches
<1> QED
  BY <1>2, <1>3 DEF is_complete

(* The message that is emitted for an exact, complete partial.             *)
LEMMA EmittedExact ==
  ASSUME NEW p \in PartialMessage, NEW f \in Frames, NEW e \in 0 .. MaxResets,
         p.stream_id = f.stream_id, p.msg_id = f.msg_id,
         HoldsWhatItClaims(p, e), is_complete(p)
  PROVE  LET o == Emitted(p, f) IN
         /\ o \in Message
         /\ o.stream_id = f.stream_id /\ o.msg_id = f.msg_id
         /\ \A j \in 0 .. (Len(o.data) - 1) :
              o.data[j + 1] = << o.stream_id, o.msg_id, e, j >>
<1> DEFINE d == [i \in 1 .. p.total_len |-> p.buffer[i]]
<1>1. /\ p.total_len \in Nat /\ p.high_water \in Nat
      /\ p.total_len <= p.high_water
      /\ p.buffer \in Seq(Bytes \cup {Zero}) /\ Len(p.buffer) = p.high_water
      /\ p.compressed \in BOOLEAN
  BY CoverageAssumption DEF PartialMessage, HoldsWhatItClaims, Buffers
<1>2. d \in Buffers /\ Len(d) = p.total_len
  BY <1>1 DEF Buffers
<1>3. ASSUME NEW j \in 0 .. (p.total_len - 1)
      PROVE  d[j + 1] = << f.stream_id, f.msg_id, e, j >>
  <2>1. j \in p.ranges
    BY CompleteCovered
  <2>2. j \in 0 .. (p.high_water - 1) /\ j + 1 \in 1 .. p.total_len
    BY <1>1
  <2>3. p.buffer[j + 1] = << p.stream_id, p.msg_id, e, j >>
    BY <2>1, <2>2 DEF HoldsWhatItClaims
  <2> QED
    BY <2>2, <2>3
<1>4. Emitted(p, f) = [stream_id |-> f.stream_id, msg_id |-> f.msg_id,
                       compressed |-> p.compressed, data |-> d]
  BY DEF Emitted
<1>5. f.stream_id \in Streams /\ f.msg_id \in Msgs
  BY Landing DEF DataFrame
<1> DEFINE o == Emitted(p, f)
           c == p.compressed
<1>6. o = [stream_id |-> f.stream_id, msg_id |-> f.msg_id,
           compressed |-> c, data |-> d]
  BY <1>4
<1>7. c \in BOOLEAN
  BY <1>1
<1> HIDE DEF d, o, c
<1>8. o \in Message
  BY <1>2, <1>5, <1>6, <1>7 DEF Message
<1>9. o.stream_id = f.stream_id /\ o.msg_id = f.msg_id /\ o.data = d
  BY <1>6
<1>10. \A j \in 0 .. (Len(o.data) - 1) :
         o.data[j + 1] = << o.stream_id, o.msg_id, e, j >>
  BY <1>2, <1>3, <1>9
<1> QED
  BY <1>8, <1>9, <1>10 DEF o
=============================================================================
