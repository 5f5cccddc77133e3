------------------------- MODULE FrameReader_proofs -------------------------
(***************************************************************************)
(* FrameReader: what next() finds on a tape, for every set of frames,      *)
(* every noise and every length of the scan window.                        *)
(***************************************************************************)
EXTENDS FrameReader, FiniteSetTheorems, SequenceTheorems, TLAPS

(* Headers as written or damaged, and the symbols a tape can hold.         *)
Headers ==
  [version : {1, 2}, type : Types \cup {"unknown"}, id : Nat,
   has_crc : BOOLEAN, payload_len : Nat]

Tokens ==
  Symbols \cup {Byte("sync1"), Byte("sync2")}
          \cup {Header(h) : h \in Headers} \cup {crc16(h) : h \in Headers}

(* Symbols of a frame in front of its payload, and all of them.            *)
Lead(spec) == 3 + (IF spec.with_crc THEN 1 ELSE 0)

Room(spec) == Lead(spec) + Len(Carried(spec))

LEMMA SpecTypes ==
  ASSUME NEW spec \in Specs
  PROVE  /\ spec.type \in Types /\ spec.id \in Nat /\ spec.with_crc \in BOOLEAN
         /\ Carried(spec) \in Seq(Symbols) /\ Len(Carried(spec)) \in Nat
         /\ Lead(spec) \in {3, 4} /\ Room(spec) \in Nat /\ Room(spec) >= 3
         /\ Lead(spec) <= Room(spec) /\ Fields(spec) \in Headers
<1>1. spec \in [type : Types, id : Nat, payload : Seq(Symbols), with_crc : BOOLEAN]
  BY FrameReaderAssumption
<1>2. /\ spec.type \in Types /\ spec.id \in Nat /\ spec.with_crc \in BOOLEAN
      /\ Carried(spec) \in Seq(Symbols) /\ Len(Carried(spec)) \in Nat
  <2>1. /\ spec.type \in Types /\ spec.id \in Nat /\ spec.with_crc \in BOOLEAN
        /\ spec.payload \in Seq(Symbols)
    BY <1>1
  <2>2. Carried(spec) \in Seq(Symbols)
    BY <2>1, FrameReaderAssumption DEF Carried
  <2> QED
    BY <2>1, <2>2
<1>3. Lead(spec) \in {3, 4}
  BY DEF Lead
<1>4. Room(spec) \in Nat /\ Room(spec) >= 3 /\ Lead(spec) <= Room(spec)
  BY <1>2, <1>3 DEF Room
<1>5. Fields(spec) \in Headers
  BY <1>2 DEF Fields, Headers
<1> QED
  BY <1>2, <1>3, <1>4, <1>5

(* Concatenation, with the length of the first part in figures.            *)
Joins(S, w, u, v, n) ==
  /\ w \in Seq(S) /\ Len(w) = n + Len(v)
  /\ \A j \in 1 .. (n + Len(v)) : w[j] = IF j <= n THEN u[j] ELSE v[j - n]

LEMMA Joined ==
  ASSUME NEW S, NEW u \in Seq(S), NEW v \in Seq(S), NEW n, n = Len(u), NEW w, w = u \o v
  PROVE  Joins(S, w, u, v, n)
<1>1. /\ u \o v \in Seq(S) /\ Len(u \o v) = Len(u) + Len(v)
      /\ \A j \in 1 .. Len(u) + Len(v) : (u \o v)[j] = IF j <= Len(u) THEN u[j] ELSE v[j - Len(u)]
  BY ConcatProperties, Zenon
<1> QED
  BY <1>1 DEF Joins

(* encode_frame, symbol by symbol.                                         *)
LEMMA Encoded ==
  ASSUME NEW spec \in Specs
  PROVE  /\ encode_frame(spec) \in Seq(Tokens)
         /\ Len(encode_frame(spec)) = Room(spec)
         /\ encode_frame(spec)[1] = Byte("sync1")
         /\ encode_frame(spec)[2] = Byte("sync2")
         /\ encode_frame(spec)[3] = Header(Fields(spec))
         /\ spec.with_crc => encode_frame(spec)[4] = crc16(Fields(spec))
         /\ \A j \in 1 .. Len(Carried(spec)) :
              encode_frame(spec)[Lead(spec) + j] = Carried(spec)[j]
<1>1. PICK a, b, h, c, y : /\ a = Byte("sync1") /\ b = Byte("sync2")
                           /\ h = Header(Fields(spec)) /\ c = crc16(Fields(spec))
                           /\ y = Carried(spec)
  OBVIOUS
<1>2. a \in Tokens /\ b \in Tokens /\ h \in Tokens /\ c \in Tokens /\ y \in Seq(Tokens)
  <2>1. Fields(spec) \in Headers /\ y \in Seq(Symbols) /\ Symbols \subseteq Tokens
    BY <1>1, SpecTypes DEF Tokens
  <2>2. a \in Tokens /\ b \in Tokens /\ h \in Tokens /\ c \in Tokens
    BY <1>1, <2>1 DEF Tokens
  <2>3. y \in Seq(Tokens)
    BY <2>1, SeqMonotonic
  <2> QED
    BY <2>2, <2>3
<1>3. PICK w : w = encode_frame(spec)
  OBVIOUS
<1>4. PICK m : m = << a, b >> \o << h >>
  OBVIOUS
<1>5. m \in Seq(Tokens) /\ Len(m) = 3 /\ m[1] = a /\ m[2] = b /\ m[3] = h
  BY <1>2, <1>4
<1>6. CASE spec.with_crc
  <2>1. PICK k : k = m \o << c >>
    OBVIOUS
  <2>2. w = k \o y
    BY <1>1, <1>3, <1>4, <1>6, <2>1 DEF encode_frame, Sync
  <2>3. /\ k \in Seq(Tokens) /\ Len(k) = 4
        /\ k[1] = a /\ k[2] = b /\ k[3] = h /\ k[4] = c
    <3>1. PICK z : z = << c >>
      OBVIOUS
    <3>2. z \in Seq(Tokens) /\ Len(z) = 1 /\ z[1] = c
      BY <1>2, <3>1
    <3>3. 3 = Len(m) /\ m \in Seq(Tokens) /\ k = m \o z
      BY <1>5, <2>1, <3>1
    <3>4. /\ k \in Seq(Tokens) /\ Len(k) = 3 + Len(z)
          /\ \A j \in 1 .. (3 + Len(z)) : k[j] = IF j <= 3 THEN m[j] ELSE z[j - 3]
      <4>1. Joins(Tokens, k, m, z, 3)
        BY <3>2, <3>3, Joined, Zenon
      <4> QED
        BY <4>1, Zenon DEF Joins
    <3> QED
      BY <1>5, <3>2, <3>4
  <2>4. /\ w \in Seq(Tokens) /\ Len(w) = 4 + Len(y)
        /\ \A j \in 1 .. (4 + Len(y)) : w[j] = IF j <= 4 THEN k[j] ELSE y[j - 4]
    <3>1. 4 = Len(k) /\ k \in Seq(Tokens) /\ y \in Seq(Tokens) /\ w = k \o y
      BY <1>2, <2>2, <2>3
    <3>2. Joins(Tokens, w, k, y, 4)
      BY <3>1, Joined, Zenon
    <3> QED
      BY <3>2, Zenon DEF Joins
  <2>5. Len(y) \in Nat
    BY <1>2
  <2>6. /\ w[1] = a /\ w[2] = b /\ w[3] = h /\ w[4] = c
        /\ \A j \in 1 .. Len(y) : w[4 + j] = y[j]
    BY <2>3, <2>4, <2>5
  <2> QED
    BY <1>1, <1>3, <1>6, <2>4, <2>6 DEF Lead, Room
<1>7. CASE ~spec.with_crc
  <2>1. w = (m \o << >>) \o y
    BY <1>1, <1>3, <1>4, <1>7 DEF encode_frame, Sync
  <2>2. w = m \o y
    BY <1>5, <2>1, ConcatEmptySeq
  <2>3. /\ w \in Seq(Tokens) /\ Len(w) = 3 + Len(y)
        /\ \A j \in 1 .. (3 + Len(y)) : w[j] = IF j <= 3 THEN m[j] ELSE y[j - 3]
    <3>1. 3 = Len(m) /\ m \in Seq(Tokens) /\ y \in Seq(Tokens) /\ w = m \o y
      BY <1>2, <1>5, <2>2
    <3>2. Joins(Tokens, w, m, y, 3)
      BY <3>1, Joined, Zenon
    <3> QED
      BY <3>2, Zenon DEF Joins
  <2>4. Len(y) \in Nat
    BY <1>2
  <2>5. /\ w[1] = a /\ w[2] = b /\ w[3] = h
        /\ \A j \in 1 .. Len(y) : w[3 + j] = y[j]
    BY <1>5, <2>3, <2>4
  <2> QED
    BY <1>1, <1>3, <1>7, <2>3, <2>5 DEF Lead, Room
<1> QED
  BY <1>6, <1>7

(* Two neighbouring symbols of a sequence.                                 *)
LEMMA PairAt ==
  ASSUME NEW S, NEW t \in Seq(S), NEW p \in 1 .. (Len(t) - 1)
  PROVE  SubSeq(t, p, p + 1) = Sync <=> t[p] = Byte("sync1") /\ t[p + 1] = Byte("sync2")
<1>1. PICK a, b : a = Byte("sync1") /\ b = Byte("sync2")
  OBVIOUS
<1>2. PICK w : w = SubSeq(t, p, p + 1)
  OBVIOUS
<1>3. Len(w) = 2 /\ w[1] = t[p] /\ w[2] = t[p + 1] /\ w \in Seq(S)
  BY <1>2
<1>4. w = << t[p], t[p + 1] >>
  <2>1. PICK z : z = << t[p], t[p + 1] >>
    OBVIOUS
  <2>2. z \in Seq(S) /\ Len(z) = 2 /\ z[1] = t[p] /\ z[2] = t[p + 1]
    BY <2>1
  <2>3. \A i \in 1 .. 2 : w[i] = z[i]
    BY <1>3, <2>2
  <2> QED
    BY <1>3, <2>1, <2>2, <2>3, SeqEqual
<1>5. PICK x, y : x = t[p] /\ y = t[p + 1]
  OBVIOUS
<1>6. << x, y >> = << a, b >> <=> x = a /\ y = b
  OBVIOUS
<1>7. w = Sync <=> x = a /\ y = b
  BY <1>1, <1>4, <1>5, <1>6, Zenon DEF Sync
<1> QED
  BY <1>1, <1>2, <1>5, <1>7, Zenon
-----------------------------------------------------------------------------
(* The tape as it was written: where each frame stands, what is between.   *)
EndIn(s, i) == IF i = 0 THEN 1 ELSE s[i].at + Room(s[i].spec)

FrameOn(t, at, spec, d) ==
  /\ \A j \in 1 .. Room(spec) :
       j # 3 /\ at + j - 1 <= Len(t) => t[at + j - 1] = encode_frame(spec)[j]
  /\ at + 2 <= Len(t) =>
       \E h \in Headers : t[at + 2] = Header(h) /\ (d = 0 => h = Fields(spec))

GapOn(t, e, gap) ==
  \A j \in 1 .. Len(gap) : e + j - 1 <= Len(t) => t[e + j - 1] = gap[j]

SentSet == [spec : Specs, at : Nat \ {0}]

Placed(t, s, z, c) ==
  /\ t \in Seq(Tokens) /\ s \in Seq(SentSet) /\ z \in Seq(Seq(Symbols))
  /\ Len(z) = Len(s) + 1 /\ c \in Nat
  /\ \A i \in 0 .. Len(s) :
       EndIn(s, i) + Len(z[i + 1]) = IF i < Len(s) THEN s[i + 1].at ELSE Len(t) + c + 1
  /\ \A i, k \in 1 .. Len(s) : i < k => EndIn(s, i) <= s[k].at

Laid(t, s, z, d, c) ==
  /\ Placed(t, s, z, c) /\ d \in Nat
  /\ \A i \in 1 .. Len(s) : FrameOn(t, s[i].at, s[i].spec, d)
  /\ \A i \in 0 .. Len(s) : GapOn(t, EndIn(s, i), z[i + 1])

LEMMA PlacedFacts ==
  ASSUME NEW t, NEW s, NEW z, NEW c, Placed(t, s, z, c)
  PROVE  /\ Len(t) \in Nat /\ Len(s) \in Nat /\ c \in Nat
         /\ \A i \in 1 .. Len(s) :
              /\ s[i].at \in Nat /\ s[i].at >= 1 /\ s[i].spec \in Specs
              /\ Room(s[i].spec) \in Nat /\ Room(s[i].spec) >= 3
              /\ EndIn(s, i) = s[i].at + Room(s[i].spec)
              /\ EndIn(s, i) <= Len(t) + c + 1
         /\ EndIn(s, 0) = 1
         /\ \A i \in 0 .. Len(s) :
              /\ EndIn(s, i) \in Nat /\ z[i + 1] \in Seq(Symbols) /\ Len(z[i + 1]) \in Nat
              /\ EndIn(s, i) + Len(z[i + 1]) <= Len(t) + c + 1
         /\ \A i \in 0 .. Len(s), k \in 1 .. Len(s) : i < k => EndIn(s, i) <= s[k].at
<1>1. PICK n \in Nat, N \in Nat : n = Len(s) /\ N = Len(t)
  BY DEF Placed
<1>2. /\ s \in Seq(SentSet) /\ z \in Seq(Seq(Symbols)) /\ Len(z) = n + 1 /\ c \in Nat
      /\ \A i \in 0 .. n : EndIn(s, i) + Len(z[i + 1]) = IF i < n THEN s[i + 1].at ELSE N + c + 1
      /\ \A i, k \in 1 .. n : i < k => EndIn(s, i) <= s[k].at
  BY <1>1 DEF Placed
<1>3. ASSUME NEW i \in 1 .. n
      PROVE  /\ s[i].at \in Nat /\ s[i].at >= 1 /\ s[i].spec \in Specs
             /\ Room(s[i].spec) \in Nat /\ Room(s[i].spec) >= 3
             /\ EndIn(s, i) = s[i].at + Room(s[i].spec)
  <2>1. s[i] \in SentSet
    BY <1>1, <1>2
  <2>2. s[i].at \in Nat /\ s[i].at >= 1 /\ s[i].spec \in Specs
    BY <2>1 DEF SentSet
  <2>3. Room(s[i].spec) \in Nat /\ Room(s[i].spec) >= 3
    BY <2>2, SpecTypes
  <2> QED
    BY <1>1, <2>2, <2>3 DEF EndIn
<1>4. EndIn(s, 0) = 1
  BY DEF EndIn
<1>5. ASSUME NEW i \in 0 .. n
      PROVE  EndIn(s, i) \in Nat /\ z[i + 1] \in Seq(Symbols) /\ Len(z[i + 1]) \in Nat
  <2>1. z[i + 1] \in Seq(Symbols)
    BY <1>2
  <2>2. i = 0 \/ i \in 1 .. n
    OBVIOUS
  <2> QED
    BY <1>3, <1>4, <2>1, <2>2
<1>6. ASSUME NEW i \in 0 .. n, NEW k \in 1 .. n, i < k PROVE EndIn(s, i) <= s[k].at
  <2>1. i = 0 \/ i \in 1 .. n
    OBVIOUS
  <2> QED
    BY <1>2, <1>3, <1>4, <1>6, <2>1
<1>7. ASSUME NEW i \in 0 .. n PROVE EndIn(s, i) + Len(z[i + 1]) <= N + c + 1
  <2>1. CASE i = n
    BY <1>2, <1>5, <2>1
  <2>2. CASE i < n
    <3>1. PICK k \in 1 .. n : k = i + 1
      BY <2>2
    <3>2. n \in 1 .. n /\ n \in 0 .. n
      BY <3>1
    <3>3. PICK x, y, e, f, g, l : /\ x = s[k].at /\ y = s[n].at /\ e = Len(z[n + 1])
                                  /\ f = EndIn(s, k) /\ g = EndIn(s, n)
                                  /\ l = EndIn(s, i) + Len(z[i + 1])
      OBVIOUS
    <3>4. l = x
      BY <1>2, <2>2, <3>1, <3>3
    <3>5. x \in Nat /\ f \in Nat /\ x <= f
      <4>1. PICK K \in Nat : x \in Nat /\ f = x + K
        BY <1>3, <3>3
      <4> QED
        BY <4>1
    <3>6. y \in Nat /\ g \in Nat /\ y <= g
      <4>1. PICK K \in Nat : y \in Nat /\ g = y + K
        BY <1>3, <3>2, <3>3
      <4> QED
        BY <4>1
    <3>7. e \in Nat /\ g + e = N + c + 1
      BY <1>2, <1>5, <3>2, <3>3
    <3>8. k = n \/ f <= y
      <4>1. k = n \/ k < n
        OBVIOUS
      <4> QED
        BY <1>2, <3>2, <3>3, <4>1
    <3>9. x <= y
      BY <3>3, <3>5, <3>6, <3>8
    <3>10. l <= N + c + 1
      BY <1>2, <3>4, <3>5, <3>6, <3>7, <3>9
    <3> QED
      BY <3>3, <3>10
  <2> QED
    BY <2>1, <2>2
<1>8. ASSUME NEW i \in 1 .. n PROVE EndIn(s, i) <= N + c + 1
  <2>1. i \in 0 .. n
    OBVIOUS
  <2>2. PICK e, x : e = Len(z[i + 1]) /\ x = EndIn(s, i)
    OBVIOUS
  <2>3. e \in Nat /\ x \in Nat /\ x + e <= N + c + 1
    BY <1>5, <1>7, <2>1, <2>2
  <2>4. PICK M : M = N + c + 1
    OBVIOUS
  <2>5. M \in Nat
    BY <1>2, <2>4
  <2>6. x <= M
    BY <2>3, <2>4, <2>5
  <2> QED
    BY <2>2, <2>4, <2>6
<1> QED
  BY <1>1, <1>2, <1>3, <1>4, <1>5, <1>6, <1>7, <1>8

LEMMA Inside ==
  ASSUME NEW t, NEW s, NEW z, NEW N, Placed(t, s, z, 0), N = Len(t)
  PROVE  /\ \A i \in 1 .. Len(s) : s[i].at + Room(s[i].spec) <= N + 1
         /\ \A i \in 0 .. Len(s) : EndIn(s, i) >= 1 /\ EndIn(s, i) + Len(z[i + 1]) <= N + 1
<1>1. N \in Nat /\ Len(s) \in Nat
  BY PlacedFacts
<1>2. ASSUME NEW i \in 1 .. Len(s)
      PROVE  s[i].at + Room(s[i].spec) <= N + 1 /\ EndIn(s, i) >= 1
  <2>1. PICK a, R, e : a = s[i].at /\ R = Room(s[i].spec) /\ e = EndIn(s, i)
    OBVIOUS
  <2>2. a \in Nat /\ a >= 1 /\ R \in Nat /\ e = a + R /\ e <= N + 0 + 1
    BY <2>1, PlacedFacts
  <2>3. a + R <= N + 1 /\ e >= 1
    BY <1>1, <2>2
  <2> QED
    BY <2>1, <2>3
<1>3. ASSUME NEW i \in 0 .. Len(s)
      PROVE  EndIn(s, i) >= 1 /\ EndIn(s, i) + Len(z[i + 1]) <= N + 1
  <2>1. PICK e, l : e = EndIn(s, i) /\ l = Len(z[i + 1])
    OBVIOUS
  <2>2. e \in Nat /\ l \in Nat /\ e + l <= N + 0 + 1
    BY <2>1, PlacedFacts
  <2>3. e + l <= N + 1
    BY <1>1, <2>2
  <2>4. i = 0 \/ i \in 1 .. Len(s)
    BY <1>1
  <2>5. EndIn(s, i) >= 1
    BY <1>2, <2>4, PlacedFacts
  <2> QED
    BY <2>1, <2>3, <2>5
<1> QED
  BY <1>2, <1>3

(* Placed and the frames and gaps only depend on what the tape holds.      *)
LEMMA LaidStart == Laid(<< >>, << >>, << << >> >>, 0, 0)
<1>1. PICK z : z = << << >> >>
  OBVIOUS
<1>2. z \in Seq(Seq(Symbols)) /\ Len(z) = 1 /\ z[1] = << >>
  BY <1>1
<1>3. PICK e : e = << >>
  OBVIOUS
<1>4. e \in Seq(Tokens) /\ e \in Seq(SentSet) /\ Len(e) = 0
  BY <1>3
<1>5. z[1] = e /\ EndIn(e, 0) = 1
  BY <1>2, <1>3 DEF EndIn
<1>6. Placed(e, e, z, 0)
  BY <1>2, <1>4, <1>5 DEF Placed
<1>7. GapOn(e, 1, e)
  BY <1>4 DEF GapOn
<1>8. Laid(e, e, z, 0, 0)
  BY <1>2, <1>4, <1>5, <1>6, <1>7 DEF Laid
<1> QED
  BY <1>1, <1>3, <1>8

(* Noise at the end: the gap behind the last frame grows.                  *)
LEMMA LaidDisturb ==
  ASSUME NEW t, NEW s, NEW z, NEW d, Laid(t, s, z, d, 0), NEW b \in Seq(Symbols)
  PROVE  Laid(t \o b, s, [z EXCEPT ![Len(z)] = @ \o b], d, 0)
<1>0. Placed(t, s, z, 0)
  BY DEF Laid
<1>1. PICK n \in Nat, N \in Nat : n = Len(s) /\ N = Len(t)
  BY <1>0, PlacedFacts
<1>2. PICK g, m : g = z[n + 1] /\ m = Len(g)
  OBVIOUS
<1>3. PICK u, y : u = t \o b /\ y = [z EXCEPT ![n + 1] = g \o b]
  OBVIOUS
<1>4. /\ t \in Seq(Tokens) /\ s \in Seq(SentSet) /\ z \in Seq(Seq(Symbols)) /\ Len(z) = n + 1
      /\ \A i \in 0 .. n : EndIn(s, i) + Len(z[i + 1]) = IF i < n THEN s[i + 1].at ELSE N + 0 + 1
      /\ \A i, k \in 1 .. n : i < k => EndIn(s, i) <= s[k].at
      /\ d \in Nat
      /\ \A i \in 1 .. n : FrameOn(t, s[i].at, s[i].spec, d)
      /\ \A i \in 0 .. n : GapOn(t, EndIn(s, i), z[i + 1])
  BY <1>1 DEF Laid, Placed
<1>5. y = [z EXCEPT ![Len(z)] = @ \o b]
  BY <1>2, <1>3, <1>4
<1>6. g \in Seq(Symbols) /\ m \in Nat /\ Len(b) \in Nat /\ b \in Seq(Tokens)
  <2>1. n + 1 \in 1 .. (n + 1)
    OBVIOUS
  <2>2. Symbols \subseteq Tokens
    BY DEF Tokens
  <2> QED
    BY <1>2, <1>4, <2>1, <2>2, SeqMonotonic
<1>7. Joins(Tokens, u, t, b, N)
  BY <1>1, <1>3, <1>4, <1>6, Joined
<1>8. u \in Seq(Tokens) /\ Len(u) = N + Len(b) /\ \A x \in 1 .. N : u[x] = t[x]
  BY <1>6, <1>7 DEF Joins
<1>9. Joins(Symbols, g \o b, g, b, m)
  BY <1>2, <1>6, Joined
<1>10. /\ y \in Seq(Seq(Symbols)) /\ Len(y) = n + 1 /\ y[n + 1] = g \o b
       /\ \A i \in 0 .. n : i < n => y[i + 1] = z[i + 1]
  BY <1>3, <1>4, <1>9 DEF Joins
<1>11. \A i \in 0 .. n : EndIn(s, i) + Len(z[i + 1]) <= N + 1 /\ EndIn(s, i) \in Nat /\ EndIn(s, i) >= 1
  BY <1>0, <1>1, Inside, PlacedFacts
<1>12. Placed(u, s, y, 0)
  <2>1. ASSUME NEW i \in 0 .. n
        PROVE  EndIn(s, i) + Len(y[i + 1]) = IF i < n THEN s[i + 1].at ELSE Len(u) + 0 + 1
    <3>1. CASE i < n
      BY <1>4, <1>10, <3>1
    <3>2. CASE i = n
      <4>1. PICK e : e = EndIn(s, n)
        OBVIOUS
      <4>2. e + m = N + 1 /\ e \in Nat
        BY <1>2, <1>4, <1>11, <3>2, <4>1
      <4>3. Len(y[n + 1]) = m + Len(b)
        BY <1>9, <1>10 DEF Joins
      <4>4. e + (m + Len(b)) = (N + Len(b)) + 0 + 1
        BY <1>6, <4>2
      <4> QED
        BY <1>8, <3>2, <4>1, <4>3, <4>4
    <3> QED
      BY <3>1, <3>2
  <2> QED
    BY <1>1, <1>4, <1>8, <1>10, <2>1 DEF Placed
<1>13. ASSUME NEW i \in 1 .. n PROVE FrameOn(u, s[i].at, s[i].spec, d)
  <2>1. FrameOn(t, s[i].at, s[i].spec, d)
    BY <1>4
  <2>2. PICK a, R : a = s[i].at /\ R = Room(s[i].spec)
    OBVIOUS
  <2>20. a \in Nat /\ R \in Nat /\ a >= 1 /\ R >= 3
    BY <1>0, <1>1, <2>2, PlacedFacts
  <2>21. a + R <= N + 1
    BY <1>0, <1>1, <2>2, Inside
  <2>3. \A j \in 1 .. R : a + j - 1 <= N /\ a + j - 1 \in 1 .. N
    BY <2>20, <2>21
  <2>4. a + 2 \in 1 .. N /\ a + 2 <= N
    BY <2>20, <2>21
  <2> QED
    BY <1>1, <1>8, <2>1, <2>2, <2>3, <2>4 DEF FrameOn
<1>14. ASSUME NEW i \in 0 .. n PROVE GapOn(u, EndIn(s, i), y[i + 1])
  <2>1. PICK e \in Nat : e = EndIn(s, i) /\ e >= 1 /\ e + Len(z[i + 1]) <= N + 1
    BY <1>11
  <2>2. GapOn(t, e, z[i + 1])
    BY <1>4, <2>1
  <2>3. CASE i < n
    <3>1. Len(z[i + 1]) \in Nat /\ y[i + 1] = z[i + 1]
      BY <1>4, <1>10, <2>3
    <3>2. \A j \in 1 .. Len(z[i + 1]) : e + j - 1 \in 1 .. N /\ e + j - 1 <= N
      BY <2>1, <3>1
    <3> QED
      BY <1>1, <1>8, <2>1, <2>2, <3>1, <3>2 DEF GapOn
  <2>4. CASE i = n
    <3>1. e + m = N + 1
      BY <1>2, <1>4, <1>6, <2>1, <2>4
    <3>2. PICK w : w = g \o b
      OBVIOUS
    <3>3. Joins(Symbols, w, g, b, m) /\ y[i + 1] = w
      BY <1>9, <1>10, <2>4, <3>2
    <3>4. Len(w) = m + Len(b)
      BY <3>3 DEF Joins
    <3>5. ASSUME NEW j \in 1 .. (m + Len(b)) PROVE u[e + j - 1] = w[j]
      <4>1. PICK x : x = e + j - 1
        OBVIOUS
      <4>2. w[j] = IF j <= m THEN g[j] ELSE b[j - m]
        BY <3>3 DEF Joins
      <4>3. x \in 1 .. (N + Len(b)) /\ (x <= N <=> j <= m) /\ x - N = j - m
        <5>1. PICK L \in Nat : L = Len(b)
          BY <1>6
        <5>2. j \in 1 .. (m + L) /\ x = e + j - 1
          BY <4>1, <5>1
        <5>3. m \in Nat /\ e >= 1 /\ e + m = N + 1
          BY <1>6, <2>1, <3>1
        <5>4. j \in Nat /\ j >= 1 /\ j <= m + L
          BY <5>2, <5>3
        <5>5. x \in Nat /\ x >= 1 /\ x <= N + L
          BY <5>2, <5>3, <5>4
        <5>6. (x <= N <=> j <= m) /\ x - N = j - m
          BY <5>2, <5>3, <5>4
        <5> QED
          BY <5>1, <5>5, <5>6
      <4>4. u[x] = IF x <= N THEN t[x] ELSE b[x - N]
        BY <1>7, <4>3 DEF Joins
      <4>5. j <= m => t[x] = g[j]
        <5>1. SUFFICES ASSUME j <= m PROVE t[e + j - 1] = g[j]
          BY <4>1
        <5>2. j \in 1 .. Len(z[i + 1]) /\ e + j - 1 <= Len(t)
          BY <1>1, <1>2, <1>6, <2>4, <4>1, <4>3, <5>1
        <5> QED
          BY <1>2, <2>2, <2>4, <5>2 DEF GapOn
      <4> QED
        BY <4>1, <4>2, <4>3, <4>4, <4>5
    <3> QED
      BY <2>1, <3>3, <3>4, <3>5 DEF GapOn
  <2> QED
    BY <2>3, <2>4
<1>15. Laid(u, s, y, d, 0)
  BY <1>1, <1>4, <1>12, <1>13, <1>14 DEF Laid
<1> QED
  BY <1>3, <1>5, <1>15

(* A cut: the tape loses its last symbol.                                  *)
LEMMA LaidCut ==
  ASSUME NEW t, NEW s, NEW z, NEW d, NEW c, Laid(t, s, z, d, c), t # << >>
  PROVE  Laid(SubSeq(t, 1, Len(t) - 1), s, z, d, c + 1)
<1>0. Placed(t, s, z, c) /\ t \in Seq(Tokens) /\ d \in Nat
  BY DEF Laid, Placed
<1>1. PICK n \in Nat, N \in Nat : n = Len(s) /\ N = Len(t)
  BY <1>0, PlacedFacts
<1>2. N # 0 /\ c \in Nat
  BY <1>0, <1>1, PlacedFacts
<1>3. PICK u : u = SubSeq(t, 1, N - 1)
  OBVIOUS
<1>4. u \in Seq(Tokens) /\ Len(u) = N - 1 /\ \A x \in 1 .. (N - 1) : u[x] = t[x]
  BY <1>0, <1>1, <1>2, <1>3
<1>5. Len(u) + (c + 1) + 1 = N + c + 1 /\ c + 1 \in Nat
  BY <1>2, <1>4
<1>6. Placed(u, s, z, c + 1)
  BY <1>0, <1>1, <1>4, <1>5 DEF Placed
<1>7. ASSUME NEW x \in Nat, x >= 1, x <= Len(u) PROVE x <= N /\ u[x] = t[x]
  BY <1>1, <1>4, <1>7
<1>8. ASSUME NEW i \in 1 .. n PROVE FrameOn(u, s[i].at, s[i].spec, d)
  <2>1. FrameOn(t, s[i].at, s[i].spec, d)
    BY <1>1 DEF Laid
  <2>2. PICK a, R : a = s[i].at /\ R = Room(s[i].spec)
    OBVIOUS
  <2>3. a \in Nat /\ R \in Nat /\ a >= 1
    BY <1>0, <1>1, <2>2, PlacedFacts
  <2>4. \A j \in 1 .. R : a + j - 1 \in Nat /\ a + j - 1 >= 1
    BY <2>3
  <2>5. a + 2 \in Nat /\ a + 2 >= 1
    BY <2>3
  <2> QED
    BY <1>1, <1>7, <2>1, <2>2, <2>4, <2>5 DEF FrameOn
<1>9. ASSUME NEW i \in 0 .. n PROVE GapOn(u, EndIn(s, i), z[i + 1])
  <2>1. GapOn(t, EndIn(s, i), z[i + 1])
    BY <1>1 DEF Laid
  <2>2. PICK e, l : e = EndIn(s, i) /\ l = Len(z[i + 1])
    OBVIOUS
  <2>3. e \in Nat /\ l \in Nat
    BY <1>0, <1>1, <2>2, PlacedFacts
  <2>4. e >= 1
    <3>1. i = 0 \/ i \in 1 .. n
      OBVIOUS
    <3>2. CASE i \in 1 .. n
      <4>1. PICK a, R : a = s[i].at /\ R = Room(s[i].spec)
        OBVIOUS
      <4>2. a \in Nat /\ R \in Nat /\ a >= 1 /\ e = a + R
        BY <1>0, <1>1, <2>2, <3>2, <4>1, PlacedFacts
      <4> QED
        BY <4>2
    <3> QED
      BY <1>0, <2>2, <3>1, <3>2, PlacedFacts
  <2>5. \A j \in 1 .. l : e + j - 1 \in Nat /\ e + j - 1 >= 1
    BY <2>3, <2>4
  <2> QED
    BY <1>1, <1>7, <2>1, <2>2, <2>5 DEF GapOn
<1>10. Laid(u, s, z, d, c + 1)
  BY <1>0, <1>1, <1>6, <1>8, <1>9 DEF Laid
<1> QED
  BY <1>1, <1>3, <1>10

(* Damage to the header of a frame leaves everything else.                 *)
LEMMA LaidDamage ==
  ASSUME NEW t, NEW s, NEW z, NEW d, Laid(t, s, z, d, 0),
         NEW k \in 1 .. Len(s), NEW h \in Headers
  PROVE  Laid([t EXCEPT ![s[k].at + 2] = Header(h)], s, z, d + 1, 0)
<1>0. Placed(t, s, z, 0) /\ t \in Seq(Tokens) /\ d \in Nat
  BY DEF Laid, Placed
<1>1. PICK n \in Nat, N \in Nat : n = Len(s) /\ N = Len(t)
  BY <1>0, PlacedFacts
<1>2. PICK b, K, x : b = s[k].at /\ K = Room(s[k].spec) /\ x = b + 2
  OBVIOUS
<1>3. b \in Nat /\ K \in Nat /\ b >= 1 /\ K >= 3 /\ b + K <= N + 1
  BY <1>0, <1>1, <1>2, PlacedFacts, Inside
<1>4. x \in 1 .. N /\ x = b + 2
  BY <1>2, <1>3
<1>5. PICK u : u = [t EXCEPT ![x] = Header(h)]
  OBVIOUS
<1>6. /\ u \in Seq(Tokens) /\ Len(u) = N /\ u[x] = Header(h)
      /\ \A y \in 1 .. N : y # x => u[y] = t[y]
  <2>1. Header(h) \in Tokens
    BY DEF Tokens
  <2> QED
    BY <1>0, <1>1, <1>4, <1>5, <2>1
<1>7. Placed(u, s, z, 0)
  BY <1>0, <1>1, <1>6 DEF Placed
<1>8. ASSUME NEW i \in 1 .. n PROVE FrameOn(u, s[i].at, s[i].spec, d + 1)
  <2>1. FrameOn(t, s[i].at, s[i].spec, d)
    BY <1>1 DEF Laid
  <2>2. PICK a, R : a = s[i].at /\ R = Room(s[i].spec)
    OBVIOUS
  <2>3. a \in Nat /\ R \in Nat /\ a >= 1 /\ R >= 3 /\ a + R <= N + 1
    BY <1>0, <1>1, <2>2, PlacedFacts, Inside
  <2>4. i < k => a + R <= b
    <3>1. SUFFICES ASSUME i < k PROVE a + R <= b
      OBVIOUS
    <3>2. EndIn(s, i) <= s[k].at
      BY <1>0, <1>1, <3>1 DEF Placed
    <3>3. EndIn(s, i) = s[i].at + Room(s[i].spec)
      BY <1>0, <1>1, PlacedFacts
    <3> QED
      BY <1>2, <2>2, <3>2, <3>3
  <2>5. k < i => b + K <= a
    <3>1. SUFFICES ASSUME k < i PROVE b + K <= a
      OBVIOUS
    <3>2. EndIn(s, k) <= s[i].at
      BY <1>0, <1>1, <3>1 DEF Placed
    <3>3. EndIn(s, k) = s[k].at + Room(s[k].spec)
      BY <1>0, <1>1, PlacedFacts
    <3> QED
      BY <1>2, <2>2, <3>2, <3>3
  <2>6. i = k => a = b /\ R = K
    BY <1>2, <2>2
  <2>7. i = k \/ i < k \/ k < i
    BY <1>1
  <2>8. ASSUME NEW j \in 1 .. R, j # 3 PROVE a + j - 1 \in 1 .. N /\ a + j - 1 # x
    <3>1. a + j - 1 \in 1 .. N
      BY <2>3
    <3>2. CASE i = k
      <4>1. a = b
        BY <2>6, <3>2
      <4>2. a + j - 1 # a + 2
        BY <2>3, <2>8
      <4> QED
        BY <1>2, <3>1, <4>1, <4>2
    <3>3. CASE i < k
      <4>1. a + R <= b
        BY <2>4, <3>3
      <4> QED
        BY <1>2, <1>3, <2>3, <3>1, <4>1
    <3>4. CASE k < i
      <4>1. b + K <= a
        BY <2>5, <3>4
      <4> QED
        BY <1>2, <1>3, <2>3, <3>1, <4>1
    <3> QED
      BY <2>7, <3>2, <3>3, <3>4, <3>1
  <2>9. a + 2 \in 1 .. N /\ (a + 2 = x \/ u[a + 2] = t[a + 2])
    BY <1>6, <2>3
  <2>10. \E g \in Headers : u[a + 2] = Header(g) /\ (d + 1 = 0 => g = Fields(s[i].spec))
    <3>1. d + 1 # 0
      BY <1>0
    <3>2. a + 2 <= N
      BY <2>9
    <3>3. \E g \in Headers : t[a + 2] = Header(g)
      BY <1>1, <2>1, <2>2, <3>2 DEF FrameOn
    <3> QED
      BY <1>6, <2>9, <3>1, <3>3
  <2>11. \A j \in 1 .. R : j # 3 => t[a + j - 1] = encode_frame(s[i].spec)[j]
    <3>1. \A j \in 1 .. R : a + j - 1 <= Len(t)
      BY <1>1, <2>3
    <3> QED
      BY <2>1, <2>2, <3>1 DEF FrameOn
  <2>12. \A j \in 1 .. R : j # 3 => u[a + j - 1] = encode_frame(s[i].spec)[j]
    BY <1>6, <2>8, <2>11
  <2> QED
    BY <2>2, <2>10, <2>12 DEF FrameOn
<1>9. ASSUME NEW i \in 0 .. n PROVE GapOn(u, EndIn(s, i), z[i + 1])
  <2>1. GapOn(t, EndIn(s, i), z[i + 1])
    BY <1>1 DEF Laid
  <2>2. PICK e, l : e = EndIn(s, i) /\ l = Len(z[i + 1])
    OBVIOUS
  <2>3. e \in Nat /\ l \in Nat /\ e >= 1 /\ e + l <= N + 1
    BY <1>0, <1>1, <2>2, PlacedFacts, Inside
  <2>4. CASE k <= i
    <3>1. b + K <= e
      <4>1. PICK g : g = EndIn(s, k)
        OBVIOUS
      <4>2. g = b + K
        <5>1. EndIn(s, k) = s[k].at + Room(s[k].spec)
          BY <1>0, <1>1, PlacedFacts
        <5> QED
          BY <1>2, <4>1, <5>1
      <4>3. CASE k = i
        <5>1. e = g
          BY <2>2, <4>1, <4>3
        <5>2. b + K <= g
          BY <1>3, <4>2
        <5> QED
          BY <5>1, <5>2
      <4>4. CASE k < i
        <5>1. i \in 1 .. n
          BY <1>1, <4>4
        <5>2. PICK a, R : a = s[i].at /\ R = Room(s[i].spec)
          OBVIOUS
        <5>3. a \in Nat /\ R \in Nat /\ e = a + R /\ g <= a
          <6>1. g <= a
            BY <1>0, <1>1, <4>1, <4>4, <5>1, <5>2 DEF Placed
          <6>2. a \in Nat /\ R \in Nat /\ EndIn(s, i) = a + R
            BY <1>0, <1>1, <5>1, <5>2, PlacedFacts
          <6> QED
            BY <2>2, <6>1, <6>2
        <5> QED
          BY <1>3, <4>2, <5>3
      <4> QED
        BY <1>1, <2>4, <4>3, <4>4
    <3>2. \A j \in 1 .. l : e + j - 1 \in 1 .. N /\ e + j - 1 # x
      BY <1>2, <1>3, <2>3, <3>1
    <3> QED
      BY <1>1, <1>6, <2>1, <2>2, <3>2 DEF GapOn
  <2>5. CASE i < k
    <3>1. e + l <= b
      <4>1. PICK m \in 1 .. n : m = i + 1
        BY <1>1, <2>5
      <4>2. PICK a, R : a = s[m].at /\ R = Room(s[m].spec)
        OBVIOUS
      <4>3. e + l = a
        <5>1. i < n
          BY <4>1
        <5> QED
          BY <1>0, <1>1, <2>2, <4>1, <4>2, <5>1 DEF Placed
      <4>4. a \in Nat /\ R \in Nat /\ EndIn(s, m) = a + R
        BY <1>0, <1>1, <4>2, PlacedFacts
      <4>5. CASE m = k
        BY <1>2, <1>3, <4>2, <4>3, <4>5
      <4>6. CASE m < k
        <5>1. a + R <= b
          BY <1>0, <1>1, <1>2, <4>4, <4>6 DEF Placed
        <5> QED
          BY <1>3, <4>3, <4>4, <5>1
      <4> QED
        BY <1>1, <2>5, <4>1, <4>5, <4>6
    <3>2. \A j \in 1 .. l : e + j - 1 \in 1 .. N /\ e + j - 1 # x
      BY <1>2, <1>3, <2>3, <3>1
    <3> QED
      BY <1>1, <1>6, <2>1, <2>2, <3>2 DEF GapOn
  <2> QED
    BY <1>1, <2>4, <2>5
<1>10. Laid(u, s, z, d + 1, 0)
  BY <1>0, <1>1, <1>7, <1>8, <1>9 DEF Laid
<1> QED
  BY <1>2, <1>5, <1>10

(* A frame written: it stands behind the noise, and no noise behind it.    *)
LEMMA LaidWrite ==
  ASSUME NEW t, NEW s, NEW z, NEW d, Laid(t, s, z, d, 0), NEW spec \in Specs
  PROVE  Laid(t \o encode_frame(spec), Append(s, [spec |-> spec, at |-> Len(t) + 1]),
              Append(z, << >>), d, 0)
<1>0. Placed(t, s, z, 0) /\ d \in Nat
  BY DEF Laid
<1>1. PICK n \in Nat, N \in Nat : n = Len(s) /\ N = Len(t)
  BY <1>0, PlacedFacts
<1>2. PICK f, R, r : /\ f = encode_frame(spec) /\ R = Room(spec)
                     /\ r = [spec |-> spec, at |-> N + 1]
  OBVIOUS
<1>3. PICK u, v, y : u = t \o f /\ v = Append(s, r) /\ y = Append(z, << >>)
  OBVIOUS
<1>4. /\ t \in Seq(Tokens) /\ s \in Seq(SentSet) /\ z \in Seq(Seq(Symbols)) /\ Len(z) = n + 1
      /\ \A i \in 0 .. n : EndIn(s, i) + Len(z[i + 1]) = IF i < n THEN s[i + 1].at ELSE N + 0 + 1
      /\ \A i, k \in 1 .. n : i < k => EndIn(s, i) <= s[k].at
      /\ \A i \in 1 .. n : FrameOn(t, s[i].at, s[i].spec, d)
      /\ \A i \in 0 .. n : GapOn(t, EndIn(s, i), z[i + 1])
  BY <1>1 DEF Laid, Placed
<1>5. f \in Seq(Tokens) /\ Len(f) = R /\ R \in Nat /\ R >= 3
  BY <1>2, Encoded, SpecTypes
<1>6. Joins(Tokens, u, t, f, N)
  BY <1>1, <1>3, <1>4, <1>5, Joined
<1>7. /\ u \in Seq(Tokens) /\ Len(u) = N + R /\ \A x \in 1 .. N : u[x] = t[x]
      /\ \A j \in 1 .. R : u[N + j] = f[j]
  <2>1. \A x \in 1 .. (N + R) : u[x] = IF x <= N THEN t[x] ELSE f[x - N]
    BY <1>5, <1>6 DEF Joins
  <2>2. \A j \in 1 .. R : N + j \in 1 .. (N + R) /\ ~(N + j <= N) /\ (N + j) - N = j
    BY <1>5
  <2>3. \A x \in 1 .. N : x \in 1 .. (N + R) /\ x <= N
    BY <1>5
  <2>4. \A j \in 1 .. R : u[N + j] = f[j]
    BY <2>1, <2>2
  <2>5. u \in Seq(Tokens) /\ Len(u) = N + R
    BY <1>5, <1>6 DEF Joins
  <2> QED
    BY <2>1, <2>3, <2>4, <2>5
<1>8. r \in SentSet /\ r.at = N + 1 /\ r.spec = spec
  BY <1>2 DEF SentSet
<1>9. /\ v \in Seq(SentSet) /\ Len(v) = n + 1 /\ v[n + 1] = r
      /\ \A i \in 1 .. n : v[i] = s[i]
  BY <1>1, <1>3, <1>4, <1>8
<1>10. /\ y \in Seq(Seq(Symbols)) /\ Len(y) = n + 2 /\ y[n + 2] = << >>
       /\ \A i \in 0 .. n : y[i + 1] = z[i + 1]
  <2>1. << >> \in Seq(Symbols)
    OBVIOUS
  <2>2. PICK e : e = << >>
    OBVIOUS
  <2>3. y = Append(z, e) /\ e \in Seq(Symbols)
    BY <1>3, <2>1, <2>2
  <2>4. y \in Seq(Seq(Symbols)) /\ Len(y) = n + 2 /\ y[n + 2] = e
    BY <1>4, <2>3
  <2>5. \A i \in 1 .. (n + 1) : y[i] = z[i]
    BY <1>4, <2>3
  <2>6. \A i \in 0 .. n : i + 1 \in 1 .. (n + 1)
    OBVIOUS
  <2> QED
    BY <2>2, <2>4, <2>5, <2>6
<1>11. \A i \in 0 .. n : EndIn(v, i) = EndIn(s, i)
  BY <1>9 DEF EndIn
<1>12. EndIn(v, n + 1) = N + 1 + R
  BY <1>2, <1>8, <1>9 DEF EndIn
<1>13. \A i \in 0 .. n : EndIn(s, i) + Len(z[i + 1]) <= N + 1 /\ EndIn(s, i) \in Nat
                         /\ EndIn(s, i) >= 1 /\ Len(z[i + 1]) \in Nat
  BY <1>0, <1>1, Inside, PlacedFacts
<1>14. Placed(u, v, y, 0)
  <2>1. ASSUME NEW i \in 0 .. (n + 1)
        PROVE  EndIn(v, i) + Len(y[i + 1]) = IF i < n + 1 THEN v[i + 1].at ELSE Len(u) + 0 + 1
    <3>1. CASE i < n
      <4>1. EndIn(v, i) + Len(y[i + 1]) = s[i + 1].at
        BY <1>4, <1>10, <1>11, <3>1
      <4>2. i + 1 \in 1 .. n
        BY <3>1
      <4> QED
        BY <1>9, <3>1, <4>1, <4>2
    <3>2. CASE i = n
      BY <1>4, <1>8, <1>9, <1>10, <1>11, <3>2
    <3>3. CASE i = n + 1
      <4>1. Len(y[n + 2]) = 0
        BY <1>10
      <4>2. i + 1 = n + 2
        BY <3>3
      <4>3. (N + 1 + R) + 0 = (N + R) + 0 + 1
        BY <1>5
      <4> QED
        BY <1>7, <1>12, <3>3, <4>1, <4>2, <4>3
    <3> QED
      BY <3>1, <3>2, <3>3
  <2>2. ASSUME NEW i \in 1 .. (n + 1), NEW k \in 1 .. (n + 1), i < k
        PROVE  EndIn(v, i) <= v[k].at
    <3>1. i \in 1 .. n
      BY <2>2
    <3>2. CASE k \in 1 .. n
      <4>1. EndIn(s, i) <= s[k].at
        BY <1>4, <2>2, <3>1, <3>2
      <4>2. i \in 0 .. n
        BY <3>1
      <4>3. v[k] = s[k] /\ EndIn(v, i) = EndIn(s, i)
        BY <1>9, <1>11, <3>2, <4>2
      <4> QED
        BY <4>1, <4>3
    <3>3. CASE k = n + 1
      <4>1. PICK e, l : e = EndIn(s, i) /\ l = Len(z[i + 1])
        OBVIOUS
      <4>2. e \in Nat /\ l \in Nat /\ e + l <= N + 1
        BY <1>13, <3>1, <4>1
      <4>3. e <= N + 1
        BY <4>2
      <4> QED
        BY <1>8, <1>9, <1>11, <3>1, <3>3, <4>1, <4>3
    <3> QED
      BY <3>2, <3>3
  <2> QED
    BY <1>7, <1>9, <1>10, <2>1, <2>2 DEF Placed
<1>15. ASSUME NEW i \in 1 .. (n + 1) PROVE FrameOn(u, v[i].at, v[i].spec, d)
  <2>1. CASE i \in 1 .. n
    <3>1. FrameOn(t, s[i].at, s[i].spec, d)
      BY <1>4, <2>1
    <3>2. PICK a, K : a = s[i].at /\ K = Room(s[i].spec)
      OBVIOUS
    <3>3. a \in Nat /\ K \in Nat /\ a >= 1 /\ K >= 3
      BY <1>0, <1>1, <2>1, <3>2, PlacedFacts
    <3>4. a + K <= N + 1
      BY <1>0, <1>1, <2>1, <3>2, Inside
    <3>5. \A j \in 1 .. K : a + j - 1 <= N /\ a + j - 1 \in 1 .. N
      BY <3>3, <3>4
    <3>6. a + 2 \in 1 .. N /\ a + 2 <= N
      BY <3>3, <3>4
    <3>7. FrameOn(u, s[i].at, s[i].spec, d)
      BY <1>1, <1>7, <3>1, <3>2, <3>5, <3>6 DEF FrameOn
    <3> QED
      BY <1>9, <2>1, <3>7
  <2>2. CASE i = n + 1
    <3>1. \A j \in 1 .. R : (N + 1) + j - 1 = N + j
      BY <1>5
    <3>2. \A j \in 1 .. R : u[(N + 1) + j - 1] = f[j]
      BY <1>7, <3>1
    <3>3. u[(N + 1) + 2] = f[3]
      <4>1. 3 \in 1 .. R /\ (N + 1) + 2 = N + 3
        BY <1>5
      <4> QED
        BY <1>7, <4>1
    <3>4. f[3] = Header(Fields(spec)) /\ Fields(spec) \in Headers
      BY <1>2, Encoded, SpecTypes
    <3>5. FrameOn(u, N + 1, spec, d)
      BY <1>2, <3>2, <3>3, <3>4 DEF FrameOn
    <3> QED
      BY <1>8, <1>9, <2>2, <3>5
  <2> QED
    BY <2>1, <2>2
<1>16. ASSUME NEW i \in 0 .. (n + 1) PROVE GapOn(u, EndIn(v, i), y[i + 1])
  <2>1. CASE i \in 0 .. n
    <3>1. PICK e, l : e = EndIn(s, i) /\ l = Len(z[i + 1])
      OBVIOUS
    <3>2. e \in Nat /\ l \in Nat /\ e >= 1 /\ e + l <= N + 1
      BY <1>13, <2>1, <3>1
    <3>3. \A j \in 1 .. l : e + j - 1 \in 1 .. N /\ e + j - 1 <= N
      BY <3>2
    <3>4. GapOn(t, e, z[i + 1])
      BY <1>4, <2>1, <3>1
    <3>5. GapOn(u, e, z[i + 1])
      BY <1>1, <1>7, <3>1, <3>3, <3>4 DEF GapOn
    <3> QED
      BY <1>10, <1>11, <2>1, <3>1, <3>5
  <2>2. CASE i = n + 1
    <3>1. y[i + 1] = << >>
      BY <1>10, <2>2
    <3>2. PICK g : g = y[i + 1]
      OBVIOUS
    <3>3. Len(g) = 0
      BY <3>1, <3>2
    <3> QED
      BY <3>2, <3>3 DEF GapOn
  <2> QED
    BY <2>1, <2>2
<1>17. Laid(u, v, y, d, 0)
  BY <1>0, <1>9, <1>14, <1>15, <1>16 DEF Laid
<1> QED
  BY <1>1, <1>2, <1>3, <1>17
-----------------------------------------------------------------------------
(* align_to_sync.                                                          *)
(* A set of naturals that is not empty has a least member.                 *)
LEMMA LeastNat ==
  ASSUME NEW T \in SUBSET Nat, T # {}
  PROVE  \E n \in T : \A k \in T : n <= k
<1>1. IsWellFoundedOn(OpToRel(<, Nat), Nat)
  BY NatLessThanWellFounded
<1>2. \A k, n \in Nat : k < n => << k, n >> \in OpToRel(<, Nat)
  BY DEF OpToRel
<1>3. PICK R : R = OpToRel(<, Nat)
  OBVIOUS
<1>4. \A k, n \in Nat : k < n => << k, n >> \in R
  BY <1>2, <1>3, Zenon
<1>5. IsWellFoundedOn(R, Nat) /\ T \subseteq Nat
  BY <1>1, <1>3, Zenon
<1>6. \E n \in T : \A k \in T : ~(<< k, n >> \in R)
  BY <1>5, WFMin, Zenon
<1>7. \A k, n \in T : ~(k < n) => n <= k
  OBVIOUS
<1>8. \A k \in T : k \in Nat
  OBVIOUS
<1> QED
  BY <1>4, <1>6, <1>7, <1>8, Zenon

Stops(p, q) == AtSync(q) \/ q = p + kResyncWindow \/ Remaining(q) < 2

LEMMA ScanFacts ==
  ASSUME NEW p \in Nat
  PROVE  /\ ScanEnd(p) \in p .. (p + kResyncWindow) /\ Stops(p, ScanEnd(p))
         /\ \A r \in p .. (ScanEnd(p) - 1) : ~Stops(p, r)
<1>1. kResyncWindow \in Nat
  BY FrameReaderAssumption
<1> DEFINE T == {q \in p .. (p + kResyncWindow) : Stops(p, q)}
<1>2. p + kResyncWindow \in T /\ T \in SUBSET Nat
  BY <1>1 DEF Stops
<1>3. PICK q \in T : \A k \in T : q <= k
  BY <1>2, LeastNat
<1>4. \A r \in p .. (q - 1) : ~Stops(p, r)
  <2>1. ASSUME NEW r \in p .. (q - 1) PROVE r \in p .. (p + kResyncWindow) /\ ~(q <= r)
    BY <1>1, <1>3
  <2> QED
    BY <1>3, <2>1
<1>5. ScanEnd(p) = CHOOSE x \in p .. (p + kResyncWindow) :
                     Stops(p, x) /\ \A r \in p .. (x - 1) : ~Stops(p, r)
  BY DEF ScanEnd, Stops
<1> QED
  BY <1>3, <1>4, <1>5

(* Nothing looks like a sync word before A: the scan stops there, or finds *)
(* no sync word at all.                                                    *)
ClearTo(p, A, N) ==
  /\ p \in Nat /\ A \in Nat /\ p <= A
  /\ \A q \in p .. (A - 1) : ~AtSync(q)
  /\ A + 1 <= N => AtSync(A)

LEMMA AlignFacts ==
  ASSUME NEW N \in Nat, N = Len(tape), NEW p, NEW A, ClearTo(p, A, N),
         NEW first \in BOOLEAN, NEW a, a = align_to_sync(p, first)
  PROVE  /\ a.error = "none" => (a.pos = A /\ A + 1 <= N) \/ a.pos = N + 1
         /\ A + 1 <= N /\ A < p + kResyncWindow /\ (first => A = p) =>
              a.error = "none" /\ a.pos = A
<1>0. /\ p \in Nat /\ A \in Nat /\ p <= A
      /\ \A q \in p .. (A - 1) : ~AtSync(q)
      /\ A + 1 <= N => AtSync(A)
  BY DEF ClearTo
<1>1. kResyncWindow \in Nat
  BY FrameReaderAssumption
<1>2. PICK q : q = ScanEnd(p)
  OBVIOUS
<1>3. /\ q \in p .. (p + kResyncWindow) /\ Stops(p, q)
      /\ \A r \in p .. (q - 1) : ~Stops(p, r)
  BY <1>0, <1>2, ScanFacts
<1>4. ASSUME NEW r \in Nat, AtSync(r) PROVE r + 1 <= N
  <2>1. N - r + 1 >= 2
    BY <1>4 DEF AtSync, Remaining
  <2> QED
    BY <2>1
<1>5. ASSUME AtSync(p) PROVE A = p /\ A + 1 <= N
  <2>1. ~(p \in p .. (A - 1))
    BY <1>0, <1>5
  <2>2. A = p
    BY <1>0, <2>1
  <2> QED
    BY <1>0, <1>4, <1>5, <2>2
<1>6. ASSUME AtSync(q) PROVE A = q /\ A + 1 <= N
  <2>1. q \in Nat /\ ~(q \in p .. (A - 1))
    BY <1>0, <1>1, <1>3, <1>6
  <2>2. A <= q
    BY <1>0, <1>3, <2>1
  <2>3. q + 1 <= N
    BY <1>4, <1>6, <2>1
  <2>4. AtSync(A)
    BY <1>0, <2>1, <2>2, <2>3
  <2>5. ~(A < q)
    <3>1. SUFFICES ASSUME A < q PROVE FALSE
      OBVIOUS
    <3>2. A \in p .. (q - 1)
      BY <1>0, <2>1, <3>1
    <3> QED
      BY <1>3, <2>4, <3>2 DEF Stops
  <2> QED
    BY <1>0, <2>1, <2>2, <2>3, <2>5
<1>7. ASSUME A + 1 <= N, A < p + kResyncWindow
      PROVE  q = A /\ AtSync(q) /\ q < p + kResyncWindow
  <2>1. AtSync(A)
    BY <1>0, <1>7
  <2>2. q \in Nat /\ ~(A \in p .. (q - 1))
    BY <1>0, <1>1, <1>3, <2>1 DEF Stops
  <2>3. q <= A
    BY <1>0, <2>2
  <2>4. ~(N - q + 1 < 2) /\ q # p + kResyncWindow
    BY <1>0, <1>1, <1>7, <2>2, <2>3
  <2>5. AtSync(q)
    BY <1>3, <2>4 DEF Stops, Remaining
  <2> QED
    BY <1>1, <1>6, <1>7, <2>5
<1>8. a = IF AtSync(p) THEN Aligned(p, "none")
          ELSE IF first THEN Aligned(p, "BadMagic")
          ELSE IF q < p + kResyncWindow /\ AtSync(q) THEN Aligned(q, "none")
          ELSE IF Remaining(q) < 2 THEN Aligned(N + 1, "none")
          ELSE Aligned(q, "BadMagic")
  BY <1>2 DEF align_to_sync
<1>9. \A x, c : Aligned(x, c).pos = x /\ Aligned(x, c).error = c
  BY DEF Aligned
<1>10. ASSUME a.error = "none" PROVE (a.pos = A /\ A + 1 <= N) \/ a.pos = N + 1
  <2>1. CASE AtSync(p)
    BY <1>5, <1>8, <1>9, <2>1
  <2>2. CASE ~AtSync(p) /\ first
    BY <1>8, <1>9, <1>10, <2>2
  <2>3. CASE ~AtSync(p) /\ ~first /\ q < p + kResyncWindow /\ AtSync(q)
    BY <1>6, <1>8, <1>9, <2>3
  <2>4. CASE ~AtSync(p) /\ ~first /\ ~(q < p + kResyncWindow /\ AtSync(q))
    BY <1>8, <1>9, <1>10, <2>4
  <2> QED
    BY <2>1, <2>2, <2>3, <2>4
<1>11. ASSUME A + 1 <= N, A < p + kResyncWindow, first => A = p
       PROVE  a.error = "none" /\ a.pos = A
  <2>1. CASE AtSync(p)
    BY <1>5, <1>8, <1>9, <2>1
  <2>2. CASE ~AtSync(p) /\ first
    BY <1>7, <1>11, <2>2
  <2>3. CASE ~AtSync(p) /\ ~first
    BY <1>7, <1>8, <1>9, <1>11, <2>3
  <2> QED
    BY <2>1, <2>2, <2>3
<1> QED
  BY <1>10, <1>11

(* The symbol of a gap that stands at q.                                   *)
GapAt(p, l, q, j) ==
  j \in 1 .. l /\ q = p + j - 1 /\ q + 1 = p + (j + 1) - 1 /\ (j = l => q + 1 = p + l)

LEMMA GapIndex ==
  ASSUME NEW p \in Nat, NEW l \in Nat, NEW q \in Nat, p <= q, q <= (p + l) - 1
  PROVE  \E j : GapAt(p, l, q, j)
<1>1. PICK j : j = (q - p) + 1
  OBVIOUS
<1>2. j \in 1 .. l
  BY <1>1
<1>3. q = p + j - 1
  BY <1>1
<1>4. q + 1 = p + (j + 1) - 1
  BY <1>1
<1>5. j = l => q + 1 = p + l
  BY <1>1
<1> QED
  BY <1>2, <1>3, <1>4, <1>5 DEF GapAt

(* From behind a frame, through noise without a sync word, to the next.    *)
LEMMA ClearRun ==
  ASSUME NEW d, NEW c, Laid(tape, sent, noise, d, c),
         NEW k \in 0 .. Len(sent), SyncFree(NoiseAfter(k)),
         NEW p, p = EndIn(sent, k), NEW A, A = p + Len(noise[k + 1])
  PROVE  /\ p >= 1 /\ ClearTo(p, A, Len(tape))
         /\ k < Len(sent) => A = sent[k + 1].at
         /\ A + 1 <= Len(tape) => k < Len(sent)
<1>0. Placed(tape, sent, noise, c) /\ tape \in Seq(Tokens) /\ sent \in Seq(SentSet)
  BY DEF Laid, Placed
<1>1. PICK n \in Nat, N \in Nat : n = Len(sent) /\ N = Len(tape)
  BY <1>0, PlacedFacts
<1>2. PICK g, l : g = noise[k + 1] /\ l = Len(g)
  OBVIOUS
<1>3. p \in Nat /\ g \in Seq(Symbols) /\ l \in Nat /\ A = p + l /\ c \in Nat
  BY <1>0, <1>2, PlacedFacts
<1>4. p >= 1
  <2>1. CASE k = 0
    BY <2>1 DEF EndIn
  <2>2. CASE k \in 1 .. n
    <3>1. PICK a, R : a = sent[k].at /\ R = Room(sent[k].spec)
      OBVIOUS
    <3>2. a \in Nat /\ R \in Nat /\ a >= 1 /\ EndIn(sent, k) = a + R
      BY <1>0, <1>1, <2>2, <3>1, PlacedFacts
    <3> QED
      BY <3>2
  <2> QED
    BY <1>1, <2>1, <2>2
<1>5. A \in Nat /\ p <= A
  BY <1>3
<1>6. A = IF k < n THEN sent[k + 1].at ELSE N + c + 1
  BY <1>0, <1>1 DEF Placed
<1>7. A <= N => k < n
  BY <1>1, <1>3, <1>6
<1>8. \A x \in Nat : AtSync(x) => x + 1 <= N
  <2>1. ASSUME NEW x \in Nat, AtSync(x) PROVE x + 1 <= N
    <3>1. N - x + 1 >= 2
      BY <1>1, <2>1 DEF AtSync, Remaining
    <3> QED
      BY <3>1
  <2> QED
    BY <2>1
<1>9. PICK a, b : a = Byte("sync1") /\ b = Byte("sync2")
  OBVIOUS
<1>10. a # b
  BY <1>9 DEF Byte
<1>11. \A x \in 1 .. (N - 1) : AtSync(x) <=> tape[x] = a /\ tape[x + 1] = b
  <2>1. ASSUME NEW x \in 1 .. (N - 1) PROVE AtSync(x) <=> tape[x] = a /\ tape[x + 1] = b
    <3>1. SubSeq(tape, x, x + 1) = Sync <=> tape[x] = a /\ tape[x + 1] = b
      BY <1>0, <1>1, <1>9, PairAt
    <3>2. Remaining(x) >= 2
      BY <1>1 DEF Remaining
    <3> QED
      BY <3>1, <3>2 DEF AtSync
  <2> QED
    BY <2>1
<1>12. ASSUME k < n
       PROVE  (A <= N => tape[A] = a) /\ (A + 1 <= N => tape[A + 1] = b)
  <2>1. PICK m \in 1 .. n : m = k + 1
    BY <1>1, <1>12
  <2>2. A = sent[m].at
    BY <1>6, <1>12, <2>1
  <2>3. PICK spec, R : spec = sent[m].spec /\ R = Room(spec)
    OBVIOUS
  <2>4. spec \in Specs /\ R \in Nat /\ R >= 3
    BY <1>0, <1>1, <2>3, PlacedFacts
  <2>5. FrameOn(tape, A, spec, d)
    BY <1>1, <2>1, <2>2, <2>3 DEF Laid
  <2>6. encode_frame(spec)[1] = a /\ encode_frame(spec)[2] = b
    BY <1>9, <2>4, Encoded
  <2>7. 1 \in 1 .. R /\ 2 \in 1 .. R /\ A + 1 - 1 = A /\ A + 2 - 1 = A + 1
    BY <1>5, <2>4
  <2>8. \A j \in 1 .. R : j # 3 /\ A + j - 1 <= N => tape[A + j - 1] = encode_frame(spec)[j]
    BY <1>1, <2>3, <2>5 DEF FrameOn
  <2>9. A + 1 - 1 <= N => tape[A + 1 - 1] = encode_frame(spec)[1]
    BY <2>7, <2>8
  <2>10. A + 2 - 1 <= N => tape[A + 2 - 1] = encode_frame(spec)[2]
    BY <2>7, <2>8
  <2> QED
    BY <2>6, <2>7, <2>9, <2>10
<1>13. ASSUME NEW q \in p .. (A - 1), AtSync(q) PROVE FALSE
  <2>1. q \in Nat /\ q + 1 <= N /\ q >= 1
    BY <1>3, <1>4, <1>5, <1>8, <1>13
  <2>2. tape[q] = a /\ tape[q + 1] = b
    <3>1. q \in 1 .. (N - 1)
      BY <1>1, <2>1
    <3> QED
      BY <1>11, <1>13, <3>1
  <2>0. p \in Nat /\ l \in Nat /\ q \in Nat /\ p <= q /\ q <= (p + l) - 1
    BY <1>3, <1>13, <2>1
  <2>3. PICK j : GapAt(p, l, q, j)
    BY <2>0, GapIndex
  <2>4. j \in 1 .. l /\ q = p + j - 1 /\ q + 1 = p + (j + 1) - 1
    BY <2>3 DEF GapAt
  <2>5. GapOn(tape, p, g)
    BY <1>1, <1>2 DEF Laid
  <2>6. tape[q] = g[j]
    <3>1. p + j - 1 <= N
      BY <1>3, <2>1, <2>4
    <3> QED
      BY <1>1, <1>2, <2>4, <2>5, <3>1 DEF GapOn
  <2>7. CASE j < l
    <3>1. j + 1 \in 1 .. l /\ p + (j + 1) - 1 <= N
      BY <1>3, <2>1, <2>4, <2>7
    <3>2. tape[p + (j + 1) - 1] = g[j + 1]
      BY <1>1, <1>2, <2>5, <3>1 DEF GapOn
    <3>3. g[j] = a /\ g[j + 1] = b
      BY <2>2, <2>4, <2>6, <3>2
    <3>4. j \in 1 .. (Len(g) - 1)
      BY <1>2, <1>3, <2>4, <2>7
    <3>5. SubSeq(g, j, j + 1) = Sync
      BY <1>3, <1>9, <3>3, <3>4, PairAt
    <3> QED
      BY <1>2, <3>4, <3>5 DEF SyncFree, NoiseAfter
  <2>8. CASE j = l
    <3>1. q + 1 = A
      BY <1>3, <2>3, <2>8 DEF GapAt
    <3>2. A <= N /\ k < n
      BY <1>7, <2>1, <3>1
    <3> QED
      BY <1>10, <1>12, <2>2, <3>1, <3>2
  <2> QED
    BY <1>3, <2>4, <2>7, <2>8
<1>14. ASSUME A + 1 <= N PROVE k < n /\ AtSync(A)
  <2>1. A >= 1 /\ A <= N /\ A <= N - 1
    <3>1. p \in Nat /\ p >= 1 /\ A \in Nat /\ p <= A
      BY <1>3, <1>4, <1>5
    <3> QED
      BY <1>14, <3>1
  <2>2. k < n
    BY <1>7, <2>1
  <2>3. A \in 1 .. (N - 1)
    BY <1>1, <1>5, <2>1
  <2>4. tape[A] = a /\ tape[A + 1] = b
    BY <1>12, <1>14, <2>1, <2>2
  <2> QED
    BY <1>11, <2>2, <2>3, <2>4
<1>15. ClearTo(p, A, N)
  BY <1>3, <1>5, <1>13, <1>14 DEF ClearTo
<1> QED
  BY <1>1, <1>4, <1>6, <1>14, <1>15

(* What next() finds behind the k-th frame.                                *)
LEMMA NextFound ==
  ASSUME NEW d \in Nat, NEW c, Laid(tape, sent, noise, d, c),
         NEW k \in 0 .. Len(sent), SyncFree(NoiseAfter(k)),
         NEW first \in BOOLEAN, NEW r, r = next(EndIn(sent, k), first),
         r.error = "none",
         d = 0 \/ ((k < Len(sent) => sent[k + 1].spec.with_crc) /\ r.frame.crc_ok)
  PROVE  k < Len(sent) /\ r.frame = Written(k + 1) /\ r.end = EndIn(sent, k + 1)
<1>0. Placed(tape, sent, noise, c) /\ tape \in Seq(Tokens) /\ sent \in Seq(SentSet)
  BY DEF Laid, Placed
<1>1. PICK n \in Nat, N \in Nat : n = Len(sent) /\ N = Len(tape)
  BY <1>0, PlacedFacts
<1>2. PICK p, A : p = EndIn(sent, k) /\ A = p + Len(noise[k + 1])
  OBVIOUS
<1>3. /\ p >= 1 /\ ClearTo(p, A, N)
      /\ k < n => A = sent[k + 1].at
      /\ A + 1 <= N => k < n
      /\ p \in Nat /\ A \in Nat /\ p <= A
  <2>1. /\ p >= 1 /\ ClearTo(p, A, N)
        /\ k < n => A = sent[k + 1].at
        /\ A + 1 <= N => k < n
    BY <1>1, <1>2, ClearRun
  <2> QED
    BY <2>1 DEF ClearTo
<1>4. PICK a : a = align_to_sync(p, first)
  OBVIOUS
<1>5. a.error = "none" => (a.pos = A /\ A + 1 <= N) \/ a.pos = N + 1
  BY <1>1, <1>3, <1>4, AlignFacts
<1>6. r = IF a.error # "none" THEN Thrown(a.error)
          ELSE IF Remaining(a.pos) < 3 THEN Thrown("ShortRead")
          ELSE IF tape[a.pos + 2][1] # "header" THEN Thrown("BadVersion")
          ELSE LET h == tape[a.pos + 2][2] IN
               IF h.version # 1 THEN Thrown("BadVersion")
               ELSE IF h.type \notin Types THEN Thrown("BadType")
               ELSE Body(a.pos, h)
  BY <1>2, <1>4 DEF next
<1>7. \A x : Thrown(x).error = x
  BY DEF Thrown
<1>8. a.error = "none" /\ ~(Remaining(a.pos) < 3)
  BY <1>6, <1>7
<1>9. a.pos = A /\ A + 2 <= N /\ A + 1 <= N
  <2>1. a.pos = A \/ a.pos = N + 1
    BY <1>5, <1>8
  <2>2. ~(N - a.pos + 1 < 3)
    BY <1>1, <1>8 DEF Remaining
  <2>3. a.pos # N + 1
    BY <2>2
  <2> QED
    BY <1>3, <2>1, <2>2, <2>3
<1>10. k < n /\ A = sent[k + 1].at
  BY <1>3, <1>9
<1>11. PICK m \in 1 .. n : m = k + 1
  BY <1>1, <1>10
<1>12. PICK spec, L, R : spec = sent[m].spec /\ L = Lead(spec) /\ R = Room(spec)
  OBVIOUS
<1>13. spec \in Specs
  BY <1>0, <1>1, <1>12, PlacedFacts
<1>14. PICK y, e : y = Carried(spec) /\ e = Len(y)
  OBVIOUS
<1>15. /\ R = L + e /\ L \in {3, 4} /\ e \in Nat /\ R \in Nat
       /\ spec.with_crc \in BOOLEAN /\ y \in Seq(Symbols)
  BY <1>12, <1>13, <1>14, SpecTypes DEF Room
<1>16. FrameOn(tape, A, spec, d)
  BY <1>1, <1>10, <1>11, <1>12 DEF Laid
<1>17. PICK h \in Headers : tape[A + 2] = Header(h) /\ (d = 0 => h = Fields(spec))
  BY <1>1, <1>9, <1>16 DEF FrameOn
<1>18. tape[A + 2][1] = "header" /\ tape[A + 2][2] = h
  BY <1>17 DEF Header
<1>19. r = Body(A, h)
  BY <1>6, <1>7, <1>8, <1>9, <1>18
<1>20. PICK b, o : /\ b = A + 3 + (IF h.has_crc THEN 1 ELSE 0)
                   /\ o = (h.has_crc /\ tape[A + 3] = crc16(h))
  OBVIOUS
<1>21. r = IF b - 1 > N \/ b + h.payload_len - 1 > N THEN Thrown("ShortRead")
           ELSE Parsed(h, o, SubSeq(tape, b, b + h.payload_len - 1), A, b + h.payload_len)
  BY <1>1, <1>19, <1>20 DEF Body
<1>22. ~(b - 1 > N \/ b + h.payload_len - 1 > N)
  BY <1>7, <1>21
<1>23. r = Parsed(h, o, SubSeq(tape, b, b + h.payload_len - 1), A, b + h.payload_len)
  BY <1>21, <1>22
<1>24. /\ r.frame = [id |-> h.id, type |-> h.type, has_crc |-> h.has_crc, crc_ok |-> o,
                     payload |-> SubSeq(tape, b, b + h.payload_len - 1),
                     header_offset |-> A]
       /\ r.end = b + h.payload_len
  BY <1>23 DEF Parsed
<1>25. \A j \in 1 .. R : j # 3 /\ A + j - 1 <= N => tape[A + j - 1] = encode_frame(spec)[j]
  BY <1>1, <1>12, <1>16 DEF FrameOn
<1>26. ASSUME spec.with_crc, A + 3 <= N PROVE tape[A + 3] = crc16(Fields(spec))
  <2>1. L = 4
    BY <1>12, <1>26 DEF Lead
  <2>2. 4 \in 1 .. R /\ A + 4 - 1 = A + 3
    BY <1>3, <1>15, <2>1
  <2>3. tape[A + 4 - 1] = encode_frame(spec)[4]
    BY <1>25, <1>26, <2>2
  <2> QED
    BY <1>13, <1>26, <2>2, <2>3, Encoded
<1>27. h = Fields(spec)
  <2>1. CASE d = 0
    BY <1>17, <2>1
  <2>2. CASE d # 0
    <3>1. spec.with_crc /\ r.frame.crc_ok
      BY <1>1, <1>10, <1>11, <1>12, <2>2
    <3>2. r.frame.crc_ok = o
      BY <1>24
    <3>3. h.has_crc /\ tape[A + 3] = crc16(h)
      BY <1>20, <3>1, <3>2
    <3>4. A + 3 <= N
      <4>1. b = A + 3 + 1
        BY <1>20, <3>3
      <4> QED
        BY <1>1, <1>3, <1>22, <4>1
    <3>5. crc16(h) = crc16(Fields(spec))
      BY <1>26, <3>1, <3>3, <3>4
    <3> QED
      BY <3>5 DEF crc16
  <2> QED
    BY <2>1, <2>2
<1>28. /\ h.id = spec.id /\ h.type = spec.type /\ h.has_crc = spec.with_crc
       /\ h.payload_len = e
  BY <1>14, <1>27 DEF Fields
<1>29. b = A + L
  <2>1. CASE spec.with_crc
    BY <1>3, <1>12, <1>20, <1>28, <2>1 DEF Lead
  <2>2. CASE ~spec.with_crc
    BY <1>3, <1>12, <1>20, <1>28, <2>2 DEF Lead
  <2> QED
    BY <2>1, <2>2
<1>30. A + R <= N + 1 /\ A + L <= N + 1
  <2>1. ~((A + L) + e - 1 > N)
    BY <1>22, <1>28, <1>29
  <2>2. L \in Nat /\ e \in Nat /\ R = L + e /\ A \in Nat
    BY <1>3, <1>15
  <2>3. (A + L) + e <= N + 1
    BY <2>1, <2>2
  <2> QED
    BY <2>2, <2>3
<1>31. o = spec.with_crc
  <2>1. CASE spec.with_crc
    <3>1. L = 4
      BY <1>12, <2>1 DEF Lead
    <3>2. A + 3 <= N
      BY <1>3, <1>30, <3>1
    <3>3. tape[A + 3] = crc16(h)
      BY <1>26, <1>27, <2>1, <3>2
    <3>4. h.has_crc
      BY <1>28, <2>1
    <3>5. o = TRUE
      BY <1>20, <3>3, <3>4
    <3>6. spec.with_crc = TRUE
      BY <2>1, <1>15
    <3> QED
      BY <3>5, <3>6
  <2>2. CASE ~spec.with_crc
    <3>1. ~h.has_crc
      BY <1>28, <2>2
    <3>2. o = FALSE
      BY <1>20, <3>1
    <3>3. spec.with_crc = FALSE
      BY <2>2, <1>15
    <3> QED
      BY <3>2, <3>3
  <2> QED
    BY <2>1, <2>2
<1>32. SubSeq(tape, b, b + h.payload_len - 1) = y
  <2>1. PICK w, f : w = SubSeq(tape, b, f) /\ f = b + e - 1
    OBVIOUS
  <2>2. b \in Nat /\ b >= 1 /\ f <= N /\ f = A + L + e - 1 /\ b = A + L
    BY <1>3, <1>15, <1>29, <1>30, <2>1
  <2>3. b \in 1 .. (f + 1) /\ f \in Int /\ f - b + 1 = e
    BY <1>3, <1>15, <2>2
  <2>4. /\ w \in Seq(Tokens) /\ Len(w) = e
        /\ \A j \in 1 .. e : w[j] = tape[b + j - 1]
    <3>1. b \in Int /\ f \in Int /\ \A i \in b .. f : tape[i] \in Tokens
      BY <1>0, <1>1, <2>2, <2>3
    <3>2. w \in Seq(Tokens) /\ Len(w) = (IF b <= f THEN f - b + 1 ELSE 0)
      BY <2>1, <3>1, SubSeqProperties
    <3>3. \A j \in 1 .. (f - b + 1) : w[j] = tape[b + j - 1]
      BY <2>1, <3>1, SubSeqProperties
    <3>4. f - b + 1 = e /\ e \in Nat
      BY <1>15, <2>3
    <3>5. b \in Nat /\ f \in Int
      BY <2>2, <2>3
    <3>6. b <= f <=> e # 0
      BY <3>4, <3>5
    <3> QED
      BY <3>2, <3>3, <3>4, <3>6
  <2>5. ASSUME NEW j \in 1 .. e PROVE w[j] = y[j]
    <3>1. L + j \in 1 .. R /\ L + j # 3 /\ A + (L + j) - 1 = b + j - 1 /\ A + (L + j) - 1 <= N
      BY <1>3, <1>15, <1>30, <2>2
    <3>2. tape[A + (L + j) - 1] = encode_frame(spec)[L + j]
      BY <1>25, <3>1
    <3>3. encode_frame(spec)[L + j] = y[j]
      BY <1>12, <1>13, <1>14, Encoded
    <3> QED
      BY <2>4, <3>1, <3>2, <3>3
  <2>6. y \in Seq(Tokens)
    <3>1. Symbols \subseteq Tokens
      BY DEF Tokens
    <3> QED
      BY <1>15, <3>1, SeqMonotonic
  <2>7. w = y
    BY <1>14, <2>4, <2>5, <2>6, SeqEqual
  <2> QED
    BY <1>28, <2>1, <2>7
<1>33. r.frame = Written(m)
  <2>1. Written(m) = [id |-> spec.id, type |-> spec.type, has_crc |-> spec.with_crc,
                      crc_ok |-> spec.with_crc, payload |-> y, header_offset |-> A]
    BY <1>10, <1>11, <1>12, <1>14 DEF Written
  <2> QED
    BY <1>24, <1>28, <1>31, <1>32, <2>1
<1>34. r.end = EndIn(sent, m)
  <2>1. r.end = A + R
    BY <1>3, <1>15, <1>24, <1>28, <1>29
  <2>2. EndIn(sent, m) = sent[m].at + Room(sent[m].spec)
    BY <1>0, <1>1, PlacedFacts
  <2> QED
    BY <1>10, <1>11, <1>12, <2>1, <2>2
<1> QED
  BY <1>1, <1>10, <1>11, <1>33, <1>34

(* A stream without damage and with little noise: next() does not throw.   *)
LEMMA NextClean ==
  ASSUME Laid(tape, sent, noise, 0, 0),
         NEW k \in 0 .. Len(sent), k < Len(sent), SyncFree(NoiseAfter(k)),
         NEW l, l = Len(NoiseAfter(k)), l < kResyncWindow,
         NEW first \in BOOLEAN, first => l = 0,
         NEW r, r = next(EndIn(sent, k), first)
  PROVE  r.error = "none"
<1>0. Placed(tape, sent, noise, 0) /\ tape \in Seq(Tokens)
  BY DEF Laid, Placed
<1>1. PICK n \in Nat, N \in Nat : n = Len(sent) /\ N = Len(tape)
  BY <1>0, PlacedFacts
<1>2. PICK p, A : p = EndIn(sent, k) /\ A = p + l
  OBVIOUS
<1>3. /\ p >= 1 /\ ClearTo(p, A, N) /\ A = sent[k + 1].at
      /\ p \in Nat /\ A \in Nat /\ l \in Nat
  <2>1. p >= 1 /\ ClearTo(p, A, N) /\ A = sent[k + 1].at
    BY <1>1, <1>2, ClearRun DEF NoiseAfter
  <2>2. l \in Nat
    BY <1>0, PlacedFacts DEF NoiseAfter
  <2> QED
    BY <2>1, <2>2 DEF ClearTo
<1>4. PICK m \in 1 .. n : m = k + 1
  BY <1>1
<1>5. PICK spec, L, R, e : /\ spec = sent[m].spec /\ L = Lead(spec) /\ R = Room(spec)
                           /\ e = Len(Carried(spec))
  OBVIOUS
<1>6. spec \in Specs /\ A = sent[m].at
  BY <1>0, <1>1, <1>3, <1>4, <1>5, PlacedFacts
<1>7. /\ R = L + e /\ L \in {3, 4} /\ e \in Nat
      /\ spec.with_crc \in BOOLEAN /\ spec.type \in Types
  BY <1>5, <1>6, SpecTypes DEF Room
<1>8. A + R <= N + 1
  BY <1>0, <1>1, <1>4, <1>5, <1>6, Inside
<1>9. A + 2 <= N /\ A + 1 <= N
  <2>1. R \in Nat /\ R >= 3
    BY <1>5, <1>6, SpecTypes
  <2> QED
    BY <1>3, <1>8, <2>1
<1>10. PICK a : a = align_to_sync(p, first)
  OBVIOUS
<1>11. a.error = "none" /\ a.pos = A
  <2>1. kResyncWindow \in Nat
    BY FrameReaderAssumption
  <2>2. A < p + kResyncWindow /\ (first => A = p)
    BY <1>2, <1>3, <2>1
  <2> QED
    BY <1>1, <1>3, <1>9, <1>10, <2>2, AlignFacts
<1>12. ~(Remaining(A) < 3)
  BY <1>1, <1>3, <1>9 DEF Remaining
<1>13. PICK h : h = Fields(spec)
  OBVIOUS
<1>14. tape[A + 2] = Header(h)
  <2>1. FrameOn(tape, A, spec, 0)
    BY <1>1, <1>4, <1>5, <1>6 DEF Laid
  <2> QED
    BY <1>1, <1>9, <1>13, <2>1 DEF FrameOn
<1>15. tape[A + 2][1] = "header" /\ tape[A + 2][2] = h
  BY <1>14 DEF Header
<1>16. h.version = 1 /\ h.type \in Types /\ h.has_crc = spec.with_crc /\ h.payload_len = e
  BY <1>5, <1>7, <1>13 DEF Fields
<1>17. r = Body(A, h)
  BY <1>2, <1>10, <1>11, <1>12, <1>15, <1>16 DEF next
<1>18. PICK b, o : /\ b = A + 3 + (IF h.has_crc THEN 1 ELSE 0)
                   /\ o = (h.has_crc /\ tape[A + 3] = crc16(h))
  OBVIOUS
<1>19. r = IF b - 1 > N \/ b + h.payload_len - 1 > N THEN Thrown("ShortRead")
           ELSE Parsed(h, o, SubSeq(tape, b, b + h.payload_len - 1), A, b + h.payload_len)
  BY <1>1, <1>17, <1>18 DEF Body
<1>20. b = A + L
  <2>1. CASE spec.with_crc
    BY <1>3, <1>5, <1>16, <1>18, <2>1 DEF Lead
  <2>2. CASE ~spec.with_crc
    BY <1>3, <1>5, <1>16, <1>18, <2>2 DEF Lead
  <2> QED
    BY <2>1, <2>2
<1>21. ~(b - 1 > N) /\ ~(b + e - 1 > N)
  <2>1. L \in Nat /\ e \in Nat /\ A \in Nat /\ b = A + L /\ (A + L) + e <= N + 1
    <3>1. L \in Nat /\ e \in Nat /\ A \in Nat /\ b = A + L /\ R = L + e
      BY <1>3, <1>7, <1>20
    <3>2. (A + L) + e = A + R
      BY <3>1
    <3> QED
      BY <1>8, <3>1, <3>2
  <2>2. b \in Nat /\ b + e <= N + 1
    BY <2>1
  <2> QED
    BY <2>1, <2>2
<1>22. \A x, y, u, v, w : Parsed(x, y, u, v, w).error = "none"
  BY DEF Parsed
<1>23. r = Parsed(h, o, SubSeq(tape, b, b + h.payload_len - 1), A, b + h.payload_len)
  BY <1>16, <1>19, <1>21
<1> QED
  BY <1>22, <1>23
-----------------------------------------------------------------------------
(* The inductive invariant.                                                *)
Quiet == \A k \in 0 .. Len(sent) : SyncFree(NoiseAfter(k))

Trusted ==
  \/ damaged = 0
  \/ /\ \A i \in DOMAIN sent : sent[i].spec.with_crc
     /\ \A i \in DOMAIN seen : seen[i].has_crc /\ seen[i].crc_ok

(* What was read is what was written, and the reader stands behind it.     *)
OnPath ==
  /\ Len(seen) <= Len(sent) /\ pos = EndIn(sent, Len(seen))
  /\ \A i \in DOMAIN seen : seen[i] = Written(i)

(* Of the first m frames those of a type, and those with a CRC.            *)
Among(s, type, m) == {i \in 1 .. m : s[i].spec.type = type}

Sealed(s, m) == {i \in 1 .. m : s[i].spec.with_crc}

(* The n-th record of a list is the one of the n-th frame of its type.     *)
Listed(s, type, m, list, value) ==
  /\ \E S : list \in Seq(S)
  /\ Len(list) = Cardinality(Among(s, type, m))
  /\ \A i \in Among(s, type, m) : list[Cardinality(Among(s, type, i))] = value[i]

Ids(s) == [i \in DOMAIN s |-> s[i].spec.id]

Updates(s) == [i \in DOMAIN s |-> Announced(s[i].spec)]

Tallied ==
  /\ result.header_crc_bad = 0
  /\ result.header_crc_ok = Cardinality(Sealed(sent, Len(seen)))
  /\ Listed(sent, "ACK", Len(seen), result.acks, Ids(sent))
  /\ Listed(sent, "CONTROL", Len(seen), result.controls, Updates(sent))

ReadInv ==
  /\ Laid(tape, sent, noise, damaged, cut)
  /\ \E S : seen \in Seq(S)
  /\ status = "write" => pos = 1 /\ seen = << >> /\ result = NoResult
  /\ Quiet /\ Trusted => OnPath
  /\ Quiet /\ damaged = 0 /\ status \in {"read", "done"} => Tallied
  /\ status = "done" => pos > Len(tape)
  /\ Benign => status \in {"write", "read", "done"}

(* B is what C has up to m, and the number m + 1 is all C can have more.   *)
UpTo(m, B, C) == C \subseteq 1 .. (m + 1) /\ B = C \ {m + 1}

Counted(m, B, C) ==
  /\ Cardinality(B) \in Nat
  /\ Cardinality(C) = Cardinality(B) + (IF m + 1 \in C THEN 1 ELSE 0)

(* How many of a set's members are among the first m + 1 numbers.          *)
LEMMA CountStep ==
  ASSUME NEW m \in Nat, NEW B, NEW C, UpTo(m, B, C)
  PROVE  Counted(m, B, C)
<1> USE DEF UpTo
<1>1. IsFiniteSet(B) /\ Cardinality(B) \in Nat /\ m + 1 \notin B
  <2>1. IsFiniteSet(1 .. (m + 1)) /\ B \subseteq 1 .. (m + 1)
    BY FS_Interval
  <2> QED
    BY <2>1, FS_Subset, FS_CardinalityType
<1>2. CASE m + 1 \in C
  <2>1. C = B \cup {m + 1}
    BY <1>2
  <2>2. Cardinality(C) = Cardinality(B) + 1
    BY <1>1, <2>1, FS_AddElement
  <2> QED
    BY <1>1, <1>2, <2>2 DEF Counted
<1>3. CASE m + 1 \notin C
  <2>1. C = B
    BY <1>3
  <2>2. PICK b \in Nat : b = Cardinality(B)
    BY <1>1
  <2>3. Cardinality(C) = b + 0
    BY <2>1, <2>2
  <2> QED
    BY <1>3, <2>2, <2>3 DEF Counted
<1> QED
  BY <1>2, <1>3

(* The rank of a frame among those of its type.                            *)
LEMMA RankWithin ==
  ASSUME NEW s, NEW type, NEW m \in Nat, NEW i \in Among(s, type, m)
  PROVE  /\ Cardinality(Among(s, type, m)) \in Nat
         /\ Cardinality(Among(s, type, i)) \in 1 .. Cardinality(Among(s, type, m))
<1>1. PICK B, C : B = Among(s, type, i) /\ C = Among(s, type, m)
  OBVIOUS
<1>2. i \in 1 .. m /\ s[i].spec.type = type
  BY DEF Among
<1>3. IsFiniteSet(C)
  <2>1. IsFiniteSet(1 .. m) /\ C \subseteq 1 .. m
    BY <1>1, FS_Interval DEF Among
  <2> QED
    BY <2>1, FS_Subset
<1>4. B \subseteq C /\ i \in B
  BY <1>1, <1>2 DEF Among
<1>5. IsFiniteSet(B) /\ Cardinality(B) <= Cardinality(C)
  BY <1>3, <1>4, FS_Subset
<1>6. Cardinality(B) \in Nat /\ Cardinality(C) \in Nat
  BY <1>3, <1>5, FS_CardinalityType
<1>7. Cardinality(B) # 0
  <2>1. B # {}
    BY <1>4
  <2> QED
    BY <1>5, <2>1, FS_EmptySet
<1> QED
  BY <1>1, <1>5, <1>6, <1>7

LEMMA ListedStart ==
  ASSUME NEW s, NEW type, NEW list, list = << >>, NEW value
  PROVE  Listed(s, type, 0, list, value)
<1>1. Among(s, type, 0) = {}
  BY DEF Among
<1>2. Cardinality(Among(s, type, 0)) = 0
  BY <1>1, FS_EmptySet
<1>3. list \in Seq({}) /\ Len(list) = 0
  OBVIOUS
<1> QED
  BY <1>1, <1>2, <1>3 DEF Listed

(* What the list is once the k-th frame has been noted.                    *)
Extended(s, type, k, list, value) ==
  IF s[k].spec.type = type THEN Append(list, value[k]) ELSE list

LEMMA ListedStep ==
  ASSUME NEW s, NEW type, NEW m \in Nat, NEW k, k = m + 1,
         NEW list, NEW value, Listed(s, type, m, list, value), NEW more,
         more = Extended(s, type, k, list, value)
  PROVE  Listed(s, type, k, more, value)
<1> USE DEF Extended
<1>1. PICK B, C : B = Among(s, type, m) /\ C = Among(s, type, k)
  OBVIOUS
<1>2. C \subseteq 1 .. (m + 1) /\ B = C \ {m + 1} /\ (m + 1 \in C <=> s[k].spec.type = type)
  BY <1>1 DEF Among
<1>3. PICK b, c : b = Cardinality(B) /\ c = Cardinality(C)
  OBVIOUS
<1>4. b \in Nat /\ c = b + (IF s[k].spec.type = type THEN 1 ELSE 0)
  <2>1. UpTo(m, B, C)
    BY <1>2 DEF UpTo
  <2>2. Counted(m, B, C)
    BY <2>1, CountStep, Zenon
  <2>3. b \in Nat /\ c = b + (IF m + 1 \in C THEN 1 ELSE 0)
    BY <1>3, <2>2 DEF Counted
  <2> QED
    BY <1>2, <2>3
<1>5. PICK S : list \in Seq(S)
  BY DEF Listed
<1>6. Len(list) = b /\ \A i \in B : list[Cardinality(Among(s, type, i))] = value[i]
  BY <1>1, <1>3 DEF Listed
<1>7. \A i \in B : Cardinality(Among(s, type, i)) \in 1 .. b
  BY <1>1, <1>3, RankWithin
<1>8. CASE s[k].spec.type = type
  <2>1. PICK T : T = S \cup {value[k]}
    OBVIOUS
  <2>2. list \in Seq(T) /\ value[k] \in T
    <3>1. S \subseteq T
      BY <2>1
    <3> QED
      BY <1>5, <2>1, <3>1, SeqMonotonic
  <2>3. more = Append(list, value[k])
    BY <1>8
  <2>4. more \in Seq(T) /\ Len(more) = b + 1 /\ more[b + 1] = value[k]
        /\ \A x \in 1 .. b : more[x] = list[x]
    BY <1>6, <2>2, <2>3
  <2>5. c = b + 1
    BY <1>4, <1>8
  <2>6. ASSUME NEW i \in C PROVE more[Cardinality(Among(s, type, i))] = value[i]
    <3>1. CASE i \in B
      BY <1>6, <1>7, <2>4, <3>1
    <3>2. CASE i \notin B
      <4>1. i = k
        BY <1>2, <3>2
      <4> QED
        BY <1>1, <1>3, <2>4, <2>5, <4>1
    <3> QED
      BY <3>1, <3>2
  <2> QED
    BY <1>1, <1>3, <2>4, <2>5, <2>6 DEF Listed
<1>9. CASE s[k].spec.type # type
  <2>1. more = list /\ C = B
    BY <1>2, <1>9
  <2> QED
    BY <1>1, <1>3, <1>5, <1>6, <2>1 DEF Listed
<1> QED
  BY <1>8, <1>9

(* A word read from the front of some bytes.                               *)
LEMMA FirstWord ==
  ASSUME NEW S, NEW w \in Seq(S), Len(w) >= kWord
  PROVE  SubSeq(w, 1, kWord) = [j \in 1 .. kWord |-> w[j]]
<1>1. PICK K \in Nat : K = kWord
  BY FrameReaderAssumption
<1>2. PICK u, v : u = SubSeq(w, 1, K) /\ v = [j \in 1 .. K |-> w[j]]
  OBVIOUS
<1>3. u \in Seq(S) /\ Len(u) = K /\ \A j \in 1 .. K : u[j] = w[j]
  BY <1>1, <1>2
<1>4. \A j \in 1 .. K : w[j] \in S
  BY <1>1
<1>5. v \in Seq(S) /\ Len(v) = K /\ \A j \in 1 .. K : v[j] = w[j]
  BY <1>2, <1>4
<1>6. u = v
  BY <1>3, <1>5, SeqEqual
<1> QED
  BY <1>1, <1>2, <1>6

(* The two guarded reads of parse_control find the two words.              *)
LEMMA ControlParsed ==
  ASSUME NEW spec \in Specs, NEW f, f.id = spec.id, f.payload = Carried(spec)
  PROVE  parse_control(f) = Announced(spec)
<1>1. PICK y : y = Carried(spec)
  OBVIOUS
<1>2. y \in Seq(Symbols) /\ f.payload = y
  BY <1>1, SpecTypes
<1>3. PICK n \in Nat, K \in Nat : n = Len(y) /\ K = kWord /\ K # 0
  BY <1>2, FrameReaderAssumption
<1>4. PICK rest : rest = IF n >= K THEN SubSeq(y, K + 1, n) ELSE y
  OBVIOUS
<1>5. PICK a, b : /\ a = IF n >= K THEN SubSeq(y, 1, K) ELSE Zero
                  /\ b = IF Len(rest) >= K THEN SubSeq(rest, 1, K) ELSE Zero
  OBVIOUS
<1>6. parse_control(f) = [id |-> spec.id, ref_msg_id |-> a, window |-> b]
  BY <1>2, <1>3, <1>4, <1>5 DEF parse_control
<1>7. a = Word(y, 0)
  <2>1. CASE n >= K
    <3>1. a = [j \in 1 .. K |-> y[j]]
      BY <1>2, <1>3, <1>5, <2>1, FirstWord
    <3>2. \A j \in 1 .. K : 0 + j = j
      OBVIOUS
    <3>3. [j \in 1 .. K |-> y[0 + j]] = [j \in 1 .. K |-> y[j]]
      BY <3>2
    <3>4. n >= 0 + K
      BY <2>1
    <3> QED
      BY <1>3, <3>1, <3>3, <3>4 DEF Word
  <2>2. CASE ~(n >= K)
    <3>1. ~(n >= 0 + K)
      BY <2>2
    <3> QED
      BY <1>3, <1>5, <2>2, <3>1 DEF Word
  <2> QED
    BY <2>1, <2>2
<1>8. b = Word(y, K)
  <2>1. CASE n >= K
    <3>1. rest = SubSeq(y, K + 1, n)
      BY <1>4, <2>1
    <3>2. /\ rest \in Seq(Symbols) /\ Len(rest) = n - K
          /\ \A j \in 1 .. (n - K) : rest[j] = y[K + j]
      <4>1. K + 1 \in Int /\ n \in Int /\ \A i \in (K + 1) .. n : y[i] \in Symbols
        BY <1>2, <1>3
      <4>2. /\ rest \in Seq(Symbols)
            /\ Len(rest) = (IF K + 1 <= n THEN n - (K + 1) + 1 ELSE 0)
            /\ \A j \in 1 .. (n - (K + 1) + 1) : rest[j] = y[K + 1 + j - 1]
        BY <3>1, <4>1, SubSeqProperties
      <4>3. n - (K + 1) + 1 = n - K /\ (K + 1 <= n <=> n - K # 0)
        BY <2>1
      <4>4. \A j \in 1 .. (n - K) : K + 1 + j - 1 = K + j
        OBVIOUS
      <4> QED
        BY <2>1, <4>2, <4>3, <4>4
    <3>3. Len(rest) >= K <=> n >= K + K
      BY <2>1, <3>2
    <3>4. CASE n >= K + K
      <4>1. b = [j \in 1 .. K |-> rest[j]]
        BY <1>3, <1>5, <3>2, <3>3, <3>4, FirstWord
      <4>2. \A j \in 1 .. K : rest[j] = y[K + j]
        BY <3>2, <3>4
      <4>3. b = [j \in 1 .. K |-> y[K + j]]
        BY <4>1, <4>2
      <4> QED
        BY <1>3, <3>4, <4>3 DEF Word
    <3>5. CASE ~(n >= K + K)
      BY <1>3, <1>5, <3>3, <3>5 DEF Word
    <3> QED
      BY <3>4, <3>5
  <2>2. CASE ~(n >= K)
    <3>1. rest = y /\ ~(Len(rest) >= K)
      BY <1>3, <1>4, <2>2
    <3>2. ~(n >= K + K)
      BY <2>2
    <3> QED
      BY <1>3, <1>5, <3>1, <3>2 DEF Word
  <2> QED
    BY <2>1, <2>2
<1> QED
  BY <1>1, <1>3, <1>6, <1>7, <1>8 DEF Announced

LEMMA StartInv == Init => ReadInv
<1>1. SUFFICES ASSUME Init PROVE ReadInv
  OBVIOUS
<1>2. /\ tape = << >> /\ sent = << >> /\ noise = << << >> >> /\ damaged = 0 /\ cut = 0
      /\ pos = 1 /\ seen = << >> /\ result = NoResult /\ status = "write"
  BY <1>1 DEF Init
<1>3. Laid(tape, sent, noise, damaged, cut)
  BY <1>2, LaidStart
<1>4. seen \in Seq({}) /\ Len(seen) = 0 /\ Len(sent) = 0
  BY <1>2
<1>5. OnPath
  BY <1>2, <1>4 DEF OnPath, EndIn
<1> QED
  BY <1>2, <1>3, <1>4, <1>5 DEF ReadInv

(* While the tape is being written the reader stands at its beginning.     *)
LEMMA WritingInv ==
  ASSUME ReadInv, status = "write", UNCHANGED reader,
         Laid(tape', sent', noise', damaged', cut')
  PROVE  ReadInv'
<1>1. pos = 1 /\ seen = << >> /\ result = NoResult
  BY DEF ReadInv
<1>2. pos' = 1 /\ seen' = << >> /\ result' = NoResult /\ status' = "write"
  BY <1>1 DEF reader
<1>3. seen' \in Seq({}) /\ Len(seen') = 0
  BY <1>2
<1>4. Len(sent') \in Nat
  BY PlacedFacts DEF Laid
<1>5. OnPath'
  BY <1>2, <1>3, <1>4 DEF OnPath, EndIn
<1> QED
  BY <1>2, <1>3, <1>5 DEF ReadInv

LEMMA WriteInv ==
  ASSUME ReadInv, NEW spec \in Specs, Write(spec)
  PROVE  ReadInv'
<1>1. Laid(tape, sent, noise, damaged, cut) /\ cut = 0
  BY DEF ReadInv, Write
<1>2. Laid(tape \o encode_frame(spec), Append(sent, [spec |-> spec, at |-> Len(tape) + 1]),
           Append(noise, << >>), damaged, 0)
  BY <1>1, LaidWrite
<1>3. Laid(tape', sent', noise', damaged', cut')
  BY <1>1, <1>2 DEF Write
<1> QED
  BY <1>3, WritingInv DEF Write

LEMMA DisturbInv ==
  ASSUME ReadInv, NEW bytes \in Noise, Disturb(bytes)
  PROVE  ReadInv'
<1>1. Laid(tape, sent, noise, damaged, cut) /\ cut = 0
  BY DEF ReadInv, Disturb
<1>2. bytes \in Seq(Symbols)
  BY FrameReaderAssumption
<1>3. Laid(tape \o bytes, sent, [noise EXCEPT ![Len(noise)] = @ \o bytes], damaged, 0)
  BY <1>1, <1>2, LaidDisturb
<1>4. Laid(tape', sent', noise', damaged', cut')
  BY <1>1, <1>3 DEF Disturb
<1> QED
  BY <1>4, WritingInv DEF Disturb

LEMMA DamagedHeaders ==
  ASSUME NEW h \in Headers
  PROVE  Damages(h) \subseteq Headers
<1>1. h \in [version : {1, 2}, type : Types \cup {"unknown"}, id : Nat,
             has_crc : BOOLEAN, payload_len : Nat]
  BY DEF Headers
<1>2. /\ [h EXCEPT !.version = 2] \in Headers
      /\ [h EXCEPT !.type = "unknown"] \in Headers
      /\ [h EXCEPT !.payload_len = 0] \in Headers
  BY <1>1 DEF Headers
<1>3. [h EXCEPT !.has_crc = ~@] \in Headers
  BY <1>1 DEF Headers
<1>4. [h EXCEPT !.payload_len = @ + 1] \in Headers /\ [h EXCEPT !.id = @ + 1] \in Headers
  BY <1>1 DEF Headers
<1> QED
  BY <1>2, <1>3, <1>4 DEF Damages

LEMMA DamageInv ==
  ASSUME ReadInv, NEW i \in DOMAIN sent, Damage(i)
  PROVE  ReadInv'
<1>1. Laid(tape, sent, noise, damaged, cut) /\ cut = 0
  BY DEF ReadInv, Damage
<1>2. Placed(tape, sent, noise, 0) /\ sent \in Seq(SentSet)
  BY <1>1 DEF Laid, Placed
<1>3. i \in 1 .. Len(sent)
  BY <1>2
<1>4. PICK at, a, R, N : /\ a = sent[i].at /\ at = a + 2 /\ R = Room(sent[i].spec)
                         /\ N = Len(tape)
  OBVIOUS
<1>5. a \in Nat /\ R \in Nat /\ R >= 3 /\ a + R <= N + 1 /\ N \in Nat
  BY <1>2, <1>3, <1>4, PlacedFacts, Inside
<1>6. at <= N
  BY <1>4, <1>5
<1>7. PICK g \in Headers : tape[at] = Header(g)
  <2>1. FrameOn(tape, a, sent[i].spec, damaged)
    BY <1>1, <1>3, <1>4 DEF Laid
  <2> QED
    BY <1>4, <1>6, <2>1 DEF FrameOn
<1>8. PICK h \in Damages(g) : tape' = [tape EXCEPT ![at] = Header(h)]
  <2>1. tape[at][2] = g
    BY <1>7 DEF Header
  <2> QED
    BY <1>4, <2>1 DEF Damage
<1>9. h \in Headers
  BY <1>8, DamagedHeaders
<1>10. Laid([tape EXCEPT ![sent[i].at + 2] = Header(h)], sent, noise, damaged + 1, 0)
  BY <1>1, <1>3, <1>9, LaidDamage
<1>11. Laid(tape', sent', noise', damaged', cut')
  BY <1>1, <1>4, <1>8, <1>10 DEF Damage
<1> QED
  BY <1>11, WritingInv DEF Damage

LEMMA CutInv ==
  ASSUME ReadInv, Cut
  PROVE  ReadInv'
<1>1. Laid(tape, sent, noise, damaged, cut) /\ tape # << >>
  BY DEF ReadInv, Cut
<1>2. Laid(SubSeq(tape, 1, Len(tape) - 1), sent, noise, damaged, cut + 1)
  BY <1>1, LaidCut
<1>3. Laid(tape', sent', noise', damaged', cut')
  BY <1>1, <1>2 DEF Cut
<1> QED
  BY <1>3, WritingInv DEF Cut

LEMMA StartReadingInv ==
  ASSUME ReadInv, StartReading
  PROVE  ReadInv'
<1>1. /\ pos = 1 /\ seen = << >> /\ result = NoResult /\ status' = "read"
      /\ UNCHANGED << tape, sent, noise, runs, damaged, cut, pos, seen, result >>
  BY DEF ReadInv, StartReading, written
<1>2. Laid(tape', sent', noise', damaged', cut')
  BY <1>1 DEF ReadInv
<1>3. seen' \in Seq({}) /\ Len(seen') = 0 /\ pos' = 1
  BY <1>1
<1>4. Len(sent') \in Nat
  BY <1>2, PlacedFacts DEF Laid
<1>5. OnPath'
  BY <1>3, <1>4 DEF OnPath, EndIn
<1>6. Tallied'
  <2>1. Sealed(sent', 0) = {}
    BY DEF Sealed
  <2>2. Cardinality(Sealed(sent', 0)) = 0
    BY <2>1, FS_EmptySet
  <2>3. /\ result'.header_crc_bad = 0 /\ result'.header_crc_ok = 0
        /\ result'.acks = << >> /\ result'.controls = << >>
    BY <1>1 DEF NoResult
  <2>4. /\ Listed(sent', "ACK", 0, result'.acks, Ids(sent'))
        /\ Listed(sent', "CONTROL", 0, result'.controls, Updates(sent'))
    BY <2>3, ListedStart
  <2> QED
    BY <1>3, <2>2, <2>3, <2>4 DEF Tallied
<1> QED
  BY <1>1, <1>2, <1>3, <1>5, <1>6 DEF ReadInv

LEMMA SameGhosts ==
  ASSUME ReadInv, UNCHANGED written
  PROVE  /\ Laid(tape', sent', noise', damaged', cut')
         /\ Quiet' <=> Quiet
         /\ Benign' <=> Benign
         /\ \A i : Written(i)' = Written(i)
<1>1. tape' = tape /\ sent' = sent /\ noise' = noise /\ damaged' = damaged /\ cut' = cut
  BY DEF written
<1>2. Laid(tape', sent', noise', damaged', cut')
  BY <1>1 DEF ReadInv
<1>3. Quiet' <=> Quiet
  BY <1>1 DEF Quiet, NoiseAfter
<1>4. Benign' <=> Benign
  BY <1>1 DEF Benign, NoiseAfter
<1>5. \A i : Written(i)' = Written(i)
  BY <1>1 DEF Written
<1> QED
  BY <1>2, <1>3, <1>4, <1>5

(* Steps that leave what was read as it is.                                *)
LEMMA SameReader ==
  ASSUME ReadInv, UNCHANGED << written, pos, seen >>,
         Quiet /\ damaged = 0 /\ status' \in {"read", "done"} => Tallied',
         status' = "write" => pos = 1 /\ seen = << >> /\ result' = NoResult,
         status' = "done" => pos > Len(tape),
         Benign => status' \in {"write", "read", "done"}
  PROVE  ReadInv'
<1>1. /\ tape' = tape /\ sent' = sent /\ noise' = noise /\ damaged' = damaged
      /\ pos' = pos /\ seen' = seen
  BY DEF written
<1>2. UNCHANGED written
  OBVIOUS
<1>3. /\ Laid(tape', sent', noise', damaged', cut')
      /\ Quiet' <=> Quiet
      /\ Benign' <=> Benign
      /\ \A i : Written(i)' = Written(i)
  BY <1>2, SameGhosts
<1>4. Trusted' <=> Trusted
  BY <1>1 DEF Trusted
<1>5. OnPath' <=> OnPath
  BY <1>1, <1>3 DEF OnPath
<1>6. /\ \E S : seen' \in Seq(S)
      /\ Quiet' /\ Trusted' => OnPath'
  BY <1>1, <1>3, <1>4, <1>5 DEF ReadInv
<1>7. /\ Quiet' /\ damaged' = 0 /\ status' \in {"read", "done"} => Tallied'
      /\ status' = "write" => pos' = 1 /\ seen' = << >> /\ result' = NoResult
      /\ status' = "done" => pos' > Len(tape')
      /\ Benign' => status' \in {"write", "read", "done"}
  BY <1>1, <1>3
<1> QED
  BY <1>3, <1>6, <1>7 DEF ReadInv

LEMMA FinishInv ==
  ASSUME ReadInv, Finish
  PROVE  ReadInv'
<1>1. /\ status = "read" /\ pos > Len(tape) /\ status' = "done"
      /\ UNCHANGED << written, pos, seen, result >>
  BY DEF Finish
<1>2. sent' = sent /\ seen' = seen /\ result' = result
  BY <1>1 DEF written
<1>3. Tallied' <=> Tallied
  BY <1>2 DEF Tallied
<1>4. Quiet /\ damaged = 0 => Tallied
  BY <1>1 DEF ReadInv
<1> QED
  BY <1>1, <1>3, <1>4, SameReader

(* Benign streams have no sync word in their noise, and little of it.      *)
LEMMA BenignQuiet ==
  ASSUME ReadInv, Benign
  PROVE  /\ Quiet /\ damaged = 0 /\ cut = 0
         /\ \A k \in 0 .. Len(sent) : Len(NoiseAfter(k)) < kResyncWindow
         /\ Len(NoiseAfter(0)) = 0 /\ Len(NoiseAfter(Len(sent))) = 0
<1>1. Len(sent) \in Nat
  BY PlacedFacts DEF ReadInv, Laid
<1>2. PICK e : e = << >>
  OBVIOUS
<1>3. Len(e) = 0 /\ SyncFree(e) /\ 0 < kResyncWindow
  <2>1. Len(e) = 0
    BY <1>2
  <2>2. SyncFree(e)
    BY <2>1 DEF SyncFree
  <2>3. 0 < kResyncWindow
    BY FrameReaderAssumption
  <2> QED
    BY <2>1, <2>2, <2>3
<1>4. NoiseAfter(0) = e /\ NoiseAfter(Len(sent)) = e
  BY <1>2 DEF Benign
<1>5. ASSUME NEW k \in 0 .. Len(sent)
      PROVE  SyncFree(NoiseAfter(k)) /\ Len(NoiseAfter(k)) < kResyncWindow
  <2>1. k = 0 \/ k = Len(sent) \/ k \in 1 .. (Len(sent) - 1)
    BY <1>1
  <2>2. CASE k \in 1 .. (Len(sent) - 1)
    BY <2>2 DEF Benign
  <2>3. CASE k = 0 \/ k = Len(sent)
    BY <1>3, <1>4, <2>3
  <2> QED
    BY <2>1, <2>2, <2>3
<1>6. damaged = 0 /\ cut = 0
  BY DEF Benign
<1> QED
  BY <1>3, <1>4, <1>5, <1>6 DEF Quiet

LEMMA NextErrors ==
  ASSUME NEW p, NEW first
  PROVE  next(p, first).error \in {"none", "BadMagic", "ShortRead", "BadVersion", "BadType"}
<1>1. align_to_sync(p, first).error \in {"none", "BadMagic"}
  BY DEF align_to_sync, Aligned
<1>2. \A x : Thrown(x).error = x
  BY DEF Thrown
<1>3. \A x, h : Body(x, h).error \in {"none", "ShortRead"}
  BY DEF Body, Thrown, Parsed
<1> QED
  BY <1>1, <1>2, <1>3 DEF next

(* The end of a frame lies within the tape while a frame is left to read.  *)
LEMMA StillToRead ==
  ASSUME NEW k \in 0 .. Len(sent), Laid(tape, sent, noise, damaged, 0),
         Len(NoiseAfter(Len(sent))) = 0
  PROVE  EndIn(sent, k) <= Len(tape) <=> k < Len(sent)
<1>1. Placed(tape, sent, noise, 0)
  BY DEF Laid
<1>2. PICK n \in Nat, N \in Nat : n = Len(sent) /\ N = Len(tape)
  BY <1>1, PlacedFacts
<1>3. PICK p : p = EndIn(sent, k)
  OBVIOUS
<1>4. CASE k = n
  <2>1. Len(noise[n + 1]) = 0
    BY <1>2 DEF NoiseAfter
  <2>2. EndIn(sent, n) + Len(noise[n + 1]) = N + 0 + 1
    BY <1>2 DEF Laid, Placed
  <2>3. p \in Nat /\ p + 0 = N + 0 + 1
    BY <1>1, <1>2, <1>3, <1>4, <2>1, <2>2, PlacedFacts
  <2>4. ~(p <= N)
    BY <2>3
  <2> QED
    BY <1>2, <1>3, <1>4, <2>4
<1>5. CASE k < n
  <2>1. PICK m \in 1 .. n : m = k + 1
    BY <1>2, <1>5
  <2>2. PICK a, R : a = sent[m].at /\ R = Room(sent[m].spec)
    OBVIOUS
  <2>3. a \in Nat /\ R \in Nat /\ R >= 3 /\ a + R <= N + 1
    BY <1>1, <1>2, <2>2, PlacedFacts, Inside
  <2>4. p \in Nat /\ p <= a
    BY <1>1, <1>2, <1>3, <2>1, <2>2, PlacedFacts
  <2>5. p <= N
    BY <2>3, <2>4
  <2> QED
    BY <1>2, <1>3, <1>5, <2>5
<1> QED
  BY <1>2, <1>4, <1>5

LEMMA ReadErrorInv ==
  ASSUME ReadInv, NEW r, r = next(pos, seen = << >>), r.error # "none",
         status = "read", pos <= Len(tape),
         status' = r.error, result' = NoResult, UNCHANGED << written, pos, seen >>
  PROVE  ReadInv'
<1>1. r.error \in {"BadMagic", "ShortRead", "BadVersion", "BadType"}
  BY NextErrors
<1>2. status' \notin {"write", "read", "done"}
  BY <1>1
<1>3. ASSUME Benign PROVE FALSE
  <2>1. /\ Quiet /\ damaged = 0 /\ cut = 0
        /\ \A k \in 0 .. Len(sent) : Len(NoiseAfter(k)) < kResyncWindow
        /\ Len(NoiseAfter(0)) = 0 /\ Len(NoiseAfter(Len(sent))) = 0
    BY <1>3, BenignQuiet
  <2>2. OnPath
    BY <2>1 DEF ReadInv, Trusted
  <2>3. Laid(tape, sent, noise, 0, 0)
    BY <2>1 DEF ReadInv
  <2>4. PICK k : k = Len(seen)
    OBVIOUS
  <2>5. Len(sent) \in Nat
    BY <2>3, PlacedFacts DEF Laid
  <2>6. k \in Nat
    BY <2>4 DEF ReadInv
  <2>7. k \in 0 .. Len(sent) /\ pos = EndIn(sent, k)
    BY <2>2, <2>4, <2>5, <2>6 DEF OnPath
  <2>8. k < Len(sent)
    BY <2>1, <2>3, <2>7, StillToRead
  <2>9. PICK first \in BOOLEAN : first = (seen = << >>)
    OBVIOUS
  <2>10. PICK l : l = Len(NoiseAfter(k))
    OBVIOUS
  <2>11. first => l = 0
    <3>1. SUFFICES ASSUME first PROVE l = 0
      OBVIOUS
    <3>2. k = 0
      BY <2>4, <2>9, <3>1
    <3> QED
      BY <2>1, <2>10, <3>2
  <2>12. SyncFree(NoiseAfter(k)) /\ l < kResyncWindow
    BY <2>1, <2>7, <2>10 DEF Quiet
  <2>13. r = next(EndIn(sent, k), first)
    BY <2>7, <2>9
  <2>14. r.error = "none"
    BY <2>3, <2>7, <2>8, <2>10, <2>11, <2>12, <2>13, NextClean
  <2> QED
    BY <2>14
<1> QED
  BY <1>2, <1>3, SameReader

LEMMA ReadStepInv ==
  ASSUME ReadInv, NEW r, r = next(pos, seen = << >>), r.error = "none",
         status = "read", pos <= Len(tape),
         pos' = r.end, seen' = Append(seen, r.frame),
         result' = Noted(result, r.frame), UNCHANGED << written, status >>
  PROVE  ReadInv'
<1>1. UNCHANGED written /\ status' = "read"
  OBVIOUS
<1>2. sent' = sent /\ damaged' = damaged
  BY <1>1 DEF written
<1>3. /\ Laid(tape', sent', noise', damaged', cut')
      /\ Quiet' <=> Quiet
      /\ Benign' <=> Benign
      /\ \A i : Written(i)' = Written(i)
  BY <1>1, SameGhosts
<1>4. PICK f, k, n : f = r.frame /\ k = Len(seen) /\ n = Len(sent)
  OBVIOUS
<1>5. Laid(tape, sent, noise, damaged, cut) /\ damaged \in Nat
  BY DEF ReadInv, Laid
<1>6. n \in Nat
  BY <1>4, <1>5, PlacedFacts DEF Laid
<1>7. PICK S : seen \in Seq(S)
  BY DEF ReadInv
<1>8. PICK T : T = S \cup {f}
  OBVIOUS
<1>9. seen \in Seq(T) /\ f \in T
  <2>1. S \subseteq T
    BY <1>8
  <2> QED
    BY <1>7, <1>8, <2>1, SeqMonotonic
<1>10. k \in Nat /\ DOMAIN seen = 1 .. k
  BY <1>4, <1>9
<1>11. /\ seen' \in Seq(T) /\ Len(seen') = k + 1 /\ DOMAIN seen' = 1 .. (k + 1)
       /\ seen'[k + 1] = f /\ \A i \in 1 .. k : seen'[i] = seen[i]
  BY <1>4, <1>9
<1>12. ASSUME Quiet, Trusted'
       PROVE  k < n /\ f = Written(k + 1) /\ r.end = EndIn(sent, k + 1) /\ OnPath
  <2>1. Trusted
    BY <1>2, <1>10, <1>11, <1>12 DEF Trusted
  <2>2. OnPath
    BY <1>12, <2>1 DEF ReadInv
  <2>3. k \in 0 .. Len(sent) /\ pos = EndIn(sent, k)
    BY <1>4, <1>6, <1>10, <2>2 DEF OnPath
  <2>4. SyncFree(NoiseAfter(k))
    BY <1>12, <2>3 DEF Quiet
  <2>5. PICK first \in BOOLEAN : first = (seen = << >>)
    OBVIOUS
  <2>6. r = next(EndIn(sent, k), first)
    BY <2>3, <2>5
  <2>7. damaged = 0 \/ ((k < Len(sent) => sent[k + 1].spec.with_crc) /\ r.frame.crc_ok)
    <3>1. SUFFICES ASSUME damaged # 0
                   PROVE  (k < Len(sent) => sent[k + 1].spec.with_crc) /\ r.frame.crc_ok
      OBVIOUS
    <3>2. (\A i \in DOMAIN sent : sent[i].spec.with_crc) /\ \A i \in 1 .. (k + 1) : seen'[i].crc_ok
      BY <1>2, <1>11, <1>12, <3>1 DEF Trusted
    <3>3. DOMAIN sent = 1 .. n
      BY <1>4, <1>5 DEF Laid, Placed
    <3>4. k + 1 \in 1 .. (k + 1) /\ (k < n => k + 1 \in 1 .. n)
      BY <1>6, <1>10
    <3> QED
      BY <1>4, <1>11, <3>2, <3>3, <3>4
  <2>8. k < Len(sent) /\ r.frame = Written(k + 1) /\ r.end = EndIn(sent, k + 1)
    BY <1>5, <2>3, <2>4, <2>6, <2>7, NextFound
  <2> QED
    BY <1>4, <2>2, <2>8
<1>13. ASSUME Quiet', Trusted' PROVE OnPath'
  <2>1. k < n /\ f = Written(k + 1) /\ r.end = EndIn(sent, k + 1) /\ OnPath
    BY <1>3, <1>12, <1>13
  <2>2. Len(seen') <= Len(sent')
    BY <1>2, <1>4, <1>6, <1>10, <1>11, <2>1
  <2>3. pos' = EndIn(sent', Len(seen'))
    BY <1>2, <1>11, <2>1
  <2>4. ASSUME NEW i \in DOMAIN seen' PROVE seen'[i] = Written(i)'
    <3>1. i \in 1 .. k \/ i = k + 1
      BY <1>10, <1>11, <2>4
    <3>2. CASE i \in 1 .. k
      <4>1. seen'[i] = Written(i)
        BY <1>10, <1>11, <2>1, <3>2 DEF OnPath
      <4> QED
        BY <1>3, <4>1
    <3>3. CASE i = k + 1
      BY <1>3, <1>11, <2>1, <3>3
    <3> QED
      BY <3>1, <3>2, <3>3
  <2> QED
    BY <2>2, <2>3, <2>4 DEF OnPath
<1>14. ASSUME Quiet', damaged' = 0 PROVE Tallied'
  <2>1. Trusted' /\ Quiet
    BY <1>3, <1>14 DEF Trusted
  <2>2. k < n /\ f = Written(k + 1)
    BY <1>12, <2>1
  <2>3. Tallied
    BY <1>2, <1>14, <2>1 DEF ReadInv
  <2>4. PICK m \in 1 .. n : m = k + 1
    BY <1>6, <1>10, <2>2
  <2>5. PICK spec : spec = sent[m].spec
    OBVIOUS
  <2>6. spec \in Specs
    BY <1>4, <1>5, <2>4, <2>5, PlacedFacts DEF Laid
  <2>7. spec.id \in Nat /\ spec.with_crc \in BOOLEAN
    BY <2>6, SpecTypes
  <2>8. f.has_crc = spec.with_crc /\ f.crc_ok = spec.with_crc /\ f.type = spec.type
        /\ f.id = spec.id
    BY <2>2, <2>4, <2>5 DEF Written
  <2>9. /\ result'.header_crc_bad = result.header_crc_bad
                                    + (IF f.has_crc /\ ~f.crc_ok THEN 1 ELSE 0)
        /\ result'.header_crc_ok = result.header_crc_ok
                                    + (IF f.has_crc /\ f.crc_ok THEN 1 ELSE 0)
        /\ result'.acks = IF f.type = "ACK" THEN Append(result.acks, f.id) ELSE result.acks
        /\ result'.controls = IF f.type = "CONTROL"
                                THEN Append(result.controls, parse_control(f))
                                ELSE result.controls
    BY <1>4 DEF Noted
  <2>10. ~(f.has_crc /\ ~f.crc_ok) /\ (f.has_crc /\ f.crc_ok <=> spec.with_crc)
    BY <2>7, <2>8
  <2>11. result'.header_crc_bad = 0
    BY <2>3, <2>9, <2>10 DEF Tallied
  <2>12. result'.header_crc_ok = Cardinality(Sealed(sent, m))
    <3>1. PICK B, C : B = Sealed(sent, k) /\ C = Sealed(sent, m)
      OBVIOUS
    <3>2. C \subseteq 1 .. (k + 1) /\ B = C \ {k + 1} /\ (k + 1 \in C <=> spec.with_crc)
      BY <1>10, <2>4, <2>5, <3>1 DEF Sealed
    <3>3. PICK x : x = result.header_crc_ok
      OBVIOUS
    <3>4. x = Cardinality(B)
      BY <1>4, <2>3, <3>1, <3>3 DEF Tallied
    <3>5. k \in Nat /\ UpTo(k, B, C)
      BY <1>10, <3>2 DEF UpTo
    <3>6. Counted(k, B, C)
      BY <3>5, CountStep, Zenon
    <3>7. Cardinality(C) = x + (IF spec.with_crc THEN 1 ELSE 0)
      BY <3>2, <3>4, <3>6 DEF Counted
    <3> QED
      BY <2>9, <2>10, <3>1, <3>3, <3>7
  <2>13. m \in DOMAIN sent
    BY <1>4, <1>5, <2>4 DEF Laid, Placed
  <2>14. Listed(sent, "ACK", m, result'.acks, Ids(sent))
    <3>1. Ids(sent)[m] = f.id
      BY <2>5, <2>8, <2>13 DEF Ids
    <3>2. result'.acks = Extended(sent, "ACK", m, result.acks, Ids(sent))
      BY <2>5, <2>8, <2>9, <3>1 DEF Extended
    <3>3. Listed(sent, "ACK", k, result.acks, Ids(sent))
      BY <1>4, <2>3 DEF Tallied
    <3>4. k \in Nat /\ m = k + 1
      BY <1>10, <2>4
    <3> QED
      BY <3>2, <3>3, <3>4, ListedStep, Zenon
  <2>15. Listed(sent, "CONTROL", m, result'.controls, Updates(sent))
    <3>1. f.payload = Carried(spec)
      BY <2>2, <2>4, <2>5 DEF Written
    <3>2. Updates(sent)[m] = parse_control(f)
      <4>1. parse_control(f) = Announced(spec)
        BY <2>6, <2>8, <3>1, ControlParsed
      <4> QED
        BY <2>5, <2>13, <4>1 DEF Updates
    <3>3. result'.controls = Extended(sent, "CONTROL", m, result.controls, Updates(sent))
      BY <2>5, <2>8, <2>9, <3>2 DEF Extended
    <3>4. Listed(sent, "CONTROL", k, result.controls, Updates(sent))
      BY <1>4, <2>3 DEF Tallied
    <3>5. k \in Nat /\ m = k + 1
      BY <1>10, <2>4
    <3> QED
      BY <3>3, <3>4, <3>5, ListedStep, Zenon
  <2> QED
    BY <1>2, <1>11, <2>4, <2>11, <2>12, <2>14, <2>15 DEF Tallied
<1>15. \E X : seen' \in Seq(X)
  BY <1>11
<1> QED
  BY <1>1, <1>3, <1>13, <1>14, <1>15 DEF ReadInv

LEMMA ReadFrameInv ==
  ASSUME ReadInv, ReadFrame
  PROVE  ReadInv'
<1>1. PICK r : r = next(pos, seen = << >>)
  OBVIOUS
<1>2. CASE r.error = "none"
  BY <1>1, <1>2, ReadStepInv DEF ReadFrame
<1>3. CASE r.error # "none"
  BY <1>1, <1>3, ReadErrorInv DEF ReadFrame
<1> QED
  BY <1>2, <1>3

LEMMA IdleInv ==
  ASSUME ReadInv, UNCHANGED vars
  PROVE  ReadInv'
<1>1. UNCHANGED << written, pos, seen >> /\ status' = status /\ result' = result
      /\ sent' = sent /\ seen' = seen
  BY DEF vars, reader, written
<1>2. Tallied' <=> Tallied
  BY <1>1 DEF Tallied
<1> QED
  BY <1>1, <1>2, SameReader DEF ReadInv

THEOREM ReadInvAlways == Spec => []ReadInv
<1>1. ASSUME ReadInv, [Next]_vars PROVE ReadInv'
  <2>1. CASE \E spec \in Specs : Write(spec)
    BY <1>1, <2>1, WriteInv
  <2>2. CASE \E bytes \in Noise : Disturb(bytes)
    BY <1>1, <2>2, DisturbInv
  <2>3. CASE \E i \in DOMAIN sent : Damage(i)
    BY <1>1, <2>3, DamageInv
  <2>4. CASE Cut
    BY <1>1, <2>4, CutInv
  <2>5. CASE StartReading
    BY <1>1, <2>5, StartReadingInv
  <2>6. CASE ReadFrame
    BY <1>1, <2>6, ReadFrameInv
  <2>7. CASE Finish
    BY <1>1, <2>7, FinishInv
  <2>8. CASE UNCHANGED vars
    BY <1>1, <2>8, IdleInv
  <2> QED
    BY <1>1, <2>1, <2>2, <2>3, <2>4, <2>5, <2>6, <2>7, <2>8 DEF Next
<1> QED
  BY <1>1, StartInv, PTL DEF Spec
-----------------------------------------------------------------------------
LEMMA PathFrames ==
  ASSUME ReadInv, OnPath
  PROVE  \A i \in DOMAIN seen : i <= Len(sent) /\ seen[i] = Written(i)
<1>1. PICK k, n : k = Len(seen) /\ n = Len(sent)
  OBVIOUS
<1>2. k \in Nat /\ DOMAIN seen = 1 .. k
  BY <1>1 DEF ReadInv
<1>3. n \in Nat
  BY <1>1, PlacedFacts DEF ReadInv, Laid
<1>4. k <= n
  BY <1>1 DEF OnPath
<1>5. \A i \in 1 .. k : i <= n
  BY <1>2, <1>3, <1>4
<1> QED
  BY <1>1, <1>2, <1>5 DEF OnPath

(* The tally of a stream read to its last frame is what was sent.          *)
LEMMA TalliedRecords ==
  ASSUME Tallied, NEW n \in Nat, n = Len(sent), n = Len(seen), DOMAIN sent = 1 .. n
  PROVE  RecordsExact
<1>1. /\ Sealed(sent, n) = {i \in DOMAIN sent : sent[i].spec.with_crc}
      /\ Among(sent, "ACK", n) = Kind("ACK") /\ Among(sent, "CONTROL", n) = Kind("CONTROL")
  BY DEF Sealed, Among, Kind
<1>2. /\ result.header_crc_bad = 0
      /\ result.header_crc_ok = Cardinality({i \in DOMAIN sent : sent[i].spec.with_crc})
  BY <1>1 DEF Tallied
<1>3. /\ Listed(sent, "ACK", n, result.acks, Ids(sent))
      /\ Listed(sent, "CONTROL", n, result.controls, Updates(sent))
  BY DEF Tallied
<1>4. /\ Len(result.acks) = Cardinality(Kind("ACK"))
      /\ Len(result.controls) = Cardinality(Kind("CONTROL"))
  BY <1>1, <1>3 DEF Listed
<1>5. ASSUME NEW type, NEW i \in Kind(type) PROVE Rank(i) = Cardinality(Among(sent, type, i))
  BY <1>5 DEF Kind, Rank, Among
<1>6. ASSUME NEW i \in Kind("ACK") PROVE result.acks[Rank(i)] = sent[i].spec.id
  <2>1. result.acks[Cardinality(Among(sent, "ACK", i))] = Ids(sent)[i]
    BY <1>1, <1>3 DEF Listed
  <2>2. Ids(sent)[i] = sent[i].spec.id
    BY DEF Ids, Kind
  <2> QED
    BY <1>5, <2>1, <2>2
<1>7. ASSUME NEW i \in Kind("CONTROL")
      PROVE  result.controls[Rank(i)] = Announced(sent[i].spec)
  <2>1. result.controls[Cardinality(Among(sent, "CONTROL", i))] = Updates(sent)[i]
    BY <1>1, <1>3 DEF Listed
  <2>2. Updates(sent)[i] = Announced(sent[i].spec)
    BY DEF Updates, Kind
  <2> QED
    BY <1>5, <2>1, <2>2
<1> QED
  BY <1>2, <1>4, <1>6, <1>7 DEF RecordsExact

(* A stream with little noise and no damage is decoded to the last frame,  *)
(* each with a good CRC and with its payload as far as encode_frame        *)
(* carries it, and every ACK and window update is on record, in order.     *)
THEOREM SmallNoiseToleratedAlways == Spec => []SmallNoiseTolerated
<1>1. ASSUME ReadInv PROVE SmallNoiseTolerated
  <2>1. SUFFICES ASSUME Benign
                 PROVE  /\ status \in {"write", "read", "done"}
                        /\ \A i \in DOMAIN seen : i <= Len(sent) /\ seen[i] = Written(i)
                        /\ status = "done" => Len(seen) = Len(sent) /\ RecordsExact
    BY DEF SmallNoiseTolerated
  <2>2. Quiet /\ damaged = 0 /\ cut = 0 /\ Len(NoiseAfter(Len(sent))) = 0
    BY <1>1, <2>1, BenignQuiet
  <2>3. OnPath
    BY <1>1, <2>2 DEF ReadInv, Trusted
  <2>4. status \in {"write", "read", "done"}
    BY <1>1, <2>1 DEF ReadInv
  <2>5. \A i \in DOMAIN seen : i <= Len(sent) /\ seen[i] = Written(i)
    BY <1>1, <2>3, PathFrames
  <2>6. ASSUME status = "done"
        PROVE  Len(seen) = Len(sent) /\ RecordsExact
    <3>1. Tallied /\ pos > Len(tape)
      BY <1>1, <2>2, <2>6 DEF ReadInv
    <3>2. PICK k, n, N : k = Len(seen) /\ n = Len(sent) /\ N = Len(tape)
      OBVIOUS
    <3>3. Laid(tape, sent, noise, damaged, 0)
      BY <1>1, <2>2 DEF ReadInv
    <3>4. n \in Nat /\ N \in Nat /\ DOMAIN sent = 1 .. n
      BY <3>2, <3>3, PlacedFacts DEF Laid, Placed
    <3>5. k \in Nat
      BY <1>1, <3>2 DEF ReadInv
    <3>6. k <= n /\ pos = EndIn(sent, k)
      BY <2>3, <3>2 DEF OnPath
    <3>7. k \in 0 .. Len(sent)
      BY <3>2, <3>4, <3>5, <3>6
    <3>8. EndIn(sent, k) \in Nat
      BY <3>3, <3>7, PlacedFacts DEF Laid
    <3>9. ~(EndIn(sent, k) <= N)
      BY <3>1, <3>2, <3>4, <3>6, <3>8
    <3>10. ~(k < n)
      BY <2>2, <3>2, <3>3, <3>7, <3>9, StillToRead
    <3>11. k = n
      BY <3>4, <3>5, <3>6, <3>10
    <3>12. RecordsExact
      BY <3>1, <3>2, <3>4, <3>11, TalliedRecords
    <3> QED
      BY <3>2, <3>11, <3>12
  <2> QED
    BY <2>4, <2>5, <2>6
<1> QED
  BY <1>1, ReadInvAlways, PTL

(* Noise without a sync word and a cut tail, however much of both, never   *)
(* make next() return a frame that was not written.                        *)
THEOREM NoFalseFrameAlways == Spec => []NoFalseFrame
<1>1. ASSUME ReadInv PROVE NoFalseFrame
  <2>1. SUFFICES ASSUME damaged = 0, \A k \in 0 .. Len(sent) : SyncFree(NoiseAfter(k))
                 PROVE  \A i \in DOMAIN seen : i <= Len(sent) /\ seen[i] = Written(i)
    BY DEF NoFalseFrame
  <2>2. OnPath
    BY <1>1, <2>1 DEF ReadInv, Quiet, Trusted
  <2> QED
    BY <1>1, <2>2, PathFrames
<1> QED
  BY <1>1, ReadInvAlways, PTL

(* A decoded stream whose frames all carry a good CRC is the stream that   *)
(* was written, whatever header was damaged.                               *)
THEOREM DamageNoticedAlways == Spec => []DamageNoticed
<1>1. ASSUME ReadInv PROVE DamageNoticed
  <2>1. SUFFICES ASSUME \A i \in DOMAIN sent : sent[i].spec.with_crc,
                        \A k \in 0 .. Len(sent) : SyncFree(NoiseAfter(k)),
                        \A i \in DOMAIN seen : seen[i].has_crc /\ seen[i].crc_ok
                 PROVE  \A i \in DOMAIN seen : i <= Len(sent) /\ seen[i] = Written(i)
    BY DEF DamageNoticed
  <2>2. OnPath
    BY <1>1, <2>1 DEF ReadInv, Quiet, Trusted
  <2> QED
    BY <1>1, <2>2, PathFrames
<1> QED
  BY <1>1, ReadInvAlways, PTL
=============================================================================
