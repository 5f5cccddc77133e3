----------------------- MODULE StreamTransfer_proofs -----------------------
(***************************************************************************)
(* The end-to-end path, proved for every set of streams, every sequence of *)
(* messages, every fragment size and every width of the counters, whatever *)
(* the transport loses, repeats or reorders and wherever RESETs fall.  The *)
(* reassembler and the delivery queue enter by the theorems about them.    *)
(***************************************************************************)
EXTENDS StreamTransfer, TLAPS

RP == INSTANCE ReassemblyMap_proofs WITH
        Msgs <- MsgRange, Frames <- DataFrames, MaxResets <- MaxResets + MaxDups,
        resets <- [s \in Streams |-> table[s].resets]

QP == INSTANCE DeliveryQueue_proofs WITH streams <- order, Ids <- MsgRange

-----------------------------------------------------------------------------
(* Numbers and sequences.                                                  *)
LEMMA Products ==
  ASSUME NEW a \in Nat, NEW b \in Nat, NEW c \in Nat
  PROVE  /\ a * c \in Nat
         /\ (a + 1) * c = a * c + c
         /\ a <= b => a * c <= b * c
<1>1. (a + 1) * c = a * c + c /\ a * c \in Nat
  OBVIOUS
<1>2. ASSUME a <= b PROVE a * c <= b * c
  <2>1. PICK d \in Nat : b = a + d
    <3>1. b - a \in Nat /\ b = a + (b - a)
      BY <1>2
    <3> QED
      BY <3>1
  <2>2. b * c = a * c + d * c /\ d * c \in Nat
    BY <2>1
  <2> QED
    BY <1>1, <2>2
<1> QED
  BY <1>1, <1>2

(* Quotient and remainder.                                                 *)
LEMMA Division ==
  ASSUME NEW a \in Nat, NEW r \in Nat \ {0}
  PROVE  \E q \in Nat, m \in 0 .. (r - 1) :
           q = a \div r /\ m = a % r /\ a = q * r + m
<1>1. PICK q, m : q = a \div r /\ m = a % r
  OBVIOUS
<1>2. q \in Int /\ m \in 0 .. (r - 1)
  BY <1>1
<1>3. a = q * r + m
  BY <1>1
<1>4. q \in Nat
  <2>1. SUFFICES ASSUME q < 0 PROVE FALSE
    BY <1>2
  <2>2. PICK d \in Nat : q = -(d + 1)
    <3>1. -q - 1 \in Nat /\ q = -((-q - 1) + 1)
      BY <1>2, <2>1
    <3> QED
      BY <3>1
  <2>3. q * r = -(d * r) - r /\ d * r \in Nat
    BY <2>2
  <2> QED
    BY <1>2, <1>3, <2>3
<1> QED
  BY <1>1, <1>2, <1>3, <1>4

(* Numbers less than r apart with one remainder are equal.                 *)
LEMMA NearEqual ==
  ASSUME NEW a \in Nat, NEW b \in Nat, NEW r \in Nat \ {0},
         a - b < r, b - a < r, a % r = b % r
  PROVE  a = b
<1>1. PICK p \in Nat, m \in 0 .. (r - 1) : m = a % r /\ a = p * r + m
  BY Division
<1>2. PICK q \in Nat : b = q * r + m
  <2>1. PICK q \in Nat, k \in 0 .. (r - 1) : k = b % r /\ b = q * r + k
    BY Division
  <2>2. k = m
    BY <1>1, <2>1
  <2> QED
    BY <2>1, <2>2
<1>3. PICK x \in Nat, y \in Nat : x = p * r /\ y = q * r
  BY Products
<1>4. p > q => x >= y + r
  <2>1. p > q => q + 1 <= p /\ q + 1 \in Nat
    OBVIOUS
  <2> QED
    BY <1>3, <2>1, Products
<1>5. q > p => y >= x + r
  <2>1. q > p => p + 1 <= q /\ p + 1 \in Nat
    OBVIOUS
  <2> QED
    BY <1>3, <2>1, Products
<1>6. p = q
  BY <1>1, <1>2, <1>3, <1>4, <1>5
<1> QED
  BY <1>1, <1>2, <1>6

LEMMA Remainder ==
  ASSUME NEW q \in Nat, NEW r \in Nat \ {0}, NEW k \in 0 .. (r - 1)
  PROVE  (q * r + k) % r = k
<1>1. PICK a \in Nat, y \in Nat : y = q * r /\ a = y + k
  BY Products
<1>2. PICK p \in Nat, m \in 0 .. (r - 1) : m = a % r /\ a = p * r + m
  BY Division
<1>3. PICK x \in Nat : x = p * r
  BY Products
<1>4. p > q => x >= y + r
  <2>1. p > q => q + 1 <= p /\ q + 1 \in Nat
    OBVIOUS
  <2> QED
    BY <1>1, <1>3, <2>1, Products
<1>5. q > p => y >= x + r
  <2>1. q > p => p + 1 <= q /\ p + 1 \in Nat
    OBVIOUS
  <2> QED
    BY <1>1, <1>3, <2>1, Products
<1>6. p = q
  BY <1>1, <1>2, <1>3, <1>4, <1>5
<1> QED
  BY <1>1, <1>2, <1>3, <1>6

(* The 16-bit counter wraps as the frame numbers grow.                     *)
LEMMA NextRemainder ==
  ASSUME NEW a \in Nat, NEW r \in Nat \ {0}
  PROVE  ((a % r) + 1) % r = (a + 1) % r
<1>1. PICK q \in Nat, m \in 0 .. (r - 1) : m = a % r /\ a = q * r + m
  BY Division
<1>2. PICK y \in Nat : y = q * r /\ (q + 1) * r = y + r
  BY Products
<1>3. CASE m + 1 < r
  <2>1. m + 1 \in 0 .. (r - 1) /\ a + 1 = q * r + (m + 1) /\ m + 1 = 0 * r + (m + 1)
    BY <1>1, <1>2, <1>3
  <2>2. (q * r + (m + 1)) % r = m + 1 /\ (0 * r + (m + 1)) % r = m + 1
    BY <2>1, Remainder
  <2> QED
    BY <1>1, <2>1, <2>2
<1>4. CASE m + 1 = r
  <2>1. 0 \in 0 .. (r - 1) /\ a + 1 = (q + 1) * r + 0 /\ m + 1 = 1 * r + 0 /\ q + 1 \in Nat
    BY <1>1, <1>2, <1>4
  <2>2. ((q + 1) * r + 0) % r = 0 /\ (1 * r + 0) % r = 0
    BY <2>1, Remainder
  <2> QED
    BY <1>1, <2>1, <2>2
<1> QED
  BY <1>3, <1>4

-----------------------------------------------------------------------------
(* encode_message cuts a payload without overlap, gap or excess.           *)
LEMMA Cut ==
  ASSUME NEW total \in Nat
  PROVE  /\ FragCount(total) \in Nat \ {0}
         /\ FragCount(total) * max_fragment >= total
         /\ total > 0 => (FragCount(total) - 1) * max_fragment < total
<1> DEFINE mf == max_fragment
<1>1. mf \in Nat \ {0}
  BY StreamTransferAssumption
<1>2. CASE total = 0
  BY <1>1, <1>2 DEF FragCount
<1>3. CASE total > 0
  <2>1. PICK n \in Nat, k \in 0 .. (mf - 1) :
           n = (total + mf - 1) \div mf /\ total + mf - 1 = n * mf + k
    <3>1. total + mf - 1 \in Nat
      BY <1>1
    <3> QED
      BY <1>1, <3>1, Division
  <2>2. n # 0
    <3>1. n = 0 => n * mf = 0
      BY <1>1
    <3> QED
      BY <1>1, <1>3, <2>1, <3>1
  <2>3. n - 1 \in Nat /\ n = (n - 1) + 1
    BY <2>2
  <2>4. PICK a \in Nat, b \in Nat : a = n * mf /\ b = (n - 1) * mf /\ a = b + mf
    BY <1>1, <2>1, <2>3, Products
  <2>5. FragCount(total) = n
    BY <1>3, <2>1 DEF FragCount
  <2> QED
    BY <1>1, <1>3, <2>1, <2>2, <2>4, <2>5
<1> QED
  BY <1>2, <1>3

LEMMA CutAt ==
  ASSUME NEW total \in Nat, NEW i \in 1 .. FragCount(total)
  PROVE  LET offset == (i - 1) * max_fragment
             chunk  == Chunk(total, offset)
         IN  /\ offset \in Nat /\ chunk \in Nat
             /\ offset + chunk <= total
             /\ i = FragCount(total) => offset + chunk = total
             /\ i < FragCount(total) => /\ offset + chunk = i * max_fragment
                                        /\ offset + chunk < total
             /\ FragCount(total) <= 1 => offset = 0
<1>1. PICK n \in Nat \ {0}, mf \in Nat \ {0} : n = FragCount(total) /\ mf = max_fragment
  BY Cut, StreamTransferAssumption
<1>2. PICK a \in Nat, b \in Nat, c \in Nat, d \in Nat :
         /\ a = (i - 1) * mf /\ b = i * mf /\ c = (n - 1) * mf /\ d = n * mf
         /\ b = a + mf /\ d = c + mf
         /\ (i = n => b = d) /\ (i < n => b <= c) /\ (i = 1 => a = 0)
  <2>1. i - 1 \in Nat /\ n - 1 \in Nat /\ i \in Nat /\ mf \in Nat
        /\ i = (i - 1) + 1 /\ n = (n - 1) + 1 /\ (i < n => i <= n - 1)
    BY <1>1
  <2>2. (i - 1) * mf \in Nat /\ i * mf \in Nat /\ (n - 1) * mf \in Nat /\ n * mf \in Nat
    BY <1>1, <2>1, Products
  <2>3. i * mf = (i - 1) * mf + mf /\ n * mf = (n - 1) * mf + mf
    BY <2>1, Products
  <2>4. i < n => i * mf <= (n - 1) * mf
    BY <2>1, Products
  <2>5. i = 1 => (i - 1) * mf = 0
    BY <1>1
  <2> QED
    BY <2>2, <2>3, <2>4, <2>5
<1>3. d >= total /\ (total > 0 => c < total)
  BY <1>1, <1>2, Cut
<1>4. (i - 1) * max_fragment = a /\ i * max_fragment = b
  BY <1>1, <1>2
<1>5. total = 0 => n = 1
  BY <1>1 DEF FragCount
<1>6. Chunk(total, a) = IF mf <= total - a THEN mf ELSE total - a
  BY <1>1 DEF Chunk
<1>7. i <= n /\ 1 <= i
  BY <1>1
<1>8. a <= total
  BY <1>2, <1>3, <1>5, <1>7
<1> QED
  BY <1>1, <1>2, <1>3, <1>4, <1>5, <1>6, <1>7, <1>8

(* What the decoder relies on in a frame that encode_message built.        *)
WellCut(f) ==
  /\ f.type = "DATA" /\ f.stream_id \in Streams /\ f.msg_id \in MsgRange
  /\ f.seq \in Nat /\ f.frag_offset \in Nat /\ f.len \in Nat
  /\ f.frag \in BOOLEAN /\ f.fin \in BOOLEAN /\ f.compressed \in BOOLEAN
  /\ f.frag_offset + f.len <= PayloadLen[f.msg_id]
  /\ f.fin => f.frag_offset + f.len = PayloadLen[f.msg_id]
  /\ ~f.frag => f.frag_offset = 0

LEMMA PayloadLenType ==
  ASSUME NEW m \in MsgRange
  PROVE  PayloadLen[m] \in Nat /\ PayloadLen[m] <= OffMax /\ m \in Nat
  BY StreamTransferAssumption DEF MsgRange

LEMMA FragmentFields ==
  ASSUME NEW s \in Streams, NEW m \in MsgRange, NEW seq \in Nat,
         NEW i \in 1 .. FragCount(PayloadLen[m])
  PROVE  LET f == Fragment(s, m, i, seq) IN
         /\ f \in DataFrames /\ WellCut(f)
         /\ f.stream_id = s /\ f.msg_id = m /\ f.seq = seq
         /\ f.frag_offset = (i - 1) * max_fragment
         /\ f.len = Chunk(PayloadLen[m], f.frag_offset)
         /\ f.frag <=> FragCount(PayloadLen[m]) > 1
         /\ f.fin <=> i = FragCount(PayloadLen[m])
<1>1. PICK t, n, o, c : /\ t = PayloadLen[m] /\ n = FragCount(t)
                        /\ o = (i - 1) * max_fragment /\ c = Chunk(t, o)
  OBVIOUS
<1>2. /\ t \in Nat /\ n \in Nat /\ o \in Nat /\ c \in Nat
      /\ o + c <= t /\ (i = n => o + c = t) /\ (n <= 1 => o = 0)
  BY <1>1, PayloadLenType, Cut, CutAt
<1>3. PICK fr, fi, no : fr = (n > 1) /\ fi = (i = n) /\ no = FALSE
  BY Zenon
<1>4. PICK f : f = Fragment(s, m, i, seq)
  OBVIOUS
<1>5. f = [type |-> "DATA", stream_id |-> s, msg_id |-> m, seq |-> seq,
           frag_offset |-> o, len |-> c, frag |-> fr, fin |-> fi,
           compressed |-> no]
  BY <1>1, <1>3, <1>4, Zenon DEF Fragment
<1>7. /\ f.type = "DATA" /\ f.stream_id = s /\ f.msg_id = m /\ f.seq = seq
      /\ f.frag_offset = o /\ f.len = c /\ f.frag = fr /\ f.fin = fi
      /\ f.compressed = no
  BY <1>5
<1>8. f.frag \in BOOLEAN /\ f.fin \in BOOLEAN /\ f.compressed \in BOOLEAN
  <2>1. (n > 1) \in BOOLEAN
    BY <1>2
  <2> QED
    BY <1>3, <1>7, <2>1, Zenon
<1>9. (f.frag <=> n > 1) /\ (f.fin <=> i = n)
  BY <1>3, <1>7, Zenon
<1>10. WellCut(f)
  BY <1>1, <1>2, <1>7, <1>8, <1>9 DEF WellCut
<1>6. f \in DataFrames
  <2>1. f \in [type : {"DATA"}, stream_id : Streams, msg_id : MsgRange, seq : Nat,
               frag_offset : Nat, len : Nat, frag : BOOLEAN, fin : BOOLEAN,
               compressed : BOOLEAN]
    BY <1>2, <1>5, <1>7, <1>8
  <2> QED
    BY <1>4, <1>7, <2>1 DEF DataFrames
<1> QED
  BY <1>1, <1>4, <1>6, <1>7, <1>9, <1>10

LEMMA DataFramesWellCut ==
  ASSUME NEW f \in DataFrames
  PROVE  WellCut(f)
<1>1. PICK i \in 1 .. FragCount(PayloadLen[f.msg_id]) :
         f = Fragment(f.stream_id, f.msg_id, i, f.seq)
  BY DEF DataFrames
<1>2. f.stream_id \in Streams /\ f.msg_id \in MsgRange /\ f.seq \in Nat
  BY DEF DataFrames
<1> QED
  BY <1>1, <1>2, FragmentFields

(* The assumptions of the components hold.                                 *)
LEMMA ReassemblyAssumptions == RP!FragmentsAssumption /\ RP!CoverageAssumption
<1>1. \A f \in DataFrames : /\ RP!DataFrame(f) /\ (~f.frag => f.frag_offset = 0)
  <2> SUFFICES ASSUME NEW f \in DataFrames
               PROVE  RP!DataFrame(f) /\ (~f.frag => f.frag_offset = 0)
    OBVIOUS
  <2>1. WellCut(f)
    BY DataFramesWellCut
  <2>2. f.frag_offset \in 0 .. OffMax
    BY <2>1, PayloadLenType, StreamTransferAssumption DEF WellCut
  <2> QED
    BY <2>1, <2>2 DEF WellCut, RP!DataFrame, RP!Offsets
<1>2. MaxResets + MaxDups \in Nat /\ OffMax \in Nat
  BY StreamTransferAssumption
<1>3. Zero \notin RP!Bytes
  BY StreamTransferAssumption DEF RP!Bytes, RP!Offsets
<1> QED
  BY <1>1, <1>2, <1>3 DEF RP!FragmentsAssumption, RP!CoverageAssumption

LEMMA QueueAssumptions == QP!DeliveryAssumption /\ IdMod - 1 \notin MsgRange
  BY StreamTransferAssumption DEF QP!DeliveryAssumption, MsgRange

-----------------------------------------------------------------------------
(* What the transport does to the frames under way.                        *)
LEMMA Slice ==
  ASSUME NEW X, NEW w \in Seq(X), NEW a \in 1 .. (Len(w) + 1),
         NEW b \in (a - 1) .. Len(w), NEW n \in Nat, n = (b - a) + 1
  PROVE  /\ SubSeq(w, a, b) \in Seq(X) /\ Len(SubSeq(w, a, b)) = n
         /\ \A j \in 1 .. n : SubSeq(w, a, b)[j] = w[(a + j) - 1]
<1>1. \A i \in a .. b : w[i] \in X
  <2>1. \A i \in a .. b : i \in 1 .. Len(w)
    OBVIOUS
  <2> QED
    BY <2>1
<1>2. a <= b \/ n = 0
  OBVIOUS
<1> QED
  BY <1>1, <1>2

Joined(X, a, b) ==
  /\ a \o b \in Seq(X)
  /\ Len(a \o b) = Len(a) + Len(b)
  /\ \A p \in 1 .. Len(a) : (a \o b)[p] = a[p]
  /\ \A p \in 1 .. Len(b) : (a \o b)[Len(a) + p] = b[p]

LEMMA Join ==
  ASSUME NEW X, NEW a \in Seq(X), NEW b \in Seq(X)
  PROVE  Joined(X, a, b)
  BY DEF Joined

Removed(X, w, i, v) ==
  /\ v \in Seq(X) /\ Len(v) = Len(w) - 1
  /\ \A j \in 1 .. (Len(w) - 1) : v[j] = IF j < i THEN w[j] ELSE w[j + 1]

LEMMA TakeOut ==
  ASSUME NEW X, NEW w \in Seq(X), NEW i \in 1 .. Len(w)
  PROVE  Removed(X, w, i, RemoveAt(w, i))
<1>0. PICK n \in Nat : n = Len(w)
  OBVIOUS
<1>1. PICK a, b : a = SubSeq(w, 1, i - 1) /\ b = SubSeq(w, i + 1, n)
  BY Zenon
<1>2. /\ a \in Seq(X) /\ Len(a) = i - 1
      /\ \A j \in 1 .. (i - 1) : a[j] = w[(1 + j) - 1]
  <2>1. 1 \in 1 .. (n + 1) /\ i - 1 \in (1 - 1) .. n /\ i - 1 \in Nat
        /\ i - 1 = ((i - 1) - 1) + 1
    BY <1>0, <1>1
  <2> QED
    BY <1>0, <1>1, <2>1, Slice
<1>3. /\ b \in Seq(X) /\ Len(b) = n - i
      /\ \A j \in 1 .. (n - i) : b[j] = w[((i + 1) + j) - 1]
  <2>1. i + 1 \in 1 .. (n + 1) /\ n \in ((i + 1) - 1) .. n /\ n - i \in Nat
        /\ n - i = (n - (i + 1)) + 1
    BY <1>0, <1>1
  <2> QED
    BY <1>0, <1>1, <2>1, Slice
<1>4. RemoveAt(w, i) = a \o b
  BY <1>0, <1>1 DEF RemoveAt
<1>5. Joined(X, a, b)
  BY <1>2, <1>3, Join
<1>6. PICK v : v = a \o b
  OBVIOUS
<1>7. v \in Seq(X) /\ Len(v) = n - 1
  BY <1>0, <1>2, <1>3, <1>5, <1>6 DEF Joined
<1>8. ASSUME NEW j \in 1 .. (n - 1)
      PROVE  v[j] = IF j < i THEN w[j] ELSE w[j + 1]
  <2>1. CASE j < i
    <3>1. j \in 1 .. (i - 1) /\ (1 + j) - 1 = j
      BY <1>0, <1>1, <2>1
    <3>2. v[j] = a[j] /\ a[j] = w[(1 + j) - 1]
      BY <3>1, <1>2, <1>5, <1>6 DEF Joined
    <3> QED
      BY <2>1, <3>1, <3>2
  <2>2. CASE ~(j < i)
    <3>1. PICK k \in 1 .. (n - i) : j = (i - 1) + k /\ ((i + 1) + k) - 1 = j + 1
      <4>1. j - (i - 1) \in 1 .. (n - i) /\ j = (i - 1) + (j - (i - 1))
            /\ ((i + 1) + (j - (i - 1))) - 1 = j + 1
        BY <1>0, <1>1, <2>2
      <4> QED
        BY <4>1
    <3>2. v[j] = b[k] /\ b[k] = w[((i + 1) + k) - 1]
      BY <3>1, <1>2, <1>3, <1>5, <1>6 DEF Joined
    <3> QED
      BY <2>2, <3>1, <3>2
  <2> QED
    BY <2>1, <2>2
<1> QED
  <2>1. RemoveAt(w, i) = v
    BY <1>4, <1>6
  <2>2. Removed(X, w, i, v)
    BY <1>0, <1>7, <1>8 DEF Removed
  <2> QED
    BY <2>1, <2>2, Zenon

Repeated(X, w, i, v) ==
  /\ v \in Seq(X) /\ Len(v) = Len(w) + 1
  /\ \A j \in 1 .. (Len(w) + 1) : v[j] = IF j <= i THEN w[j] ELSE w[j - 1]

LEMMA Repeat ==
  ASSUME NEW X, NEW w \in Seq(X), NEW i \in 1 .. Len(w)
  PROVE  Repeated(X, w, i, InsertAt(w, i, w[i]))
<1>0. PICK n \in Nat : n = Len(w)
  OBVIOUS
<1>1. PICK a, b, c : a = SubSeq(w, 1, i - 1) /\ b = << w[i] >> /\ c = SubSeq(w, i, n)
  BY Zenon
<1>2. /\ a \in Seq(X) /\ Len(a) = i - 1
      /\ \A j \in 1 .. (i - 1) : a[j] = w[(1 + j) - 1]
  <2>1. 1 \in 1 .. (n + 1) /\ i - 1 \in (1 - 1) .. n /\ i - 1 \in Nat
        /\ i - 1 = ((i - 1) - 1) + 1
    BY <1>0, <1>1
  <2> QED
    BY <1>0, <1>1, <2>1, Slice
<1>3. /\ c \in Seq(X) /\ Len(c) = (n - i) + 1
      /\ \A j \in 1 .. ((n - i) + 1) : c[j] = w[(i + j) - 1]
  <2>1. i \in 1 .. (n + 1) /\ n \in (i - 1) .. n /\ (n - i) + 1 \in Nat
    BY <1>0, <1>1
  <2> QED
    BY <1>0, <1>1, <2>1, Slice
<1>4. b \in Seq(X) /\ Len(b) = 1 /\ b[1] = w[i]
  BY <1>1
<1>5. PICK d : d = a \o b
  OBVIOUS
<1>6. Joined(X, a, b)
  BY <1>2, <1>4, Join
<1>7. d \in Seq(X) /\ Len(d) = i /\ d[i] = w[i] /\ \A j \in 1 .. (i - 1) : d[j] = w[j]
  <2>1. d \in Seq(X) /\ Len(d) = (i - 1) + 1 /\ d[(i - 1) + 1] = w[i]
    BY <1>2, <1>4, <1>5, <1>6 DEF Joined
  <2>2. ASSUME NEW j \in 1 .. (i - 1) PROVE d[j] = w[j]
    <3>1. (1 + j) - 1 = j
      OBVIOUS
    <3> QED
      BY <3>1, <1>2, <1>5, <1>6 DEF Joined
  <2> QED
    BY <2>1, <2>2
<1>8. Joined(X, d, c)
  BY <1>3, <1>7, Join
<1>9. PICK v : v = d \o c
  OBVIOUS
<1>10. InsertAt(w, i, w[i]) = v
  BY <1>0, <1>1, <1>5, <1>9 DEF InsertAt
<1>11. v \in Seq(X) /\ Len(v) = n + 1
  BY <1>0, <1>3, <1>7, <1>8, <1>9 DEF Joined
<1>12. ASSUME NEW j \in 1 .. (n + 1)
       PROVE  v[j] = IF j <= i THEN w[j] ELSE w[j - 1]
  <2>1. CASE j <= i
    <3>1. v[j] = d[j]
      BY <2>1, <1>7, <1>8, <1>9 DEF Joined
    <3> QED
      BY <2>1, <3>1, <1>7
  <2>2. CASE ~(j <= i)
    <3>1. PICK k \in 1 .. ((n - i) + 1) : j = i + k /\ (i + k) - 1 = j - 1
      <4>1. j - i \in 1 .. ((n - i) + 1) /\ j = i + (j - i) /\ (i + (j - i)) - 1 = j - 1
        BY <1>0, <1>1, <2>2
      <4> QED
        BY <4>1
    <3>2. v[j] = c[k] /\ c[k] = w[(i + k) - 1]
      BY <3>1, <1>3, <1>7, <1>8, <1>9 DEF Joined
    <3> QED
      BY <2>2, <3>1, <3>2
  <2> QED
    BY <2>1, <2>2
<1> QED
  BY <1>0, <1>1, <1>10, <1>11, <1>12 DEF Repeated

Swapped(X, w, i, v) ==
  /\ v \in Seq(X) /\ Len(v) = Len(w)
  /\ \A j \in 1 .. Len(w) :
       v[j] = IF j = i THEN w[i + 1] ELSE IF j = i + 1 THEN w[i] ELSE w[j]

LEMMA Exchange ==
  ASSUME NEW X, NEW w \in Seq(X), NEW i \in 1 .. Len(w), i < Len(w)
  PROVE  Swapped(X, w, i, [w EXCEPT ![i] = w[i + 1], ![i + 1] = w[i]])
<1>1. i \in 1 .. Len(w) /\ i + 1 \in 1 .. Len(w) /\ w[i] \in X /\ w[i + 1] \in X
  OBVIOUS
<1> QED
  BY <1>1 DEF Swapped

-----------------------------------------------------------------------------
(* The state of sender, transport and arrivals.                            *)
ResetFrames == {ResetFrame(x[1], x[2]) : x \in Streams \X Nat}

WireFrames == DataFrames \cup ResetFrames

Numbers == Nat \cup {-1}

Truth == [jumps : Nat, repeats : Nat, fresh : BOOLEAN]

TransferType ==
  /\ next_msg \in [Streams -> Nat] /\ \A s \in Streams : next_msg[s] <= Messages[s]
  /\ next_seq \in [Streams -> Nat] /\ resets_sent \in [Streams -> Nat]
  /\ chan \in Seq(WireFrames)
  /\ drops \in Nat /\ dups \in Nat /\ swaps \in Nat
  /\ table \in [Streams -> T!Rolling]
  /\ first \in [Streams -> Numbers] /\ last \in [Streams -> Numbers]
  /\ truth \in [Streams -> Truth]
  /\ emitted \in SUBSET (Streams \X MsgRange)

LEMMA ResetFields ==
  ASSUME NEW s \in Streams, NEW q \in Nat
  PROVE  /\ ResetFrame(s, q) \in ResetFrames
         /\ ResetFrame(s, q).type = "RESET" /\ ResetFrame(s, q).stream_id = s
         /\ ResetFrame(s, q).seq = q
<1>1. ResetFrame(s, q) \in ResetFrames
  <2>1. << s, q >> \in Streams \X Nat /\ << s, q >>[1] = s /\ << s, q >>[2] = q
    OBVIOUS
  <2> QED
    BY <2>1 DEF ResetFrames
<1> QED
  BY <1>1 DEF ResetFrame

LEMMA WireFields ==
  ASSUME NEW f \in WireFrames
  PROVE  /\ f.stream_id \in Streams /\ f.seq \in Nat
         /\ f.type = "DATA" => f \in DataFrames /\ WellCut(f)
         /\ f.type # "DATA" => f.type = "RESET"
<1>1. CASE f \in DataFrames
  BY <1>1, DataFramesWellCut DEF WellCut
<1>2. CASE f \in ResetFrames
  <2>1. PICK x \in Streams \X Nat : f = ResetFrame(x[1], x[2])
    BY <1>2 DEF ResetFrames
  <2> QED
    BY <2>1, ResetFields
<1> QED
  BY <1>1, <1>2 DEF WireFrames

(* What observe() does to the record of a stream.                          *)
Noted(r, seq, t) ==
  /\ t \in T!Rolling
  /\ t.resets = r.resets /\ t.last_seq = seq /\ t.seeded
  /\ t.gaps = r.gaps + (IF r.seeded /\ seq \notin {r.last_seq, T!Expected(r)} THEN 1 ELSE 0)
  /\ t.duplicates = r.duplicates + (IF r.seeded /\ seq = r.last_seq THEN 1 ELSE 0)

Record(a, b, c, d, q, z) ==
  [frames |-> a, gaps |-> b, duplicates |-> c, resets |-> d, last_seq |-> q, seeded |-> z]

Fields(t, b, c, d, q, z) ==
  /\ t \in T!Rolling /\ t.gaps = b /\ t.duplicates = c /\ t.resets = d
  /\ t.last_seq = q /\ t.seeded = z

LEMMA RecordType ==
  ASSUME NEW a \in Nat, NEW b \in Nat, NEW c \in Nat, NEW d \in Nat,
         NEW q \in T!Seqs, NEW z \in BOOLEAN, NEW t, t = Record(a, b, c, d, q, z)
  PROVE  Fields(t, b, c, d, q, z)
  BY DEF Record, T!Rolling, Fields

LEMMA RecordOf ==
  ASSUME NEW r \in T!Rolling
  PROVE  /\ r.frames \in Nat /\ r.gaps \in Nat /\ r.duplicates \in Nat /\ r.resets \in Nat
         /\ r.last_seq \in T!Seqs /\ r.seeded \in BOOLEAN
         /\ r = Record(r.frames, r.gaps, r.duplicates, r.resets, r.last_seq, r.seeded)
  BY DEF Record, T!Rolling

LEMMA ObservedExact ==
  ASSUME NEW r \in T!Rolling, NEW seq \in T!Seqs
  PROVE  Noted(r, seq, T!Observed(r, seq))
<1>1. PICK t : t = T!Observed(r, seq)
  OBVIOUS
<1>2. PICK a, b, c, d, q, z :
         /\ a = r.frames /\ b = r.gaps /\ c = r.duplicates /\ d = r.resets
         /\ q = r.last_seq /\ z = r.seeded
  BY Zenon
<1>3. /\ a \in Nat /\ b \in Nat /\ c \in Nat /\ d \in Nat /\ q \in T!Seqs /\ z \in BOOLEAN
      /\ r = Record(a, b, c, d, q, z)
  BY <1>2, RecordOf, Zenon
<1>4. PICK yes \in BOOLEAN : yes = TRUE
  OBVIOUS
<1>5. a + 1 \in Nat /\ b + 1 \in Nat /\ c + 1 \in Nat /\ b + 0 = b /\ c + 0 = c
  BY <1>3
<1>7. CASE ~r.seeded
  <2>1. t = Record(a + 1, b, c, d, seq, yes)
    BY <1>1, <1>3, <1>4, <1>7, Zenon DEF T!Observed, Record
  <2>2. Fields(t, b, c, d, seq, yes)
    BY <1>3, <1>5, <2>1, RecordType
  <2>3. Noted(r, seq, t)
    BY <1>2, <1>3, <1>4, <1>5, <1>7, <2>2 DEF Noted, Fields
  <2> QED
    BY <1>1, <2>3
<1>8. CASE r.seeded /\ seq = r.last_seq
  <2>1. t = Record(a + 1, b, c + 1, d, seq, yes)
    BY <1>1, <1>2, <1>3, <1>4, <1>8, Zenon DEF T!Observed, Record
  <2>2. Fields(t, b, c + 1, d, seq, yes)
    BY <1>3, <1>5, <2>1, RecordType
  <2>3. Noted(r, seq, t)
    BY <1>2, <1>3, <1>4, <1>5, <1>8, <2>2 DEF Noted, Fields
  <2> QED
    BY <1>1, <2>3
<1>9. CASE r.seeded /\ seq # r.last_seq
  <2>1. PICK k \in {0, 1} : k = IF seq # T!Expected(r) THEN 1 ELSE 0
    OBVIOUS
  <2>2. t = Record(a + 1, b + k, c, d, seq, yes)
    BY <1>1, <1>2, <1>3, <1>4, <1>9, <2>1, Zenon DEF T!Observed, Record
  <2>3. b + k \in Nat
    BY <1>3, <2>1
  <2>4. Fields(t, b + k, c, d, seq, yes)
    BY <1>3, <1>5, <2>2, <2>3, RecordType
  <2>5. Noted(r, seq, t)
    BY <1>2, <1>3, <1>4, <1>5, <1>9, <2>1, <2>4 DEF Noted, Fields
  <2> QED
    BY <1>1, <2>5
<1> QED
  BY <1>7, <1>8, <1>9

LEMMA AfterResetExact ==
  ASSUME NEW r \in T!Rolling
  PROVE  LET t == T!AfterReset(r) IN
         /\ t \in T!Rolling /\ t.resets = r.resets + 1 /\ ~t.seeded
         /\ t.gaps = r.gaps /\ t.duplicates = r.duplicates
<1>1. 0 \in T!Seqs
  BY StreamTransferAssumption DEF T!Seqs
<1>2. PICK a, b, c, d, q, z :
         /\ a = r.frames /\ b = r.gaps /\ c = r.duplicates /\ d = r.resets
         /\ q = r.last_seq /\ z = r.seeded
  BY Zenon
<1>3. /\ a \in Nat /\ b \in Nat /\ c \in Nat /\ d \in Nat /\ q \in T!Seqs /\ z \in BOOLEAN
      /\ r = Record(a, b, c, d, q, z)
  BY <1>2, RecordOf, Zenon
<1>4. PICK no \in BOOLEAN : no = FALSE
  OBVIOUS
<1>5. PICK t : t = T!AfterReset(r)
  OBVIOUS
<1>6. t = Record(a, b, c, d + 1, 0, no)
  <2>1. t = [r EXCEPT !.resets = d + 1, !.seeded = no, !.last_seq = 0]
    BY <1>2, <1>4, <1>5, Zenon DEF T!AfterReset
  <2> QED
    BY <1>3, <2>1, Zenon DEF Record
<1>7. d + 1 \in Nat
  BY <1>3
<1>8. Fields(t, b, c, d + 1, 0, no)
  BY <1>1, <1>3, <1>6, <1>7, RecordType
<1> QED
  BY <1>2, <1>4, <1>5, <1>8 DEF Fields

-----------------------------------------------------------------------------
(* The shapes of a step.  A stream sends frames numbered on from its last. *)
Sent(s, w) ==
  /\ w \in Seq(WireFrames) /\ Len(w) \in Nat
  /\ \A i \in 1 .. Len(w) : w[i].stream_id = s /\ w[i].seq = next_seq[s] + i - 1
  /\ chan' = chan \o w
  /\ next_seq' = [next_seq EXCEPT ![s] = @ + Len(w)]
  /\ UNCHANGED << drops, dups, swaps, decoder >>

LEMMA MessageSent ==
  ASSUME TransferType, NEW s \in Streams, SendMessage(s)
  PROVE  /\ next_msg[s] \in MsgRange
         /\ Sent(s, encode_message(s, next_msg[s], next_seq[s]))
<1>1. PICK m, q, n, w : /\ m = next_msg[s] /\ q = next_seq[s]
                        /\ n = FragCount(PayloadLen[m]) /\ w = encode_message(s, m, q)
  BY Zenon
<1>2. m \in MsgRange /\ q \in Nat
  <2>1. next_msg[s] < Messages[s] /\ next_msg[s] \in Nat /\ next_seq[s] \in Nat
    BY DEF SendMessage, TransferType
  <2>2. Messages[s] \in Nat /\ Messages[s] < IdMod /\ IdMod \in Nat
    BY StreamTransferAssumption
  <2> QED
    BY <1>1, <2>1, <2>2 DEF MsgRange
<1>3. n \in Nat
  BY <1>1, <1>2, PayloadLenType, Cut
<1>4. w = [i \in 1 .. n |-> Fragment(s, m, i, q + i - 1)]
  BY <1>1 DEF encode_message
<1>5. ASSUME NEW i \in 1 .. n
      PROVE  /\ w[i] \in WireFrames /\ w[i].stream_id = s /\ w[i].seq = q + i - 1
  <2>1. q + i - 1 \in Nat
    BY <1>2, <1>3
  <2>2. w[i] = Fragment(s, m, i, q + i - 1)
    BY <1>4
  <2> QED
    BY <1>1, <1>2, <2>1, <2>2, FragmentFields DEF WireFrames
<1>6. w \in Seq(WireFrames) /\ Len(w) = n
  BY <1>3, <1>4, <1>5
<1>7. /\ chan' = chan \o w
      /\ next_seq' = [next_seq EXCEPT ![s] = @ + Len(w)]
      /\ UNCHANGED << drops, dups, swaps, decoder >>
  BY <1>1 DEF SendMessage
<1>8. Sent(s, w)
  BY <1>1, <1>3, <1>5, <1>6, <1>7 DEF Sent
<1> QED
  BY <1>1, <1>2, <1>8

LEMMA ResetSent ==
  ASSUME TransferType, NEW s \in Streams, SendReset(s)
  PROVE  Sent(s, << ResetFrame(s, next_seq[s]) >>)
<1>1. PICK q, f, w : q = next_seq[s] /\ f = ResetFrame(s, q) /\ w = << f >>
  BY Zenon
<1>2. q \in Nat
  BY <1>1 DEF TransferType
<1>3. f \in WireFrames /\ f.stream_id = s /\ f.seq = q
  BY <1>1, <1>2, ResetFields DEF WireFrames
<1>4. w \in Seq(WireFrames) /\ Len(w) = 1 /\ w[1] = f
  BY <1>1, <1>3
<1>5. chan' = chan \o w
  <2>1. chan' = Append(chan, f) /\ chan \in Seq(WireFrames)
    BY <1>1 DEF SendReset, TransferType
  <2> QED
    BY <1>1, <1>3, <2>1
<1>6. /\ next_seq' = [next_seq EXCEPT ![s] = @ + 1]
      /\ UNCHANGED << drops, dups, swaps, decoder >>
  BY DEF SendReset
<1>7. Sent(s, w)
  <2>1. \A i \in 1 .. Len(w) : w[i].stream_id = s /\ w[i].seq = q + i - 1
    BY <1>2, <1>3, <1>4
  <2> QED
    BY <1>1, <1>4, <1>5, <1>6, <2>1 DEF Sent
<1> QED
  BY <1>1, <1>7

LEMMA SentType ==
  ASSUME TransferType, NEW s \in Streams, NEW w, Sent(s, w)
  PROVE  /\ chan' \in Seq(WireFrames) /\ next_seq' \in [Streams -> Nat]
         /\ Joined(WireFrames, chan, w)
<1>1. Joined(WireFrames, chan, w)
  BY Join DEF TransferType, Sent
<1>2. next_seq' \in [Streams -> Nat]
  BY DEF TransferType, Sent
<1> QED
  BY <1>1, <1>2 DEF Sent, Joined

LEMMA SendType ==
  ASSUME TransferType, NEW s \in Streams, SendMessage(s) \/ SendReset(s)
  PROVE  TransferType'
<1>1. PICK w : Sent(s, w)
  BY MessageSent, ResetSent
<1>2. chan' \in Seq(WireFrames) /\ next_seq' \in [Streams -> Nat]
  BY <1>1, SentType
<1>3. UNCHANGED << drops, dups, swaps, table, first, last, truth, emitted >>
  BY <1>1 DEF Sent, decoder
<1>4. /\ next_msg' \in [Streams -> Nat] /\ \A t \in Streams : next_msg'[t] <= Messages[t]
      /\ resets_sent' \in [Streams -> Nat]
  <2>1. CASE SendMessage(s)
    <3>1. /\ next_msg[s] < Messages[s] /\ next_msg' = [next_msg EXCEPT ![s] = @ + 1]
          /\ next_msg \in [Streams -> Nat] /\ resets_sent' = resets_sent
          /\ \A t \in Streams : next_msg[t] <= Messages[t]
      BY <2>1 DEF SendMessage, TransferType
    <3>2. \A t \in Streams : Messages[t] \in Nat
      BY StreamTransferAssumption
    <3> QED
      BY <3>1, <3>2 DEF TransferType
  <2>2. CASE SendReset(s)
    BY <2>2 DEF SendReset, TransferType
  <2> QED
    BY <2>1, <2>2
<1> QED
  BY <1>2, <1>3, <1>4 DEF TransferType

(* The transport loses, repeats or swaps frames.                           *)
LEMMA FaultForms ==
  ASSUME TransferType, Fault
  PROVE  /\ UNCHANGED << sender, decoder >>
         /\ drops + dups + swaps < MaxFaults
         /\ drops' \in Nat /\ dups' \in Nat /\ swaps' \in Nat
         /\ drops' + dups' + swaps' = drops + dups + swaps + 1
         /\ \E i \in 1 .. Len(chan) :
              \/ Removed(WireFrames, chan, i, chan')
              \/ Repeated(WireFrames, chan, i, chan')
              \/ i < Len(chan) /\ Swapped(WireFrames, chan, i, chan')
<1>1. PICK i \in DOMAIN chan : Drop(i) \/ Duplicate(i) \/ Swap(i)
  BY DEF Fault
<1>2. chan \in Seq(WireFrames) /\ i \in 1 .. Len(chan) /\ drops + dups + swaps < MaxFaults
      /\ drops \in Nat /\ dups \in Nat /\ swaps \in Nat
  BY <1>1 DEF TransferType, Fault
<1>3. CASE Drop(i)
  <2>1. Removed(WireFrames, chan, i, RemoveAt(chan, i))
    BY <1>2, TakeOut
  <2>2. Removed(WireFrames, chan, i, chan')
    BY <1>3, <2>1 DEF Drop
  <2>3. UNCHANGED << sender, decoder >> /\ drops' = drops + 1 /\ dups' = dups /\ swaps' = swaps
    BY <1>3 DEF Drop
  <2> QED
    BY <1>2, <2>2, <2>3
<1>4. CASE Duplicate(i)
  <2>1. Repeated(WireFrames, chan, i, InsertAt(chan, i, chan[i]))
    BY <1>2, Repeat
  <2>2. Repeated(WireFrames, chan, i, chan')
    BY <1>4, <2>1 DEF Duplicate
  <2>3. UNCHANGED << sender, decoder >> /\ drops' = drops /\ dups' = dups + 1 /\ swaps' = swaps
    BY <1>4 DEF Duplicate
  <2> QED
    BY <1>2, <2>2, <2>3
<1>5. CASE Swap(i)
  <2>1. i < Len(chan)
    BY <1>5 DEF Swap
  <2>2. Swapped(WireFrames, chan, i, [chan EXCEPT ![i] = chan[i + 1], ![i + 1] = chan[i]])
    BY <1>2, <2>1, Exchange
  <2>3. Swapped(WireFrames, chan, i, chan')
    BY <1>5, <2>2 DEF Swap
  <2>4. UNCHANGED << sender, decoder >> /\ drops' = drops /\ dups' = dups /\ swaps' = swaps + 1
    BY <1>5 DEF Swap
  <2> QED
    BY <1>2, <2>1, <2>3, <2>4
<1> QED
  BY <1>1, <1>3, <1>4, <1>5

LEMMA FaultType ==
  ASSUME TransferType, Fault
  PROVE  TransferType'
<1>1. chan' \in Seq(WireFrames)
  BY FaultForms DEF Removed, Repeated, Swapped
<1> QED
  BY <1>1, FaultForms DEF TransferType, sender, decoder

(* A frame arrives: it was the first under way, and its number is noted.   *)
Arrived(f) ==
  /\ f \in WireFrames /\ chan # << >> /\ f = chan[1]
  /\ chan' \in Seq(WireFrames) /\ Len(chan') = Len(chan) - 1
  /\ \A j \in 1 .. (Len(chan) - 1) : chan'[j] = chan[j + 1]
  /\ first' \in [Streams -> Numbers] /\ last' \in [Streams -> Numbers]
  /\ truth' \in [Streams -> Truth]
  /\ \A s \in Streams : s # f.stream_id =>
       first'[s] = first[s] /\ last'[s] = last[s] /\ truth'[s] = truth[s]
  /\ first'[f.stream_id] = IF first[f.stream_id] = -1 THEN f.seq ELSE first[f.stream_id]
  /\ last'[f.stream_id] = f.seq
  /\ truth'[f.stream_id] = Witness(truth[f.stream_id], last[f.stream_id], f)
  /\ UNCHANGED << sender, drops, dups, swaps >>

LEMMA WitnessType ==
  ASSUME NEW t \in Truth, NEW p, NEW f
  PROVE  /\ Witness(t, p, f) \in Truth
         /\ Witness(t, p, f).fresh <=> f.type = "RESET"
         /\ Witness(t, p, f).jumps =
              t.jumps + (IF ~t.fresh /\ f.seq \notin {p, p + 1} THEN 1 ELSE 0)
         /\ Witness(t, p, f).repeats =
              t.repeats + (IF ~t.fresh /\ f.seq = p THEN 1 ELSE 0)
<1>1. PICK a, b, c : /\ a = t.jumps + (IF ~t.fresh /\ f.seq \notin {p, p + 1} THEN 1 ELSE 0)
                     /\ b = t.repeats + (IF ~t.fresh /\ f.seq = p THEN 1 ELSE 0)
                     /\ c = (f.type = "RESET")
  BY Zenon
<1>2. a \in Nat /\ b \in Nat /\ c \in BOOLEAN
  <2>1. t.jumps \in Nat /\ t.repeats \in Nat
    BY DEF Truth
  <2>2. c \in BOOLEAN
    BY <1>1
  <2> QED
    BY <1>1, <2>1, <2>2
<1>3. Witness(t, p, f) = [jumps |-> a, repeats |-> b, fresh |-> c]
  BY <1>1, Zenon DEF Witness
<1>4. /\ Witness(t, p, f) \in Truth
      /\ Witness(t, p, f).jumps = a /\ Witness(t, p, f).repeats = b
      /\ Witness(t, p, f).fresh = c
  BY <1>2, <1>3 DEF Truth
<1> QED
  BY <1>1, <1>4, Zenon

LEMMA ArriveForm ==
  ASSUME TransferType, NEW f, Arrive(f)
  PROVE  Arrived(f)
<1>1. chan \in Seq(WireFrames) /\ chan # << >> /\ f = Head(chan) /\ chan' = Tail(chan)
  BY DEF Arrive, TransferType
<1>2. /\ f \in WireFrames /\ f = chan[1]
      /\ chan' \in Seq(WireFrames) /\ Len(chan') = Len(chan) - 1
      /\ \A j \in 1 .. (Len(chan) - 1) : chan'[j] = chan[j + 1]
  BY <1>1
<1>3. f.stream_id \in Streams /\ f.seq \in Nat
  BY <1>2, WireFields
<1>4. PICK s \in Streams, q \in Nat : s = f.stream_id /\ q = f.seq
  BY <1>3
<1>5. /\ first' = [first EXCEPT ![s] = IF @ = -1 THEN q ELSE @]
      /\ last' = [last EXCEPT ![s] = q]
      /\ UNCHANGED << sender, drops, dups, swaps >>
  BY <1>4 DEF Arrive
<1>6. truth' = [truth EXCEPT ![s] = Witness(truth[s], last[s], f)]
  BY <1>4 DEF Arrive
<1>7. first \in [Streams -> Numbers] /\ last \in [Streams -> Numbers]
      /\ truth \in [Streams -> Truth] /\ q \in Numbers
  BY DEF TransferType, Numbers
<1>8. Witness(truth[s], last[s], f) \in Truth
  BY <1>7, WitnessType
<1>9. /\ truth' \in [Streams -> Truth]
      /\ truth'[s] = Witness(truth[s], last[s], f)
      /\ \A t \in Streams : t # s => truth'[t] = truth[t]
  BY <1>6, <1>7, <1>8
<1>10. /\ first' \in [Streams -> Numbers] /\ last' \in [Streams -> Numbers]
       /\ first'[s] = IF first[s] = -1 THEN q ELSE first[s]
       /\ last'[s] = q
       /\ \A t \in Streams : t # s => first'[t] = first[t] /\ last'[t] = last[t]
  BY <1>5, <1>7
<1> QED
  BY <1>1, <1>2, <1>4, <1>5, <1>9, <1>10 DEF Arrived

(* The stream table counts it.                                             *)
Counted(f) ==
  /\ table' \in [Streams -> T!Rolling]
  /\ \A s \in Streams : s # f.stream_id => table'[s] = table[s]
  /\ \E t : /\ Noted(table[f.stream_id], f.seq % SeqRange, t)
            /\ f.type = "DATA" => table'[f.stream_id] = t
            /\ f.type = "RESET" => table'[f.stream_id] = T!AfterReset(t)

LEMMA SeqType ==
  ASSUME NEW q \in Nat
  PROVE  q % SeqRange \in T!Seqs
  BY StreamTransferAssumption, Division DEF T!Seqs

LEMMA CountForm ==
  ASSUME TransferType, Decode
  PROVE  LET f == Head(chan) IN
         /\ Arrived(f) /\ Counted(f)
         /\ \/ f.type = "RESET" /\ R!Reset(f.stream_id) /\ UNCHANGED << queue, emitted >>
            \/ f.type = "DATA" /\ R!Fill(f) /\ UNCHANGED << queue, emitted >>
            \/ /\ f.type = "DATA" /\ R!Emit(f) /\ Q!offer(f.stream_id, f.msg_id)
               /\ emitted' = emitted \cup {<< f.stream_id, f.msg_id >>}
<1>1. PICK f : f = Head(chan)
  OBVIOUS
<1>2. Arrived(f)
  BY <1>1, ArriveForm DEF Decode, DecodeReset, DecodeFragment, DecodeMessage
<1>3. PICK s \in Streams, q \in T!Seqs, r \in T!Rolling :
         s = f.stream_id /\ q = f.seq % SeqRange /\ r = table[s]
  <2>1. f.stream_id \in Streams /\ f.seq \in Nat
    BY <1>2, WireFields DEF Arrived
  <2> QED
    BY <2>1, SeqType DEF TransferType
<1>4. PICK t : t = T!Observed(r, q) /\ Noted(r, q, t)
  BY ObservedExact
<1>5. T!AfterReset(t) \in T!Rolling /\ t \in T!Rolling
  BY <1>4, AfterResetExact DEF Noted
<1>6. table \in [Streams -> T!Rolling]
  BY DEF TransferType
<1>7. CASE DecodeReset
  <2>3. /\ f.type = "RESET" /\ R!Reset(Head(chan).stream_id)
        /\ UNCHANGED << queue, emitted >>
    BY <1>1, <1>7 DEF DecodeReset
  <2>1. f.type = "RESET" /\ table' = [table EXCEPT ![s] = T!AfterReset(t)]
    BY <1>1, <1>3, <1>4, <1>7, <2>3 DEF DecodeReset, T!observe_reset
  <2>2. Counted(f)
    BY <1>3, <1>4, <1>5, <1>6, <2>1 DEF Counted
  <2> QED
    BY <1>1, <1>2, <2>2, <2>3
<1>8. CASE DecodeFragment
  <2>1. f.type = "DATA" /\ R!Fill(f) /\ UNCHANGED << queue, emitted >>
        /\ table' = [table EXCEPT ![s] = t]
    BY <1>1, <1>3, <1>4, <1>8 DEF DecodeFragment, T!observe
  <2>2. Counted(f)
    BY <1>3, <1>4, <1>5, <1>6, <2>1 DEF Counted
  <2> QED
    BY <1>1, <1>2, <1>3, <2>1, <2>2
<1>9. CASE DecodeMessage
  <2>1. f.type = "DATA" /\ R!Emit(f) /\ Q!offer(f.stream_id, f.msg_id)
        /\ emitted' = emitted \cup {<< f.stream_id, f.msg_id >>}
        /\ table' = [table EXCEPT ![s] = t]
    BY <1>1, <1>3, <1>4, <1>9 DEF DecodeMessage, T!observe
  <2>2. Counted(f)
    BY <1>3, <1>4, <1>5, <1>6, <2>1 DEF Counted
  <2> QED
    BY <1>1, <1>2, <1>3, <2>1, <2>2
<1> QED
  BY <1>7, <1>8, <1>9 DEF Decode

LEMMA DecodeType ==
  ASSUME TransferType, Decode
  PROVE  TransferType'
<1>1. PICK f : /\ Arrived(f) /\ Counted(f)
               /\ \/ UNCHANGED emitted
                  \/ f.type = "DATA" /\ emitted' = emitted \cup {<< f.stream_id, f.msg_id >>}
  BY CountForm
<1>2. emitted' \in SUBSET (Streams \X MsgRange)
  <2>1. f.type = "DATA" => << f.stream_id, f.msg_id >> \in Streams \X MsgRange
    BY <1>1, WireFields DEF Arrived, WellCut
  <2> QED
    BY <1>1, <2>1 DEF TransferType
<1>3. UNCHANGED << next_msg, next_seq, resets_sent, drops, dups, swaps >>
  BY <1>1 DEF Arrived, sender
<1> QED
  BY <1>1, <1>2, <1>3 DEF TransferType, Arrived, Counted

-----------------------------------------------------------------------------
(* The reassembler and the queue do what is proved of them.                *)
LEMMA SameFill ==
  ASSUME NEW f
  PROVE  R!Fill(f) => RP!Fill(f)
  BY Zenon
  DEF R!Fill, R!Updated, R!is_complete, R!FrameKey, R!WithFragment, R!NoMessage, R!Fresh,
      R!Begin, R!End, R!Bigger, R!PayloadByte, R!Placed, R!add_range, R!OneSpanReaches,
      RP!Fill, RP!Updated, RP!is_complete, RP!FrameKey, RP!WithFragment, RP!NoMessage,
      RP!Fresh, RP!Begin, RP!End, RP!Bigger, RP!PayloadByte, RP!Placed, RP!add_range,
      RP!OneSpanReaches

LEMMA SameEmit ==
  ASSUME NEW f
  PROVE  R!Emit(f) => RP!Emit(f)
  BY Zenon
  DEF R!Emit, R!Updated, R!is_complete, R!FrameKey, R!WithFragment, R!Emitted, R!Fresh,
      R!Begin, R!End, R!Bigger, R!PayloadByte, R!Placed, R!add_range, R!OneSpanReaches,
      RP!Emit, RP!Updated, RP!is_complete, RP!FrameKey, RP!WithFragment, RP!Emitted,
      RP!Fresh, RP!Begin, RP!End, RP!Bigger, RP!PayloadByte, RP!Placed, RP!add_range,
      RP!OneSpanReaches

LEMMA SameWhole == RP!EmittedWhole => R!EmittedWhole
  BY Zenon DEF RP!EmittedWhole, R!EmittedWhole, RP!NoMessage, R!NoMessage

LEMMA SameInit == R!Init => RP!Init
  BY Zenon DEF R!Init, RP!Init, RP!NoMessage, R!NoMessage

LEMMA OfferDelivery ==
  ASSUME QP!DeliveryInv, NEW s \in Streams, NEW m \in MsgRange, Q!offer(s, m)
  PROVE  QP!DeliveryInv'
<1>1. QP!Next
  <2>1. QP!offer(s, m)
    <3>1. Q!offer_duplicate(s, m) => QP!offer_duplicate(s, m)
      BY Zenon
      DEF Q!offer_duplicate, QP!offer_duplicate, Q!Started, QP!Started,
          Q!Offered, QP!Offered, Q!Return, QP!Return, Q!Wrap, QP!Wrap,
          Q!MsgIds, QP!MsgIds
    <3>2. Q!offer_in_order(s, m) => QP!offer_in_order(s, m)
      BY Zenon
      DEF Q!offer_in_order, QP!offer_in_order, Q!Started, QP!Started,
          Q!Offered, QP!Offered, Q!Return, QP!Return, Q!Wrap, QP!Wrap,
          Q!MsgIds, QP!MsgIds, Q!RunEnd, QP!RunEnd
    <3>3. Q!offer_buffered(s, m) => QP!offer_buffered(s, m)
      BY Zenon
      DEF Q!offer_buffered, QP!offer_buffered, Q!Started, QP!Started,
          Q!Offered, QP!Offered, Q!Return, QP!Return, Q!Wrap, QP!Wrap,
          Q!MsgIds, QP!MsgIds, Q!Ahead, QP!Ahead, Q!window, QP!window,
          Q!Cardinality, QP!Cardinality
    <3>4. Q!offer_forced(s, m) => QP!offer_forced(s, m)
      BY Zenon
      DEF Q!offer_forced, QP!offer_forced, Q!Started, QP!Started, Q!Offered,
          QP!Offered, Q!Return, QP!Return, Q!Wrap, QP!Wrap, Q!MsgIds,
          QP!MsgIds, Q!RunEnd, QP!RunEnd, Q!Ahead, QP!Ahead, Q!Lowest,
          QP!Lowest, Q!window, QP!window,
          Q!Cardinality, QP!Cardinality
    <3> QED
      BY <3>1, <3>2, <3>3, <3>4 DEF Q!offer, QP!offer
  <2> QED
    BY <2>1 DEF QP!Next
<1> QED
  BY <1>1, QueueAssumptions, QP!StepDeliveryInv

LEMMA QueueStays ==
  ASSUME QP!DeliveryInv, UNCHANGED queue
  PROVE  QP!DeliveryInv'
<1>1. UNCHANGED QP!vars
  BY DEF queue, QP!vars
<1> QED
  BY <1>1, QueueAssumptions, QP!StepDeliveryInv

LEMMA MapStays ==
  ASSUME RP!MapInv, UNCHANGED << table, partials, out >>
  PROVE  RP!MapInv'
<1>1. UNCHANGED RP!vars
  BY DEF RP!vars
<1> QED
  BY <1>1, ReassemblyAssumptions, RP!StepMapInv

(***************************************************************************)
(* A partial never reaches beyond its message, and knows its length once   *)
(* it has seen FIN: FIN comes on the frame that ends the message.          *)
(***************************************************************************)
LengthInv ==
  \A k \in DOMAIN partials :
    /\ partials[k].high_water <= PayloadLen[k[2]]
    /\ partials[k].have_fin => partials[k].total_len = PayloadLen[k[2]]

OutInv == out # R!NoMessage => Len(out.data) = PayloadLen[out.msg_id]

TransferInv ==
  TransferType /\ RP!MapInv /\ QP!DeliveryInv /\ LengthInv /\ OutInv

(* The partial of message m after frame f.                                 *)
Grown(f, q) ==
  /\ q.have_fin => q.total_len = PayloadLen[f.msg_id]
  /\ q.high_water <= PayloadLen[f.msg_id]
  /\ q.total_len \in Nat /\ q.high_water \in Nat

LEMMA UpdatedGrows ==
  ASSUME TransferInv, NEW f \in DataFrames
  PROVE  Grown(f, RP!Updated(f))
<1>1. PICK q : q = RP!Updated(f)
  OBVIOUS
<1>2. PICK p : RP!Extends(f, p, q)
  BY <1>1, ReassemblyAssumptions, RP!UpdatedExtends DEF TransferInv
<1>3. WellCut(f)
  BY DataFramesWellCut
<1>4. PICK L \in Nat : L = PayloadLen[f.msg_id] /\ L <= OffMax
  BY <1>3, PayloadLenType DEF WellCut
<1>5. PICK e \in Nat : e = RP!End(f) /\ e <= L /\ (f.fin => e = L)
  <2>1. RP!Begin(f) = f.frag_offset
    BY <1>3 DEF WellCut, RP!Begin
  <2>2. f.frag_offset \in Nat /\ f.len \in Nat /\ f.frag_offset + f.len <= L
        /\ (f.fin => f.frag_offset + f.len = L)
    BY <1>3, <1>4 DEF WellCut
  <2>3. RP!End(f) = f.frag_offset + f.len
    BY <1>4, <2>1, <2>2, StreamTransferAssumption DEF RP!End
  <2> QED
    BY <2>2, <2>3
<1>6. PICK a, b : a = p.high_water /\ b = p.total_len
  BY Zenon
<1>7. a \in Nat /\ b \in Nat
  <2>1. p.high_water \in 0 .. OffMax /\ p.total_len \in 0 .. OffMax
    BY <1>2 DEF RP!Extends, RP!PartialMessage, RP!Offsets
  <2> QED
    BY <1>6, <2>1, StreamTransferAssumption
<1>8. a <= L /\ (p.have_fin => b = L)
  <2>1. CASE RP!FrameKey(f) \in DOMAIN partials
    <3>1. p = partials[RP!FrameKey(f)] /\ RP!FrameKey(f)[2] = f.msg_id
      BY <1>2, <2>1 DEF RP!Extends, RP!FrameKey
    <3> QED
      BY <1>4, <1>6, <2>1, <3>1 DEF TransferInv, LengthInv
  <2>2. CASE RP!FrameKey(f) \notin DOMAIN partials
    <3>1. a = 0 /\ ~p.have_fin
      BY <1>2, <1>6, <2>2 DEF RP!Extends
    <3> QED
      BY <3>1
  <2> QED
    BY <2>1, <2>2
<1>9. /\ q.high_water = IF a >= e THEN a ELSE e
      /\ q.total_len = IF f.fin THEN q.high_water ELSE b
      /\ q.have_fin <=> p.have_fin \/ f.fin
  BY <1>2, <1>5, <1>6 DEF RP!Extends, RP!Bigger
<1>10. q.high_water \in Nat /\ q.high_water <= L /\ (f.fin => q.high_water = L)
  BY <1>4, <1>5, <1>7, <1>8, <1>9
<1>11. q.total_len \in Nat /\ (q.have_fin => q.total_len = L)
  BY <1>7, <1>8, <1>9, <1>10
<1> QED
  BY <1>1, <1>4, <1>10, <1>11 DEF Grown

LEMMA FillLengths ==
  ASSUME TransferInv, NEW f \in DataFrames, R!Fill(f)
  PROVE  RP!MapInv' /\ LengthInv' /\ OutInv'
<1>1. RP!Fill(f)
  BY SameFill
<1>2. RP!MapInv'
  BY <1>1, ReassemblyAssumptions, RP!FillMapInv DEF TransferInv
<1>3. PICK q, key : q = RP!Updated(f) /\ key = << f.stream_id, f.msg_id >>
  BY Zenon
<1>4. Grown(f, q) /\ key[2] = f.msg_id
  BY <1>3, UpdatedGrows
<1>5. /\ DOMAIN partials' = DOMAIN partials \cup {key}
      /\ \A k \in DOMAIN partials' : partials'[k] = IF k = key THEN q ELSE partials[k]
  BY <1>1, <1>3 DEF RP!Fill, RP!FrameKey
<1>6. out' = R!NoMessage
  BY DEF R!Fill
<1>7. LengthInv'
  BY <1>4, <1>5 DEF Grown, TransferInv, LengthInv
<1>8. OutInv'
  BY <1>6 DEF OutInv
<1> QED
  BY <1>2, <1>7, <1>8

LEMMA EmitLengths ==
  ASSUME TransferInv, NEW f \in DataFrames, R!Emit(f)
  PROVE  RP!MapInv' /\ LengthInv' /\ OutInv'
<1>1. RP!Emit(f)
  BY SameEmit
<1>2. RP!MapInv'
  BY <1>1, ReassemblyAssumptions, RP!EmitMapInv DEF TransferInv
<1>3. PICK q : q = RP!Updated(f)
  BY Zenon
<1>4. Grown(f, q) /\ q.have_fin
  BY <1>1, <1>3, UpdatedGrows DEF RP!Emit, RP!is_complete
<1>5. /\ DOMAIN partials' \subseteq DOMAIN partials
      /\ \A k \in DOMAIN partials' : partials'[k] = partials[k]
  BY <1>1 DEF RP!Emit
<1>6. LengthInv'
  BY <1>5 DEF TransferInv, LengthInv
<1>7. PICK n, d : n \in Nat /\ n = q.total_len /\ d = [i \in 1 .. n |-> q.buffer[i]]
  BY <1>4 DEF Grown
<1>8. out'.data = d /\ out'.msg_id = f.msg_id
  <2>1. out' = RP!Emitted(q, f)
    BY <1>1, <1>3 DEF RP!Emit
  <2> QED
    BY <2>1, <1>7 DEF RP!Emitted
<1>9. Len(d) = n
  BY <1>7
<1>10. OutInv'
  BY <1>4, <1>7, <1>8, <1>9 DEF OutInv, Grown
<1> QED
  BY <1>2, <1>6, <1>10

LEMMA ResetLengths ==
  ASSUME TransferInv, NEW s \in Streams, R!Reset(s)
  PROVE  RP!MapInv' /\ LengthInv' /\ OutInv'
<1>1. RP!Reset(s)
  BY Zenon DEF R!Reset, RP!Reset, R!NoMessage, RP!NoMessage
<1>2. RP!MapInv'
  BY <1>1, ReassemblyAssumptions, RP!ResetMapInv DEF TransferInv
<1>3. /\ DOMAIN partials' \subseteq DOMAIN partials
      /\ \A k \in DOMAIN partials' : partials'[k] = partials[k]
  BY <1>1 DEF RP!Reset
<1>4. LengthInv'
  BY <1>3 DEF TransferInv, LengthInv
<1>5. OutInv'
  BY DEF OutInv, R!Reset
<1> QED
  BY <1>2, <1>4, <1>5

LEMMA InitTransferInv == Init => TransferInv
<1> SUFFICES ASSUME Init PROVE TransferInv
  OBVIOUS
<1>1. RP!MapInv
  BY SameInit, ReassemblyAssumptions, RP!InitMapInv DEF Init
<1>2. QP!DeliveryInv
  <2>1. QP!Init
    BY Zenon DEF Init, Q!Init, QP!Init, Q!MsgIds, QP!MsgIds
  <2> QED
    BY <2>1, QueueAssumptions, QP!InitDeliveryInv
<1>3. LengthInv /\ OutInv
  <2>1. DOMAIN partials = {} /\ out = R!NoMessage
    BY DEF Init, R!Init
  <2> QED
    BY <2>1 DEF LengthInv, OutInv
<1>4. table \in [Streams -> T!Rolling]
  <2>1. PICK no \in BOOLEAN : no = FALSE
    OBVIOUS
  <2>2. PICK r : r = Record(0, 0, 0, 0, 0, no)
    OBVIOUS
  <2>3. 0 \in T!Seqs
    BY StreamTransferAssumption DEF T!Seqs
  <2>4. r \in T!Rolling
    BY <2>2, <2>3, RecordType DEF Fields
  <2>5. table = [s \in Streams |-> r]
    BY <2>1, <2>2, Zenon DEF Init, T!InitTable, Record
  <2> QED
    BY <2>4, <2>5
<1>5. truth \in [Streams -> Truth]
  <2>1. PICK t : t = [jumps |-> 0, repeats |-> 0, fresh |-> TRUE]
    OBVIOUS
  <2>2. t \in Truth
    BY <2>1 DEF Truth
  <2>3. truth = [s \in Streams |-> t]
    BY <2>1 DEF Init
  <2> QED
    BY <2>2, <2>3
<1>6. /\ next_msg \in [Streams -> Nat] /\ \A s \in Streams : next_msg[s] <= Messages[s]
      /\ next_seq \in [Streams -> Nat] /\ resets_sent \in [Streams -> Nat]
      /\ chan \in Seq(WireFrames)
      /\ drops \in Nat /\ dups \in Nat /\ swaps \in Nat
      /\ emitted \in SUBSET (Streams \X MsgRange)
  BY StreamTransferAssumption DEF Init
<1>7. first \in [Streams -> Numbers] /\ last \in [Streams -> Numbers]
  BY DEF Init, Numbers
<1> QED
  BY <1>1, <1>2, <1>3, <1>4, <1>5, <1>6, <1>7 DEF TransferInv, TransferType

LEMMA DecoderStays ==
  ASSUME TransferInv, UNCHANGED decoder
  PROVE  RP!MapInv' /\ QP!DeliveryInv' /\ LengthInv' /\ OutInv'
<1>1. UNCHANGED << table, partials, out, queue >>
  BY DEF decoder
<1>2. RP!MapInv' /\ QP!DeliveryInv'
  BY <1>1, QueueStays, MapStays DEF TransferInv
<1>3. UNCHANGED << partials, out >>
  BY <1>1
<1> QED
  BY <1>2, <1>3 DEF TransferInv, LengthInv, OutInv

LEMMA DecodeTransferInv ==
  ASSUME TransferInv, Decode
  PROVE  TransferInv'
<1>1. TransferType'
  BY DecodeType DEF TransferInv
<1>2. PICK f : /\ f = Head(chan) /\ Arrived(f)
               /\ \/ f.type = "RESET" /\ R!Reset(Head(chan).stream_id) /\ UNCHANGED queue
                  \/ f.type = "DATA" /\ R!Fill(f) /\ UNCHANGED queue
                  \/ f.type = "DATA" /\ R!Emit(f) /\ Q!offer(f.stream_id, f.msg_id)
  BY CountForm DEF TransferInv
<1>3. f.stream_id \in Streams /\ (f.type = "DATA" => f \in DataFrames /\ f.msg_id \in MsgRange)
  BY <1>2, WireFields DEF Arrived, WellCut
<1>4. CASE f.type = "RESET" /\ R!Reset(Head(chan).stream_id) /\ UNCHANGED queue
  <2>1. PICK s \in Streams : s = Head(chan).stream_id
    BY <1>2, <1>3
  <2>2. R!Reset(s)
    BY <1>4, <2>1 DEF R!Reset
  <2> QED
    BY <1>1, <1>4, <2>2, ResetLengths, QueueStays DEF TransferInv
<1>5. CASE f.type = "DATA" /\ R!Fill(f) /\ UNCHANGED queue
  BY <1>1, <1>3, <1>5, FillLengths, QueueStays DEF TransferInv
<1>6. CASE f.type = "DATA" /\ R!Emit(f) /\ Q!offer(f.stream_id, f.msg_id)
  <2>1. QP!DeliveryInv'
    <3>1. PICK s \in Streams, m \in MsgRange : s = f.stream_id /\ m = f.msg_id
      BY <1>3, <1>6
    <3>2. Q!offer(s, m)
      BY <1>6, <3>1
    <3> QED
      BY <3>2, OfferDelivery DEF TransferInv
  <2> QED
    BY <1>1, <1>3, <1>6, <2>1, EmitLengths DEF TransferInv
<1> QED
  BY <1>2, <1>4, <1>5, <1>6

LEMMA StepTransferInv == TransferInv /\ [Next]_vars => TransferInv'
<1> SUFFICES ASSUME TransferInv, [Next]_vars PROVE TransferInv'
  OBVIOUS
<1>1. ASSUME NEW s \in Streams, SendMessage(s) \/ SendReset(s) PROVE TransferInv'
  <2>1. TransferType'
    BY <1>1, SendType DEF TransferInv
  <2>2. UNCHANGED decoder
    BY <1>1 DEF SendMessage, SendReset
  <2> QED
    BY <2>1, <2>2, DecoderStays DEF TransferInv
<1>2. CASE Fault
  <2>1. TransferType' /\ UNCHANGED decoder
    BY <1>2, FaultType, FaultForms DEF TransferInv
  <2> QED
    BY <2>1, DecoderStays DEF TransferInv
<1>3. CASE UNCHANGED vars
  <2>1. UNCHANGED decoder /\ UNCHANGED sender /\ UNCHANGED transport
    BY <1>3 DEF vars
  <2>2. TransferType'
    BY <2>1 DEF TransferInv, TransferType, decoder, sender, transport
  <2> QED
    BY <2>1, <2>2, DecoderStays DEF TransferInv
<1> QED
  BY <1>1, <1>2, <1>3, DecodeTransferInv DEF Next, Send

LEMMA TransferInvariant == Spec => []TransferInv
  BY InitTransferInv, StepTransferInv, PTL DEF Spec

(* Whatever the transport loses, repeats or reorders and wherever RESETs   *)
(* fall, each message comes to the application with the payload that       *)
(* encode_message was given (accept_data, is_complete), and at most once   *)
(* (DeliveryQueue::offer).                                                 *)
THEOREM DeliveryIntactAlways == Spec => []DeliveryIntact
<1>1. TransferInv => DeliveryIntact
  <2> SUFFICES ASSUME TransferInv PROVE DeliveryIntact
    OBVIOUS
  <2>1. R!EmittedWhole
    BY SameWhole DEF TransferInv, RP!MapInv
  <2>2. Q!AtMostOnce
    BY Zenon DEF TransferInv, QP!DeliveryInv, QP!AtMostOnce, Q!AtMostOnce, QP!MsgIds, Q!MsgIds
  <2> QED
    BY <2>1, <2>2 DEF TransferInv, OutInv, DeliveryIntact, PayloadIntact, DeliveredOnce
<1> QED
  BY <1>1, TransferInvariant, PTL

(* The statistics, the queue's cursors and buffers and the ids of what      *)
(* decode() emits stay in their ranges.                                    *)
THEOREM TransferTypeCorrect == Spec => []TypeOK
<1>1. TransferInv => TypeOK
  <2> SUFFICES ASSUME TransferInv PROVE TypeOK
    OBVIOUS
  <2>1. order \in [Streams -> Q!StreamOrder]
    BY DEF TransferInv, QP!DeliveryInv, QP!QueueInv, QP!TypeOK, QP!StreamOrder,
           Q!StreamOrder, QP!MsgIds, Q!MsgIds
  <2>2. next_msg \in [Streams -> 0 .. IdMod]
    BY StreamTransferAssumption DEF TransferInv, TransferType
  <2> QED
    BY <2>1, <2>2 DEF TypeOK, TransferInv, TransferType
<1> QED
  BY <1>1, TransferInvariant, PTL

-----------------------------------------------------------------------------
(***************************************************************************)
(* The frames of one stream, from the last to arrive (place 0) over those  *)
(* under way (places 1 to n, in chan) to the next to be sent (place        *)
(* n + 1).  `on' is the set of the places that hold a frame of the stream, *)
(* c ranks them and v has their numbers.  After K faults the numbers are   *)
(* within K of what the ranks say, or K + 1 if they fall.                  *)
(***************************************************************************)
Close(d, e, K) == d - 1 - K <= e /\ e <= d + K

Ranked(n, on, c) ==
  /\ c[0] = 0 /\ n + 1 \in on
  /\ \A j \in 1 .. (n + 1) : c[j] = c[j - 1] + (IF j \in on THEN 1 ELSE 0)

Line(n, on, c, v, K) ==
  /\ on \in SUBSET (0 .. (n + 1))
  /\ c \in [0 .. (n + 1) -> Int] /\ v \in [0 .. (n + 1) -> Int]
  /\ Ranked(n, on, c)
  /\ \A i, j \in on : i < j => Close(c[j] - c[i], v[j] - v[i], K)

(* Place i is taken out.                                                   *)
Past(i, j) == IF j < i THEN j ELSE j + 1

Taken(n, i, on, v, o, u) ==
  \A j \in 0 .. n : (j \in o <=> Past(i, j) \in on) /\ u[j] = v[Past(i, j)]

LEMMA LineDrop ==
  ASSUME NEW n \in Nat, NEW on, NEW c, NEW v, NEW K \in Nat, Line(n, on, c, v, K),
         NEW i \in 1 .. n, NEW L \in {K, K + 1}, i \in on => L = K + 1
  PROVE  \E o, d, u :
           /\ Line(n - 1, o, d, u, L)
           /\ Taken(n, i, on, v, o, u)
<1> DEFINE g(j) == IF j < i THEN j ELSE j + 1
           b == IF i \in on THEN 1 ELSE 0
           o == {j \in 0 .. n : g(j) \in on}
           d == [j \in 0 .. n |-> IF j < i THEN c[j] ELSE c[j + 1] - b]
           u == [j \in 0 .. n |-> v[g(j)]]
<1>1. b \in {0, 1} /\ L >= K + b
  OBVIOUS
<1>2. /\ on \in SUBSET (0 .. (n + 1)) /\ Ranked(n, on, c)
      /\ c \in [0 .. (n + 1) -> Int] /\ v \in [0 .. (n + 1) -> Int]
      /\ \A p, q \in on : p < q => Close(c[q] - c[p], v[q] - v[p], K)
  BY DEF Line
<1>3. \A j \in 0 .. n : g(j) \in 0 .. (n + 1)
  OBVIOUS
<1>4. \A j \in 0 .. (n + 1) : c[j] \in Int /\ v[j] \in Int
  BY <1>2
<1>5. d \in [0 .. n -> Int] /\ u \in [0 .. n -> Int]
  <2>1. ASSUME NEW j \in 0 .. n
        PROVE  (IF j < i THEN c[j] ELSE c[j + 1] - b) \in Int /\ v[g(j)] \in Int
    <3>1. j \in 0 .. (n + 1) /\ j + 1 \in 0 .. (n + 1)
      OBVIOUS
    <3> QED
      BY <3>1, <1>1, <1>3, <1>4
  <2> QED
    BY <2>1
<1>6. \A j \in 1 .. (n + 1) : c[j] = c[j - 1] + (IF j \in on THEN 1 ELSE 0)
  BY <1>2 DEF Ranked
<1>7. ASSUME NEW j \in 1 .. n
      PROVE  d[j] = d[j - 1] + (IF j \in o THEN 1 ELSE 0)
  <2>1. CASE j < i
    BY <2>1, <1>6
  <2>2. CASE j = i
    <3>1. c[i] = c[i - 1] + b /\ c[i + 1] = c[i] + (IF i + 1 \in on THEN 1 ELSE 0)
          /\ i - 1 \in 0 .. (n + 1) /\ i + 1 \in 0 .. (n + 1)
      BY <1>6
    <3> QED
      BY <2>2, <3>1, <1>4
  <2>3. CASE j > i
    <3>1. c[j + 1] = c[j] + (IF j + 1 \in on THEN 1 ELSE 0)
          /\ j \in 0 .. (n + 1) /\ j + 1 \in 0 .. (n + 1)
      BY <1>6
    <3> QED
      BY <2>3, <3>1, <1>4, <1>1
  <2> QED
    BY <2>1, <2>2, <2>3
<1>8. d[0] = 0 /\ n \in o
  BY <1>2 DEF Ranked
<1>9. ASSUME NEW p \in o, NEW q \in o, p < q
      PROVE  Close(d[q] - d[p], u[q] - u[p], L)
  <2>1. PICK a, e : a = g(p) /\ e = g(q)
    OBVIOUS
  <2>2. a \in on /\ e \in on /\ a < e /\ u[p] = v[a] /\ u[q] = v[e]
    BY <2>1, <1>9
  <2>3. PICK x \in Int, y \in Int, w \in Int, z \in Int :
           x = c[a] /\ y = c[e] /\ w = v[a] /\ z = v[e]
    BY <2>2, <1>2
  <2>4. Close(y - x, z - w, K)
    BY <2>2, <2>3, <1>2
  <2>5. PICK h \in {0, 1} : h <= b /\ d[q] - d[p] = (y - x) - h
    <3>1. d[p] \in {x, x - b} /\ d[q] \in {y, y - b} /\ (d[p] = x - b => d[q] = y - b)
      BY <2>1, <2>3, <1>9, <1>1
    <3> QED
      BY <3>1, <1>1
  <2>6. PICK f \in Int : f = d[q] - d[p] /\ f = (y - x) - h
    BY <2>5
  <2>7. u[q] - u[p] = z - w
    BY <2>2, <2>3
  <2> HIDE DEF b
  <2>8. Close(f, z - w, L)
    BY <2>4, <2>5, <2>6, <1>1 DEF Close
  <2> QED
    BY <2>6, <2>7, <2>8, Zenon
<1>10. Line(n - 1, o, d, u, L)
  <2>1. (n - 1) + 1 = n
    OBVIOUS
  <2>2. Ranked(n - 1, o, d)
    BY <2>1, <1>7, <1>8 DEF Ranked
  <2> HIDE DEF d, u, o
  <2>3. o \in SUBSET (0 .. n)
    BY DEF o
  <2> QED
    BY <2>1, <2>2, <2>3, <1>5, <1>9 DEF Line
<1>11. Taken(n, i, on, v, o, u)
  BY DEF Past, Taken
<1> HIDE DEF o, d, u
<1> QED
  BY <1>10, <1>11, Zenon

(* The frame in place 1 arrives.                                           *)
LEMMA LineArrive ==
  ASSUME NEW n \in Nat \ {0}, NEW on, NEW c, NEW v, NEW K \in Nat, Line(n, on, c, v, K),
         1 \in on
  PROVE  \E o, d, u :
           /\ Line(n - 1, o, d, u, K)
           /\ \A j \in 0 .. n : (j \in o <=> j + 1 \in on) /\ u[j] = v[j + 1]
<1> DEFINE o == {j \in 0 .. n : j + 1 \in on}
           d == [j \in 0 .. n |-> c[j + 1] - 1]
           u == [j \in 0 .. n |-> v[j + 1]]
<1>1. /\ on \in SUBSET (0 .. (n + 1)) /\ Ranked(n, on, c)
      /\ c \in [0 .. (n + 1) -> Int] /\ v \in [0 .. (n + 1) -> Int]
      /\ \A p, q \in on : p < q => Close(c[q] - c[p], v[q] - v[p], K)
  BY DEF Line
<1>2. \A j \in 0 .. n : c[j + 1] \in Int /\ v[j + 1] \in Int
  BY <1>1
<1>3. d \in [0 .. n -> Int] /\ u \in [0 .. n -> Int]
  BY <1>2
<1>4. \A j \in 1 .. (n + 1) : c[j] = c[j - 1] + (IF j \in on THEN 1 ELSE 0)
  BY <1>1 DEF Ranked
<1>5. ASSUME NEW j \in 1 .. n
      PROVE  d[j] = d[j - 1] + (IF j \in o THEN 1 ELSE 0)
  <2>1. j \in 0 .. n /\ j - 1 \in 0 .. n /\ j + 1 \in 1 .. (n + 1) /\ (j - 1) + 1 = j /\ (j + 1) - 1 = j
    OBVIOUS
  <2>2. c[j + 1] = c[j] + (IF j + 1 \in on THEN 1 ELSE 0)
    BY <1>4, <2>1
  <2>3. d[j] = c[j + 1] - 1 /\ d[j - 1] = c[j] - 1 /\ (j \in o <=> j + 1 \in on)
    BY <2>1
  <2>4. c[j] \in Int
    BY <1>2, <2>1
  <2> HIDE DEF d, o
  <2> QED
    BY <2>2, <2>3, <2>4
<1>6. d[0] = 0 /\ n \in o
  <2>1. c[1] = c[0] + 1 /\ c[0] = 0 /\ n + 1 \in on
    BY <1>1, <1>4 DEF Ranked
  <2> QED
    BY <2>1
<1>7. ASSUME NEW p \in o, NEW q \in o, p < q
      PROVE  Close(d[q] - d[p], u[q] - u[p], K)
  <2>1. /\ p + 1 \in on /\ q + 1 \in on /\ p + 1 < q + 1
        /\ c[p + 1] \in Int /\ c[q + 1] \in Int
    BY <1>7, <1>2
  <2>2. Close(c[q + 1] - c[p + 1], v[q + 1] - v[p + 1], K)
    BY <2>1, <1>1
  <2>3. d[q] - d[p] = c[q + 1] - c[p + 1] /\ u[q] - u[p] = v[q + 1] - v[p + 1]
    BY <2>1
  <2> QED
    BY <2>2, <2>3
<1>8. Line(n - 1, o, d, u, K)
  <2>1. (n - 1) + 1 = n
    OBVIOUS
  <2>2. Ranked(n - 1, o, d)
    BY <2>1, <1>5, <1>6 DEF Ranked
  <2> HIDE DEF d, u, o
  <2>3. o \in SUBSET (0 .. n)
    BY DEF o
  <2> QED
    BY <2>1, <2>2, <2>3, <1>3, <1>7 DEF Line
<1>9. \A j \in 0 .. n : (j \in o <=> j + 1 \in on) /\ u[j] = v[j + 1]
  OBVIOUS
<1> QED
  BY <1>8, <1>9, Zenon

(* Place i is doubled.                                                     *)
Again(i, j) == IF j <= i THEN j ELSE j - 1

Doubled(n, i, on, v, o, u) ==
  \A j \in 0 .. (n + 2) : (j \in o <=> Again(i, j) \in on) /\ u[j] = v[Again(i, j)]

LEMMA LineRepeat ==
  ASSUME NEW n \in Nat, NEW on, NEW c, NEW v, NEW K \in Nat, Line(n, on, c, v, K),
         NEW i \in 1 .. n
  PROVE  \E o, d, u :
           /\ Line(n + 1, o, d, u, K + 1)
           /\ Doubled(n, i, on, v, o, u)
<1> DEFINE g(j) == IF j <= i THEN j ELSE j - 1
           b == IF i \in on THEN 1 ELSE 0
           o == {j \in 0 .. (n + 2) : g(j) \in on}
           d == [j \in 0 .. (n + 2) |-> IF j <= i THEN c[j] ELSE c[j - 1] + b]
           u == [j \in 0 .. (n + 2) |-> v[g(j)]]
<1>1. b \in {0, 1}
  OBVIOUS
<1>2. /\ on \in SUBSET (0 .. (n + 1)) /\ Ranked(n, on, c)
      /\ c \in [0 .. (n + 1) -> Int] /\ v \in [0 .. (n + 1) -> Int]
      /\ \A p, q \in on : p < q => Close(c[q] - c[p], v[q] - v[p], K)
  BY DEF Line
<1>3. \A j \in 0 .. (n + 2) : g(j) \in 0 .. (n + 1)
  OBVIOUS
<1>4. \A j \in 0 .. (n + 1) : c[j] \in Int /\ v[j] \in Int
  BY <1>2
<1>5. d \in [0 .. (n + 2) -> Int] /\ u \in [0 .. (n + 2) -> Int]
  <2>1. ASSUME NEW j \in 0 .. (n + 2)
        PROVE  (IF j <= i THEN c[j] ELSE c[j - 1] + b) \in Int /\ v[g(j)] \in Int
    <3>1. (j <= i => j \in 0 .. (n + 1)) /\ (j > i => j - 1 \in 0 .. (n + 1))
      OBVIOUS
    <3> QED
      BY <3>1, <1>1, <1>3, <1>4
  <2> QED
    BY <2>1
<1>6. \A j \in 1 .. (n + 1) : c[j] = c[j - 1] + (IF j \in on THEN 1 ELSE 0)
  BY <1>2 DEF Ranked
<1>7. ASSUME NEW j \in 1 .. (n + 2)
      PROVE  d[j] = d[j - 1] + (IF j \in o THEN 1 ELSE 0)
  <2>1. CASE j <= i
    BY <2>1, <1>6
  <2>2. CASE j = i + 1
    <3>1. d[j] = c[i] + b /\ d[j - 1] = c[i] /\ (j \in o <=> i \in on)
      BY <2>2
    <3> QED
      BY <3>1, <1>4
  <2>3. CASE j > i + 1
    <3>1. c[j - 1] = c[(j - 1) - 1] + (IF j - 1 \in on THEN 1 ELSE 0)
          /\ j - 1 \in 0 .. (n + 1) /\ (j - 1) - 1 \in 0 .. (n + 1)
      BY <1>6, <2>3
    <3>2. c[j - 1] \in Int /\ c[(j - 1) - 1] \in Int
      BY <3>1, <1>4
    <3>3. d[j] = c[j - 1] + b /\ d[j - 1] = c[(j - 1) - 1] + b /\ (j \in o <=> j - 1 \in on)
      BY <2>3
    <3> HIDE DEF d, o, b
    <3> QED
      BY <3>1, <3>2, <3>3, <1>1
  <2> QED
    BY <2>1, <2>2, <2>3
<1>8. d[0] = 0 /\ n + 2 \in o
  BY <1>2 DEF Ranked
<1>9. ASSUME NEW p \in o, NEW q \in o, p < q
      PROVE  Close(d[q] - d[p], u[q] - u[p], K + 1)
  <2>1. PICK a, e : a = g(p) /\ e = g(q)
    OBVIOUS
  <2>2. a \in on /\ e \in on /\ u[p] = v[a] /\ u[q] = v[e]
        /\ (a < e \/ (p = i /\ q = i + 1 /\ a = i /\ e = i))
    BY <2>1, <1>9
  <2>3. PICK x \in Int, y \in Int, w \in Int, z \in Int :
           x = c[a] /\ y = c[e] /\ w = v[a] /\ z = v[e]
    BY <2>2, <1>2
  <2>4. a < e => Close(y - x, z - w, K)
    BY <2>2, <2>3, <1>2
  <2>5. PICK h \in {0, 1} : d[q] - d[p] = (y - x) + h /\ (a = e => h = 1)
    <3>1. d[p] \in {x, x + b} /\ d[q] \in {y, y + b} /\ (d[p] = x + b => d[q] = y + b)
      BY <2>1, <2>3, <1>9, <1>1
    <3>2. a = e => d[p] = x /\ d[q] = y + 1
      BY <2>1, <2>2, <2>3, <1>9
    <3> QED
      BY <3>1, <3>2, <1>1
  <2>6. PICK f \in Int : f = d[q] - d[p] /\ f = (y - x) + h
    BY <2>5
  <2>7. u[q] - u[p] = z - w
    BY <2>2, <2>3
  <2> HIDE DEF b, g, o, d, u
  <2>8. Close(f, z - w, K + 1)
    <3>1. CASE a < e
      BY <2>4, <2>6, <3>1 DEF Close
    <3>2. CASE a = e
      <4>1. f = 1 /\ z - w = 0
        BY <2>3, <2>5, <2>6, <3>2
      <4> QED
        BY <4>1 DEF Close
    <3> QED
      BY <2>2, <3>1, <3>2
  <2> QED
    BY <2>6, <2>7, <2>8, Zenon
<1>10. Line(n + 1, o, d, u, K + 1)
  <2>1. (n + 1) + 1 = n + 2
    OBVIOUS
  <2>2. Ranked(n + 1, o, d)
    BY <2>1, <1>7, <1>8 DEF Ranked
  <2> HIDE DEF d, u, o
  <2>3. o \in SUBSET (0 .. (n + 2))
    BY DEF o
  <2> QED
    BY <2>1, <2>2, <2>3, <1>5, <1>9 DEF Line
<1>11. Doubled(n, i, on, v, o, u)
  BY DEF Again, Doubled
<1> HIDE DEF o, d, u
<1> QED
  BY <1>10, <1>11, Zenon

(* Places i and i + 1 change places.                                       *)
Traded(i, j) == IF j = i THEN i + 1 ELSE IF j = i + 1 THEN i ELSE j

Exchanged(n, i, on, v, o, u) ==
  \A j \in 0 .. (n + 1) : (j \in o <=> Traded(i, j) \in on) /\ u[j] = v[Traded(i, j)]

LEMMA LineSwap ==
  ASSUME NEW n \in Nat, NEW on, NEW c, NEW v, NEW K \in Nat, Line(n, on, c, v, K),
         NEW i \in 1 .. n, i < n
  PROVE  \E o, d, u :
           /\ Line(n, o, d, u, K + 1)
           /\ Exchanged(n, i, on, v, o, u)
<1> DEFINE g(j) == IF j = i THEN i + 1 ELSE IF j = i + 1 THEN i ELSE j
           b == IF i \in on THEN 1 ELSE 0
           h == IF i + 1 \in on THEN 1 ELSE 0
           o == {j \in 0 .. (n + 1) : g(j) \in on}
           d == [j \in 0 .. (n + 1) |-> IF j = i THEN c[i - 1] + h ELSE c[j]]
           u == [j \in 0 .. (n + 1) |-> v[g(j)]]
<1>1. b \in {0, 1} /\ h \in {0, 1}
  OBVIOUS
<1>2. /\ on \in SUBSET (0 .. (n + 1)) /\ Ranked(n, on, c)
      /\ c \in [0 .. (n + 1) -> Int] /\ v \in [0 .. (n + 1) -> Int]
      /\ \A p, q \in on : p < q => Close(c[q] - c[p], v[q] - v[p], K)
  BY DEF Line
<1>3. \A j \in 0 .. (n + 1) : g(j) \in 0 .. (n + 1)
  OBVIOUS
<1>4. \A j \in 0 .. (n + 1) : c[j] \in Int /\ v[j] \in Int
  BY <1>2
<1>5. d \in [0 .. (n + 1) -> Int] /\ u \in [0 .. (n + 1) -> Int]
  <2>1. i - 1 \in 0 .. (n + 1)
    OBVIOUS
  <2>2. c[i - 1] + h \in Int
    BY <2>1, <1>1, <1>4
  <2>3. d \in [0 .. (n + 1) -> Int]
    BY <2>2, <1>4
  <2>4. u \in [0 .. (n + 1) -> Int]
    BY <1>3, <1>4
  <2> QED
    BY <2>3, <2>4
<1>6. \A j \in 1 .. (n + 1) : c[j] = c[j - 1] + (IF j \in on THEN 1 ELSE 0)
  BY <1>2 DEF Ranked
<1>7. /\ c[i] = c[i - 1] + b /\ c[i + 1] = c[i] + h
      /\ c[i - 1] \in Int /\ c[i] \in Int /\ c[i + 1] \in Int
  <2>1. i - 1 \in 0 .. (n + 1) /\ i \in 0 .. (n + 1) /\ i + 1 \in 0 .. (n + 1)
        /\ i \in 1 .. (n + 1) /\ i + 1 \in 1 .. (n + 1) /\ (i + 1) - 1 = i
    OBVIOUS
  <2>2. c[i] = c[i - 1] + b /\ c[i + 1] = c[i] + h
    BY <2>1, <1>6
  <2> QED
    BY <2>1, <2>2, <1>4
<1>8. ASSUME NEW j \in 1 .. (n + 1)
      PROVE  d[j] = d[j - 1] + (IF j \in o THEN 1 ELSE 0)
  <2>1. CASE j = i
    <3>1. d[j] = c[i - 1] + h /\ d[j - 1] = c[i - 1] /\ (j \in o <=> i + 1 \in on)
      BY <2>1
    <3> QED
      BY <3>1
  <2>2. CASE j = i + 1
    <3>1. d[j] = c[i + 1] /\ d[j - 1] = c[i - 1] + h /\ (j \in o <=> i \in on)
      BY <2>2
    <3>2. (IF j \in o THEN 1 ELSE 0) = b
      BY <3>1
    <3> HIDE DEF d, o, b, h
    <3> QED
      BY <3>1, <3>2, <1>1, <1>7
  <2>3. CASE j # i /\ j # i + 1
    <3>1. d[j] = c[j] /\ d[j - 1] = c[j - 1] /\ (j \in o <=> j \in on)
      BY <2>3
    <3> QED
      BY <3>1, <1>6
  <2> QED
    BY <2>1, <2>2, <2>3
<1>9. d[0] = 0 /\ n + 1 \in o
  BY <1>2 DEF Ranked
<1>10. ASSUME NEW p \in o, NEW q \in o, p < q
       PROVE  Close(d[q] - d[p], u[q] - u[p], K + 1)
  <2>1. PICK a, e : a = g(p) /\ e = g(q)
    OBVIOUS
  <2>2. /\ a \in on /\ e \in on /\ u[p] = v[a] /\ u[q] = v[e]
        /\ a < e \/ (p = i /\ q = i + 1 /\ a = i + 1 /\ e = i)
    BY <2>1, <1>10
  <2>3. PICK x \in Int, y \in Int, w \in Int, z \in Int :
           x = c[a] /\ y = c[e] /\ w = v[a] /\ z = v[e]
    BY <2>2, <1>2
  <2>4. u[q] - u[p] = z - w
    BY <2>2, <2>3
  <2>5. CASE a < e
    <3>1. Close(y - x, z - w, K)
      BY <2>2, <2>3, <2>5, <1>2
    <3>2. /\ p = i => h = 1 /\ x = c[i + 1] /\ d[p] = c[i - 1] + h
          /\ p = i + 1 => x = c[i] /\ d[p] = c[i + 1]
          /\ p \notin {i, i + 1} => d[p] = x
      BY <2>1, <2>2, <2>3
    <3>3. /\ q = i => h = 1 /\ y = c[i + 1] /\ d[q] = c[i - 1] + h
          /\ q = i + 1 => y = c[i] /\ d[q] = c[i + 1]
          /\ q \notin {i, i + 1} => d[q] = y
      BY <2>1, <2>2, <2>3
    <3>4. ~(p = i /\ q = i + 1)
      BY <2>1, <2>5
    <3> HIDE DEF d, o, b, h, g, u
    <3>5. PICK r \in {-1, 0, 1}, f \in Int : f = d[q] - d[p] /\ f = (y - x) + r
      <4>1. d[p] \in {x - 1, x, x + 1} /\ (p \notin {i, i + 1} => d[p] = x)
        BY <3>2, <1>1, <1>7
      <4>2. d[q] \in {y - 1, y, y + 1} /\ (q \notin {i, i + 1} => d[q] = y)
        BY <3>3, <1>1, <1>7
      <4>3. p \notin {i, i + 1} \/ q \notin {i, i + 1}
        <5>1. p \in 0 .. (n + 1) /\ q \in 0 .. (n + 1)
          BY <1>10 DEF o
        <5> QED
          BY <5>1, <3>4, <1>10
      <4> QED
        BY <4>1, <4>2, <4>3
    <3>6. Close(f, z - w, K + 1)
      BY <3>1, <3>5 DEF Close
    <3> QED
      BY <2>4, <3>5, <3>6, Zenon
  <2>6. CASE p = i /\ q = i + 1 /\ a = i + 1 /\ e = i
    <3>1. Close(x - y, w - z, K)
      <4>1. e < a
        BY <2>6
      <4> QED
        BY <4>1, <2>2, <2>3, <1>2
    <3>2. b = 1 /\ h = 1 /\ d[p] = c[i - 1] + h /\ d[q] = c[i + 1]
      BY <2>2, <2>6
    <3> HIDE DEF d, o, b, h, g, u
    <3>3. x - y = 1 /\ d[q] - d[p] = 1
      BY <3>2, <2>3, <2>6, <1>7
    <3>4. Close(1, z - w, K + 1)
      BY <3>1, <3>3, <2>3 DEF Close
    <3> QED
      BY <2>4, <3>3, <3>4, Zenon
  <2> QED
    BY <2>2, <2>5, <2>6
<1>11. Line(n, o, d, u, K + 1)
  <2>1. Ranked(n, o, d)
    BY <1>8, <1>9 DEF Ranked
  <2> HIDE DEF d, u, o
  <2>2. o \in SUBSET (0 .. (n + 1))
    BY DEF o
  <2> QED
    BY <2>1, <2>2, <1>5, <1>10 DEF Line
<1>12. Exchanged(n, i, on, v, o, u)
  BY DEF Traded, Exchanged
<1> HIDE DEF o, d, u
<1> QED
  BY <1>11, <1>12, Zenon

(* The stream sends m frames, numbered on.                                 *)
LEMMA LineOwn ==
  ASSUME NEW n \in Nat, NEW on, NEW c, NEW v, NEW K \in Nat, Line(n, on, c, v, K),
         NEW m \in Nat
  PROVE  \E o, d, u :
           /\ Line(n + m, o, d, u, K)
           /\ \A j \in 0 .. n : (j \in o <=> j \in on) /\ u[j] = v[j]
           /\ \A j \in (n + 1) .. ((n + m) + 1) : j \in o /\ u[j] = v[n + 1] + (j - (n + 1))
<1> DEFINE N == (n + m) + 1
           M == n + 1
           o == on \cup (M .. N)
           d == [j \in 0 .. N |-> IF j <= M THEN c[j] ELSE c[M] + (j - M)]
           u == [j \in 0 .. N |-> IF j <= M THEN v[j] ELSE v[M] + (j - M)]
<1>1. /\ on \in SUBSET (0 .. M) /\ Ranked(n, on, c) /\ M \in on
      /\ c \in [0 .. M -> Int] /\ v \in [0 .. M -> Int]
      /\ \A p, q \in on : p < q => Close(c[q] - c[p], v[q] - v[p], K)
  BY DEF Line, Ranked
<1>2. \A j \in 1 .. M : c[j] = c[j - 1] + (IF j \in on THEN 1 ELSE 0)
  BY <1>1 DEF Ranked
<1>3. M \in Nat /\ N \in Nat /\ M <= N /\ M > 0 /\ M = n + 1 /\ N = (n + m) + 1
  OBVIOUS
<1> HIDE DEF M, N
<1>4. \A j \in 0 .. M : c[j] \in Int /\ v[j] \in Int
  BY <1>1
<1>5. d \in [0 .. N -> Int] /\ u \in [0 .. N -> Int]
  <2>1. ASSUME NEW j \in 0 .. N
        PROVE  /\ (IF j <= M THEN c[j] ELSE c[M] + (j - M)) \in Int
               /\ (IF j <= M THEN v[j] ELSE v[M] + (j - M)) \in Int
    <3>1. M \in 0 .. M /\ (j <= M => j \in 0 .. M) /\ j - M \in Int
      BY <1>3
    <3> QED
      BY <3>1, <1>4
  <2> QED
    BY <2>1
<1>6. ASSUME NEW j \in 1 .. N
      PROVE  d[j] = d[j - 1] + (IF j \in o THEN 1 ELSE 0)
  <2>1. CASE j <= M
    <3>1. d[j] = c[j] /\ d[j - 1] = c[j - 1] /\ (j \in o <=> j \in on)
      BY <2>1, <1>1, <1>3
    <3> QED
      BY <2>1, <3>1, <1>2
  <2>2. CASE j > M
    <3>1. c[M] \in Int /\ j - 1 \in 0 .. N /\ j \in M .. N
      BY <2>2, <1>3, <1>4
    <3>2. d[j] = c[M] + (j - M) /\ j \in o
      BY <2>2, <3>1, <1>3
    <3>3. d[j - 1] = c[M] + ((j - 1) - M)
      <4>1. CASE j - 1 = M
        BY <4>1, <3>1, <1>3
      <4>2. CASE j - 1 # M
        BY <4>2, <2>2, <3>1, <1>3
      <4> QED
        BY <4>1, <4>2
    <3> HIDE DEF d, o
    <3> QED
      BY <3>1, <3>2, <3>3, <1>3
  <2> QED
    BY <2>1, <2>2, <1>3
<1>7. d[0] = 0 /\ N \in o
  BY <1>1, <1>3 DEF Ranked
<1>8. ASSUME NEW p \in o, NEW q \in o, p < q
      PROVE  Close(d[q] - d[p], u[q] - u[p], K)
  <2>0. p \in 0 .. N /\ q \in 0 .. N
    <3>1. on \subseteq 0 .. N /\ (M .. N) \subseteq 0 .. N
      BY <1>1, <1>3
    <3> QED
      BY <3>1
  <2>1. PICK a \in on, k \in Nat : /\ d[p] = c[a] + k /\ u[p] = v[a] + k
                                   /\ a <= M /\ p = a + k /\ (k # 0 => a = M)
    <3>1. CASE p <= M
      <4>1. p \in on /\ d[p] = c[p] /\ u[p] = v[p] /\ c[p] \in Int /\ v[p] \in Int
        <5>1. p \in 0 .. M
          BY <2>0, <3>1, <1>1, <1>3
        <5>2. c[p] \in Int /\ v[p] \in Int
          BY <5>1, <1>1
        <5>3. d[p] = c[p] /\ u[p] = v[p]
          BY <2>0, <3>1
        <5>4. p \in on
          BY <3>1, <5>1, <1>1, <1>3, <1>4
        <5> QED
          BY <5>2, <5>3, <5>4
      <4>2. d[p] = c[p] + 0 /\ u[p] = v[p] + 0 /\ p = p + 0
        BY <2>0, <4>1
      <4> QED
        BY <3>1, <4>1, <4>2
    <3>2. CASE ~(p <= M)
      <4>1. p - M \in Nat /\ p - M # 0 /\ p = M + (p - M)
            /\ d[p] = c[M] + (p - M) /\ u[p] = v[M] + (p - M)
        BY <2>0, <3>2, <1>1, <1>3
      <4>2. PICK i \in Nat : i = p - M
        BY <4>1
      <4>3. M \in on /\ M <= M
        BY <1>1, <1>3
      <4> HIDE DEF d, u, o
      <4> QED
        BY <4>1, <4>2, <4>3
    <3> QED
      BY <3>1, <3>2
  <2>2. PICK e \in on, l \in Nat : /\ d[q] = c[e] + l /\ u[q] = v[e] + l
                                   /\ e <= M /\ q = e + l /\ (l # 0 => e = M)
    <3>1. CASE q <= M
      <4>1. q \in on /\ d[q] = c[q] /\ u[q] = v[q] /\ c[q] \in Int /\ v[q] \in Int
        <5>1. q \in 0 .. M
          BY <2>0, <3>1, <1>1, <1>3
        <5>2. c[q] \in Int /\ v[q] \in Int
          BY <5>1, <1>1
        <5>3. d[q] = c[q] /\ u[q] = v[q]
          BY <2>0, <3>1
        <5>4. q \in on
          BY <3>1, <5>1, <1>1, <1>3, <1>4
        <5> QED
          BY <5>2, <5>3, <5>4
      <4>2. d[q] = c[q] + 0 /\ u[q] = v[q] + 0 /\ q = q + 0
        BY <2>0, <4>1
      <4> QED
        BY <3>1, <4>1, <4>2
    <3>2. CASE ~(q <= M)
      <4>1. q - M \in Nat /\ q - M # 0 /\ q = M + (q - M)
            /\ d[q] = c[M] + (q - M) /\ u[q] = v[M] + (q - M)
        BY <2>0, <3>2, <1>1, <1>3
      <4>2. PICK i \in Nat : i = q - M
        BY <4>1
      <4>3. M \in on /\ M <= M
        BY <1>1, <1>3
      <4> HIDE DEF d, u, o
      <4> QED
        BY <4>1, <4>2, <4>3
    <3> QED
      BY <3>1, <3>2
  <2> HIDE DEF d, u, o
  <2>4. PICK x \in Int, y \in Int, w \in Int, z \in Int :
           x = c[a] /\ y = c[e] /\ w = v[a] /\ z = v[e]
    BY <1>1
  <2>5. a \in 0 .. M /\ e \in 0 .. M
    BY <1>1
  <2>6. d[q] - d[p] = (y - x) + (l - k) /\ u[q] - u[p] = (z - w) + (l - k)
    <3>1. d[p] = x + k /\ u[p] = w + k /\ d[q] = y + l /\ u[q] = z + l
      BY <2>1, <2>2, <2>4
    <3> QED
      BY <3>1
  <2>7. CASE a < e
    <3>1. Close(y - x, z - w, K)
      BY <2>4, <2>7, <1>1
    <3>2. k = 0
      BY <2>1, <2>5, <2>7, <1>3
    <3>3. Close((y - x) + (l - k), (z - w) + (l - k), K)
      BY <3>1, <3>2 DEF Close
    <3> QED
      BY <2>6, <3>3, Zenon
  <2>8. CASE a = e
    <3>1. x = y /\ w = z /\ l > k
      BY <2>0, <2>1, <2>2, <2>4, <2>5, <2>8, <1>8
    <3>2. Close((y - x) + (l - k), (z - w) + (l - k), K)
      BY <3>1 DEF Close
    <3> QED
      BY <2>6, <3>2, Zenon
  <2>9. CASE a > e
    <3>1. l = 0
      BY <2>2, <2>5, <2>9, <1>3
    <3> QED
      BY <2>0, <2>1, <2>2, <2>5, <2>9, <3>1, <1>8
  <2> QED
    BY <2>5, <2>7, <2>8, <2>9
<1>9. Line(n + m, o, d, u, K)
  <2>1. Ranked(n + m, o, d)
    BY <1>3, <1>6, <1>7 DEF Ranked
  <2>2. o \in SUBSET (0 .. N)
    BY <1>1, <1>3
  <2> HIDE DEF d, u, o
  <2> QED
    BY <2>1, <2>2, <1>3, <1>5, <1>8 DEF Line
<1>10. \A j \in 0 .. n : (j \in o <=> j \in on) /\ u[j] = v[j]
  BY <1>1, <1>3
<1>11. \A j \in M .. N : j \in o /\ u[j] = v[M] + (j - M)
  <2>1. v[M] \in Int
    BY <1>3, <1>4
  <2> QED
    BY <2>1, <1>3
<1> HIDE DEF o, d, u
<1> QED
  BY <1>3, <1>9, <1>10, <1>11

(* Another stream sends m frames.                                          *)
LEMMA LineOther ==
  ASSUME NEW n \in Nat, NEW on, NEW c, NEW v, NEW K \in Nat, Line(n, on, c, v, K),
         NEW m \in Nat
  PROVE  \E o, d, u :
           /\ Line(n + m, o, d, u, K)
           /\ \A j \in 0 .. n : (j \in o <=> j \in on) /\ u[j] = v[j]
           /\ \A j \in (n + 1) .. (n + m) : j \notin o
           /\ u[(n + m) + 1] = v[n + 1]
<1> DEFINE N == (n + m) + 1
           M == n + 1
           g(j) == IF j <= n THEN j ELSE M
           o == {j \in 0 .. N : (j <= n /\ j \in on) \/ j = N}
           d == [j \in 0 .. N |-> IF j <= n THEN c[j] ELSE IF j < N THEN c[n] ELSE c[M]]
           u == [j \in 0 .. N |-> v[g(j)]]
<1>1. /\ on \in SUBSET (0 .. M) /\ Ranked(n, on, c) /\ M \in on
      /\ c \in [0 .. M -> Int] /\ v \in [0 .. M -> Int]
      /\ \A p, q \in on : p < q => Close(c[q] - c[p], v[q] - v[p], K)
  BY DEF Line, Ranked
<1>2. \A j \in 1 .. M : c[j] = c[j - 1] + (IF j \in on THEN 1 ELSE 0)
  BY <1>1 DEF Ranked
<1>3. M \in Nat /\ N \in Nat /\ M <= N /\ M > 0 /\ M = n + 1 /\ N = (n + m) + 1
  OBVIOUS
<1>4. c[M] = c[n] + 1
  BY <1>1, <1>2, <1>3
<1> HIDE DEF M, N
<1>5. \A j \in 0 .. M : c[j] \in Int /\ v[j] \in Int
  BY <1>1
<1>6. n \in 0 .. M /\ M \in 0 .. M /\ \A j \in 0 .. N : g(j) \in 0 .. M
  BY <1>3
<1>7. d \in [0 .. N -> Int] /\ u \in [0 .. N -> Int]
  <2>1. ASSUME NEW j \in 0 .. N
        PROVE  /\ (IF j <= n THEN c[j] ELSE IF j < N THEN c[n] ELSE c[M]) \in Int
               /\ v[g(j)] \in Int
    <3>1. j <= n => j \in 0 .. M
      BY <1>3
    <3> QED
      BY <3>1, <1>5, <1>6
  <2> QED
    BY <2>1
<1>8. ASSUME NEW j \in 1 .. N
      PROVE  d[j] = d[j - 1] + (IF j \in o THEN 1 ELSE 0)
  <2>1. CASE j <= n
    <3>1. d[j] = c[j] /\ d[j - 1] = c[j - 1] /\ (j \in o <=> j \in on)
      BY <2>1, <1>3
    <3> QED
      BY <2>1, <3>1, <1>2, <1>3
  <2>2. CASE j > n /\ j < N
    <3>1. d[j] = c[n] /\ d[j - 1] = c[n] /\ j \notin o
      BY <2>2, <1>3
    <3> QED
      BY <3>1, <1>5, <1>6
  <2>3. CASE j = N
    <3>1. d[j] = c[M] /\ d[j - 1] = c[n] /\ j \in o
      BY <2>3, <1>3
    <3> QED
      BY <3>1, <1>4
  <2> QED
    BY <2>1, <2>2, <2>3, <1>3
<1>9. d[0] = 0 /\ N \in o
  BY <1>1, <1>3 DEF Ranked
<1>10. ASSUME NEW p \in o, NEW q \in o, p < q
       PROVE  Close(d[q] - d[p], u[q] - u[p], K)
  <2>1. p <= n /\ p \in on /\ d[p] = c[p] /\ u[p] = v[p]
    BY <1>3, <1>10
  <2>2. g(q) \in on /\ p < g(q) /\ d[q] = c[g(q)] /\ u[q] = v[g(q)]
    BY <2>1, <1>1, <1>3, <1>10
  <2>3. PICK e : e = g(q)
    OBVIOUS
  <2> HIDE DEF d, u, o, g
  <2> QED
    BY <2>1, <2>2, <2>3, <1>1
<1>11. Line(n + m, o, d, u, K)
  <2>1. Ranked(n + m, o, d)
    BY <1>3, <1>8, <1>9 DEF Ranked
  <2> HIDE DEF d, u
  <2>2. o \in SUBSET (0 .. N)
    OBVIOUS
  <2> HIDE DEF o
  <2> QED
    BY <2>1, <2>2, <1>3, <1>7, <1>10 DEF Line
<1>12. \A j \in 0 .. n : (j \in o <=> j \in on) /\ u[j] = v[j]
  BY <1>1, <1>3
<1>13. (\A j \in (n + 1) .. (n + m) : j \notin o) /\ u[N] = v[M]
  BY <1>3
<1> HIDE DEF o, d, u
<1> QED
  BY <1>3, <1>11, <1>12, <1>13

-----------------------------------------------------------------------------
Faults == drops + dups + swaps

OnLine(s, on, v) ==
  /\ 0 \in on <=> last[s] # -1
  /\ v[0] = last[s]
  /\ \A j \in 1 .. Len(chan) : /\ j \in on <=> chan[j].stream_id = s
                               /\ j \in on => v[j] = chan[j].seq
  /\ v[Len(chan) + 1] = next_seq[s]

(* K faults put no stream more than K out of line.                         *)
LagInv ==
  \A s \in Streams : \E on, c, v : Line(Len(chan), on, c, v, Faults) /\ OnLine(s, on, v)

LEMMA Lengths ==
  ASSUME TransferType
  PROVE  Len(chan) \in Nat /\ Faults \in Nat
  BY DEF TransferType, Faults

LEMMA SentLag ==
  ASSUME TransferType, LagInv, NEW t \in Streams, NEW w, Sent(t, w)
  PROVE  LagInv'
<1>1. PICK n \in Nat, m \in Nat, K \in Nat : n = Len(chan) /\ m = Len(w) /\ K = Faults
  BY Lengths DEF Sent
<1>2. /\ Len(chan') = n + m
      /\ \A j \in 1 .. n : chan'[j] = chan[j]
      /\ \A k \in 1 .. m : chan'[n + k] = w[k]
  <2>1. Joined(WireFrames, chan, w) /\ chan' = chan \o w
    BY SentType DEF Sent
  <2> QED
    BY <1>1, <2>1 DEF Joined
<1>3. Faults' = K /\ last' = last
  BY <1>1 DEF Sent, Faults, decoder
<1>4. /\ \A k \in 1 .. m : w[k].stream_id = t /\ w[k].seq = next_seq[t] + k - 1
      /\ next_seq \in [Streams -> Nat]
      /\ next_seq' = [next_seq EXCEPT ![t] = @ + m]
  BY <1>1 DEF Sent, TransferType
<1>5. ASSUME NEW j \in (n + 1) .. (n + m)
      PROVE  chan'[j].stream_id = t /\ chan'[j].seq = next_seq[t] + (j - (n + 1))
  <2>1. PICK k \in 1 .. m : j = n + k
    <3>1. j - n \in 1 .. m /\ j = n + (j - n)
      OBVIOUS
    <3> QED
      BY <3>1
  <2>2. next_seq[t] \in Nat
    BY <1>4
  <2>3. chan'[j] = w[k] /\ w[k].seq = next_seq[t] + k - 1 /\ w[k].stream_id = t
    BY <1>2, <1>4, <2>1
  <2> QED
    BY <2>1, <2>2, <2>3
<1>6. SUFFICES ASSUME NEW s \in Streams
               PROVE  \E o, d, u : Line(n + m, o, d, u, K) /\ OnLine(s, o, u)'
  BY <1>2, <1>3 DEF LagInv
<1>7. PICK on, c, v : Line(n, on, c, v, K) /\ OnLine(s, on, v)
  BY <1>1 DEF LagInv
<1>8. /\ 0 \in on <=> last[s] # -1
      /\ v[0] = last[s]
      /\ \A j \in 1 .. n : (j \in on <=> chan[j].stream_id = s) /\ (j \in on => v[j] = chan[j].seq)
      /\ v[n + 1] = next_seq[s]
  BY <1>1, <1>7 DEF OnLine
<1>9. CASE s = t
  <2>1. PICK o, d, u :
           /\ Line(n + m, o, d, u, K)
           /\ \A j \in 0 .. n : (j \in o <=> j \in on) /\ u[j] = v[j]
           /\ \A j \in (n + 1) .. ((n + m) + 1) : j \in o /\ u[j] = v[n + 1] + (j - (n + 1))
    BY <1>7, LineOwn
  <2>2. next_seq'[s] = u[(n + m) + 1]
    <3>1. (n + m) + 1 \in (n + 1) .. ((n + m) + 1) /\ ((n + m) + 1) - (n + 1) = m
      OBVIOUS
    <3>2. next_seq'[s] = next_seq[s] + m
      BY <1>4, <1>9
    <3> QED
      BY <1>8, <2>1, <3>1, <3>2
  <2>3. (0 \in o <=> last'[s] # -1) /\ u[0] = last'[s]
    BY <1>3, <1>8, <2>1
  <2>4. ASSUME NEW j \in 1 .. (n + m)
        PROVE  (j \in o <=> chan'[j].stream_id = s) /\ (j \in o => u[j] = chan'[j].seq)
    <3>1. CASE j <= n
      BY <1>2, <1>8, <2>1, <3>1
    <3>2. CASE j > n
      <4>1. j \in (n + 1) .. (n + m) /\ j \in (n + 1) .. ((n + m) + 1)
        BY <3>2
      <4>2. j \in o /\ u[j] = next_seq[t] + (j - (n + 1))
        BY <4>1, <1>8, <1>9, <2>1
      <4> QED
        BY <4>1, <4>2, <1>5, <1>9
    <3> QED
      BY <3>1, <3>2
  <2>5. OnLine(s, o, u)'
    BY <1>2, <2>2, <2>3, <2>4 DEF OnLine
  <2> QED
    BY <2>1, <2>5
<1>10. CASE s # t
  <2>1. PICK o, d, u :
           /\ Line(n + m, o, d, u, K)
           /\ \A j \in 0 .. n : (j \in o <=> j \in on) /\ u[j] = v[j]
           /\ \A j \in (n + 1) .. (n + m) : j \notin o
           /\ u[(n + m) + 1] = v[n + 1]
    BY <1>7, LineOther
  <2>2. next_seq'[s] = u[(n + m) + 1]
    BY <1>4, <1>8, <1>10, <2>1
  <2>3. (0 \in o <=> last'[s] # -1) /\ u[0] = last'[s]
    BY <1>3, <1>8, <2>1
  <2>4. ASSUME NEW j \in 1 .. (n + m)
        PROVE  (j \in o <=> chan'[j].stream_id = s) /\ (j \in o => u[j] = chan'[j].seq)
    <3>1. CASE j <= n
      BY <1>2, <1>8, <2>1, <3>1
    <3>2. CASE j > n
      BY <1>5, <1>10, <2>1, <3>2
    <3> QED
      BY <3>1, <3>2
  <2> QED
    BY <1>2, <2>1, <2>2, <2>3, <2>4 DEF OnLine
<1> QED
  BY <1>9, <1>10

LEMMA FaultLag ==
  ASSUME TransferType, LagInv, Fault
  PROVE  LagInv'
<1>1. PICK n \in Nat, K \in Nat : n = Len(chan) /\ K = Faults
  BY Lengths
<1>2. Faults' = K + 1 /\ last' = last /\ next_seq' = next_seq
  BY <1>1, FaultForms DEF Faults, sender, decoder
<1>3. PICK i \in 1 .. n :
         \/ Removed(WireFrames, chan, i, chan')
         \/ Repeated(WireFrames, chan, i, chan')
         \/ i < n /\ Swapped(WireFrames, chan, i, chan')
  BY <1>1, FaultForms
<1>4. SUFFICES ASSUME NEW s \in Streams
               PROVE  \E o, d, u : Line(Len(chan'), o, d, u, K + 1) /\ OnLine(s, o, u)'
  BY <1>2 DEF LagInv
<1>5. PICK on, c, v : Line(n, on, c, v, K) /\ OnLine(s, on, v)
  BY <1>1 DEF LagInv
<1>6. /\ 0 \in on <=> last[s] # -1
      /\ v[0] = last[s]
      /\ \A j \in 1 .. n : (j \in on <=> chan[j].stream_id = s) /\ (j \in on => v[j] = chan[j].seq)
      /\ v[n + 1] = next_seq[s]
  BY <1>1, <1>5 DEF OnLine
<1>7. CASE Removed(WireFrames, chan, i, chan')
  <2>1. Len(chan') = n - 1
        /\ \A j \in 1 .. (n - 1) : chan'[j] = IF j < i THEN chan[j] ELSE chan[j + 1]
    BY <1>1, <1>7 DEF Removed
  <2>2. PICK o, d, u :
           /\ Line(n - 1, o, d, u, K + 1)
           /\ Taken(n, i, on, v, o, u)
    <3>1. PICK L \in {K, K + 1} : L = K + 1
      OBVIOUS
    <3>2. \E o, d, u :
             /\ Line(n - 1, o, d, u, L)
             /\ Taken(n, i, on, v, o, u)
      BY <3>1, <1>5, LineDrop, Zenon
    <3> QED
      BY <3>1, <3>2
  <2>3. (0 \in o <=> last'[s] # -1) /\ u[0] = last'[s] /\ u[(n - 1) + 1] = next_seq'[s]
    BY <1>2, <1>6, <2>2 DEF Past, Taken
  <2>4. ASSUME NEW j \in 1 .. (n - 1)
        PROVE  (j \in o <=> chan'[j].stream_id = s) /\ (j \in o => u[j] = chan'[j].seq)
    <3>1. PICK k \in 1 .. n : k = Past(i, j)
      BY DEF Past
    <3>2. chan'[j] = chan[k]
      BY <2>1, <3>1 DEF Past
    <3>3. j \in 0 .. n
      OBVIOUS
    <3>4. (j \in o <=> Past(i, j) \in on) /\ u[j] = v[Past(i, j)]
      BY <2>2, <3>3, Zenon DEF Taken
    <3>5. (j \in o <=> k \in on) /\ u[j] = v[k]
      BY <3>1, <3>4, Zenon
    <3> QED
      BY <1>6, <3>2, <3>5
  <2>5. OnLine(s, o, u)'
    BY <2>1, <2>3, <2>4 DEF OnLine
  <2> QED
    BY <2>1, <2>2, <2>5
<1>8. CASE Repeated(WireFrames, chan, i, chan')
  <2>1. Len(chan') = n + 1
        /\ \A j \in 1 .. (n + 1) : chan'[j] = IF j <= i THEN chan[j] ELSE chan[j - 1]
    BY <1>1, <1>8 DEF Repeated
  <2>2. PICK o, d, u :
           /\ Line(n + 1, o, d, u, K + 1)
           /\ Doubled(n, i, on, v, o, u)
    BY <1>5, LineRepeat
  <2>3. (0 \in o <=> last'[s] # -1) /\ u[0] = last'[s] /\ u[(n + 1) + 1] = next_seq'[s]
    BY <1>2, <1>6, <2>2 DEF Again, Doubled
  <2>4. ASSUME NEW j \in 1 .. (n + 1)
        PROVE  (j \in o <=> chan'[j].stream_id = s) /\ (j \in o => u[j] = chan'[j].seq)
    <3>1. PICK k \in 1 .. n : k = Again(i, j)
      BY DEF Again
    <3>2. chan'[j] = chan[k]
      BY <2>1, <3>1 DEF Again
    <3>3. j \in 0 .. (n + 2)
      OBVIOUS
    <3>4. (j \in o <=> k \in on) /\ u[j] = v[k]
      BY <2>2, <3>1, <3>3, Zenon DEF Doubled
    <3> QED
      BY <1>6, <3>2, <3>4
  <2> QED
    BY <2>1, <2>2, <2>3, <2>4 DEF OnLine
<1>9. CASE i < n /\ Swapped(WireFrames, chan, i, chan')
  <2>1. Len(chan') = n /\ \A j \in 1 .. n : chan'[j] = chan[Traded(i, j)]
    BY <1>1, <1>9 DEF Swapped, Traded
  <2>2. PICK o, d, u :
           /\ Line(n, o, d, u, K + 1)
           /\ Exchanged(n, i, on, v, o, u)
    BY <1>5, <1>9, LineSwap
  <2>3. (0 \in o <=> last'[s] # -1) /\ u[0] = last'[s] /\ u[n + 1] = next_seq'[s]
    BY <1>2, <1>6, <1>9, <2>2 DEF Traded, Exchanged
  <2>4. ASSUME NEW j \in 1 .. n
        PROVE  (j \in o <=> chan'[j].stream_id = s) /\ (j \in o => u[j] = chan'[j].seq)
    <3>1. PICK k \in 1 .. n : k = Traded(i, j)
      BY <1>9 DEF Traded
    <3>2. chan'[j] = chan[k]
      BY <2>1, <3>1
    <3>3. j \in 0 .. (n + 1)
      OBVIOUS
    <3>4. (j \in o <=> k \in on) /\ u[j] = v[k]
      BY <2>2, <3>1, <3>3, Zenon DEF Exchanged
    <3> QED
      BY <1>6, <3>2, <3>4
  <2> QED
    BY <2>1, <2>2, <2>3, <2>4 DEF OnLine
<1> QED
  BY <1>3, <1>7, <1>8, <1>9

LEMMA ArriveLag ==
  ASSUME TransferType, LagInv, NEW f, Arrived(f)
  PROVE  /\ LagInv'
         /\ LET x == last[f.stream_id] IN
            x # -1 => f.seq \in (x - Faults) .. (x + 1 + Faults)
<1>1. PICK n \in Nat \ {0}, K \in Nat, t \in Streams, q \in Nat :
         n = Len(chan) /\ K = Faults /\ t = f.stream_id /\ q = f.seq
  <2>1. Len(chan) # 0
    BY DEF Arrived, TransferType
  <2> QED
    BY <2>1, Lengths, WireFields DEF Arrived
<1>2. /\ f = chan[1] /\ Len(chan') = n - 1
      /\ \A j \in 1 .. (n - 1) : chan'[j] = chan[j + 1]
      /\ last'[t] = q /\ \A s \in Streams : s # t => last'[s] = last[s]
      /\ next_seq' = next_seq
  BY <1>1 DEF Arrived, sender
<1>3. Faults' = K
  BY <1>1 DEF Arrived, Faults
<1>4. LagInv'
  <2> SUFFICES ASSUME NEW s \in Streams
               PROVE  \E o, d, u : Line(n - 1, o, d, u, K) /\ OnLine(s, o, u)'
    BY <1>2, <1>3 DEF LagInv
  <2>1. PICK on, c, v : Line(n, on, c, v, K) /\ OnLine(s, on, v)
    BY <1>1 DEF LagInv
  <2>2. /\ 0 \in on <=> last[s] # -1
        /\ v[0] = last[s]
        /\ \A j \in 1 .. n : (j \in on <=> chan[j].stream_id = s) /\ (j \in on => v[j] = chan[j].seq)
        /\ v[n + 1] = next_seq[s]
    BY <1>1, <2>1 DEF OnLine
  <2>3. CASE s = t
    <3>1. 1 \in on /\ v[1] = q
      BY <1>1, <1>2, <2>2, <2>3
    <3>2. PICK o, d, u :
             /\ Line(n - 1, o, d, u, K)
             /\ \A j \in 0 .. n : (j \in o <=> j + 1 \in on) /\ u[j] = v[j + 1]
      BY <3>1, <2>1, LineArrive
    <3>3. (0 \in o <=> last'[s] # -1) /\ u[0] = last'[s] /\ u[(n - 1) + 1] = next_seq'[s]
      BY <1>1, <1>2, <2>2, <2>3, <3>1, <3>2
    <3>4. ASSUME NEW j \in 1 .. (n - 1)
          PROVE  (j \in o <=> chan'[j].stream_id = s) /\ (j \in o => u[j] = chan'[j].seq)
      <4>1. j + 1 \in 1 .. n /\ j \in 0 .. n /\ ~(j < 1)
        OBVIOUS
      <4>2. (j \in o <=> j + 1 \in on) /\ u[j] = v[j + 1]
        BY <3>2, <4>1
      <4> QED
        BY <1>2, <2>2, <4>1, <4>2
    <3>5. OnLine(s, o, u)'
      BY <1>2, <3>3, <3>4 DEF OnLine
    <3> QED
      BY <3>2, <3>5
  <2>4. CASE s # t
    <3>1. 1 \notin on /\ 1 \in 1 .. n /\ K \in {K, K + 1}
      BY <1>1, <1>2, <2>2, <2>4
    <3>2. PICK o, d, u :
             /\ Line(n - 1, o, d, u, K)
             /\ Taken(n, 1, on, v, o, u)
      BY <3>1, <2>1, LineDrop
    <3>3. (0 \in o <=> last'[s] # -1) /\ u[0] = last'[s] /\ u[(n - 1) + 1] = next_seq'[s]
      BY <1>2, <2>2, <2>4, <3>2 DEF Past, Taken
    <3>4. ASSUME NEW j \in 1 .. (n - 1)
          PROVE  (j \in o <=> chan'[j].stream_id = s) /\ (j \in o => u[j] = chan'[j].seq)
      <4>1. j + 1 \in 1 .. n /\ j \in 0 .. n /\ ~(j < 1)
        OBVIOUS
      <4>2. (j \in o <=> j + 1 \in on) /\ u[j] = v[j + 1]
        BY <3>2, <4>1 DEF Past, Taken
      <4> QED
        BY <1>2, <2>2, <4>1, <4>2
    <3>5. OnLine(s, o, u)'
      BY <1>2, <3>3, <3>4 DEF OnLine
    <3> QED
      BY <3>2, <3>5
  <2> QED
    BY <2>3, <2>4
<1>5. ASSUME last[t] # -1 PROVE q \in (last[t] - K) .. (last[t] + 1 + K)
  <2>1. PICK on, c, v : Line(n, on, c, v, K) /\ OnLine(t, on, v)
    BY <1>1 DEF LagInv
  <2>2. 0 \in on /\ 1 \in on /\ v[0] = last[t] /\ v[1] = q /\ last[t] \in Int
    BY <1>1, <1>2, <1>5, <2>1 DEF OnLine, TransferType, Numbers
  <2>3. c[1] = c[0] + 1 /\ c[0] = 0
    BY <2>1, <2>2 DEF Line, Ranked
  <2>4. Close(c[1] - c[0], v[1] - v[0], K)
    BY <2>1, <2>2 DEF Line
  <2>5. Close(1, q - last[t], K)
    BY <2>2, <2>3, <2>4
  <2> QED
    BY <2>2, <2>5 DEF Close
<1> QED
  BY <1>1, <1>4, <1>5

-----------------------------------------------------------------------------
(***************************************************************************)
(* The statistics.  Remainders tell the numbers apart as long as a frame   *)
(* arrives fewer than SeqRange places from the one before it.              *)
(***************************************************************************)
Steady(r, t, x) ==
  /\ r.seeded <=> ~t.fresh
  /\ ~t.fresh => x \in Nat /\ r.last_seq = x % SeqRange
  /\ r.gaps = t.jumps /\ r.duplicates = t.repeats

StatsInv == \A s \in Streams : Steady(table[s], truth[s], last[s])

NearBy(x, q) == q = x \/ q - x \in (2 - SeqRange) .. (SeqRange - 1)

(* What a step that delivers a frame may do to the number of its stream.   *)
SeqNear == \A s \in Streams : ~truth[s].fresh => NearBy(last[s], last'[s])

LEMMA Told ==
  ASSUME NEW x \in Nat, NEW q \in Nat, NearBy(x, q)
  PROVE  /\ q % SeqRange = x % SeqRange <=> q = x
         /\ q % SeqRange \in {x % SeqRange, ((x % SeqRange) + 1) % SeqRange} <=> q \in {x, x + 1}
<1>1. PICK S \in Nat \ {0} : S = SeqRange
  BY StreamTransferAssumption
<1>2. ((x % S) + 1) % S = (x + 1) % S
  BY NextRemainder
<1>3. q % S = x % S => q = x
  <2>1. CASE q = x
    BY <2>1
  <2>2. CASE q - x \in (2 - S) .. (S - 1)
    <3>1. q - x < S /\ x - q < S
      BY <2>2
    <3> QED
      BY <3>1, NearEqual
  <2> QED
    BY <1>1, <2>1, <2>2 DEF NearBy
<1>4. q % S = (x + 1) % S => q \in {x, x + 1}
  <2>1. CASE q = x
    BY <2>1
  <2>2. CASE q - x \in (2 - S) .. (S - 1)
    <3>1. q - (x + 1) < S /\ (x + 1) - q < S /\ x + 1 \in Nat
      BY <2>2
    <3>2. q % S = (x + 1) % S => q = x + 1
      BY <3>1, NearEqual
    <3> QED
      BY <3>2
  <2> QED
    BY <1>1, <2>1, <2>2 DEF NearBy
<1>5. PICK a, b, c : a = q % S /\ b = x % S /\ c = (x + 1) % S
  BY Zenon
<1>6. (q = x => a = b) /\ (q = x + 1 => a = c)
  BY <1>5, Zenon
<1> QED
  BY <1>1, <1>2, <1>3, <1>4, <1>5, <1>6

LEMMA ArriveStats ==
  ASSUME TransferType, StatsInv, NEW f, Arrived(f), Counted(f), f.type \in {"DATA", "RESET"},
         ~truth[f.stream_id].fresh => NearBy(last[f.stream_id], f.seq)
  PROVE  StatsInv'
<1>1. PICK s \in Streams, q \in Nat : s = f.stream_id /\ q = f.seq
  BY WireFields DEF Arrived
<1>2. PICK t, t2, x, r :
         /\ t = truth[s] /\ t2 = truth'[s] /\ x = last[s] /\ r = table[s]
         /\ t \in Truth /\ r \in T!Rolling
  <2>1. truth[s] \in Truth /\ table[s] \in T!Rolling
    BY DEF TransferType
  <2> QED
    BY <2>1, Zenon
<1>3. /\ t2.fresh <=> f.type = "RESET"
      /\ t2.jumps = t.jumps + (IF ~t.fresh /\ q \notin {x, x + 1} THEN 1 ELSE 0)
      /\ t2.repeats = t.repeats + (IF ~t.fresh /\ q = x THEN 1 ELSE 0)
      /\ last'[s] = q
  BY <1>1, <1>2, WitnessType DEF Arrived
<1>4. Steady(r, t, x)
  BY <1>2 DEF StatsInv
<1>5. PICK n : /\ Noted(r, q % SeqRange, n)
               /\ f.type = "DATA" => table'[s] = n
               /\ f.type = "RESET" => table'[s] = T!AfterReset(n)
  BY <1>1, <1>2 DEF Counted
<1>6. r.gaps \in Nat /\ r.duplicates \in Nat
  BY <1>2 DEF T!Rolling
<1>7. n.gaps = t2.jumps /\ n.duplicates = t2.repeats
  <2>1. CASE t.fresh
    <3>1. n.gaps = r.gaps + 0 /\ n.duplicates = r.duplicates + 0
      BY <2>1, <1>4, <1>5 DEF Noted, Steady
    <3>2. t2.jumps = t.jumps + 0 /\ t2.repeats = t.repeats + 0
      BY <2>1, <1>3
    <3> QED
      BY <3>1, <3>2, <1>4 DEF Steady
  <2>2. CASE ~t.fresh
    <3>1. x \in Nat /\ r.seeded /\ r.last_seq = x % SeqRange
      BY <2>2, <1>4 DEF Steady
    <3>2. NearBy(x, q)
      BY <2>2, <1>1, <1>2
    <3>3. /\ q % SeqRange = r.last_seq <=> q = x
          /\ q % SeqRange \in {r.last_seq, T!Expected(r)} <=> q \in {x, x + 1}
      BY <3>1, <3>2, Told DEF T!Expected
    <3>4. PICK a, b : a = q % SeqRange /\ b = T!Expected(r)
      BY Zenon
    <3>5. /\ n.gaps = r.gaps + (IF a \notin {r.last_seq, b} THEN 1 ELSE 0)
          /\ n.duplicates = r.duplicates + (IF a = r.last_seq THEN 1 ELSE 0)
      BY <3>1, <3>4, <1>5, Zenon DEF Noted
    <3>6. /\ a = r.last_seq <=> q = x
          /\ a \in {r.last_seq, b} <=> q \in {x, x + 1}
      BY <3>3, <3>4, Zenon
    <3>7. r.gaps = t.jumps /\ r.duplicates = t.repeats
      BY <1>4 DEF Steady
    <3> QED
      BY <2>2, <3>5, <3>6, <3>7, <1>3
  <2> QED
    BY <2>1, <2>2
<1>8. Steady(table'[s], t2, q)
  <2>1. CASE f.type = "DATA"
    <3>1. table'[s] = n /\ n.seeded /\ n.last_seq = q % SeqRange /\ ~t2.fresh
      BY <2>1, <1>3, <1>5 DEF Noted
    <3> QED
      BY <3>1, <1>7 DEF Steady
  <2>2. CASE f.type = "RESET"
    <3>1. table'[s] = T!AfterReset(n) /\ n \in T!Rolling /\ t2.fresh
      BY <2>2, <1>3, <1>5 DEF Noted
    <3>2. /\ ~T!AfterReset(n).seeded /\ T!AfterReset(n).gaps = n.gaps
          /\ T!AfterReset(n).duplicates = n.duplicates
      BY <3>1, AfterResetExact
    <3> QED
      BY <3>1, <3>2, <1>7 DEF Steady
  <2> QED
    BY <2>1, <2>2
<1>9. ASSUME NEW u \in Streams, u # s PROVE Steady(table'[u], truth'[u], last'[u])
  BY <1>1, <1>9 DEF Arrived, Counted, StatsInv
<1> QED
  BY <1>2, <1>3, <1>8, <1>9 DEF StatsInv

LEMMA InitStats == Init => StatsInv
<1> SUFFICES ASSUME Init, NEW s \in Streams PROVE Steady(table[s], truth[s], last[s])
  BY DEF StatsInv
<1>1. ~table[s].seeded /\ table[s].gaps = 0 /\ table[s].duplicates = 0
  BY DEF Init, T!InitTable
<1>2. truth[s].fresh /\ truth[s].jumps = 0 /\ truth[s].repeats = 0
  BY DEF Init
<1> QED
  BY <1>1, <1>2 DEF Steady

LEMMA StatsStays ==
  ASSUME StatsInv, UNCHANGED decoder
  PROVE  StatsInv'
  BY DEF StatsInv, decoder

LEMMA StepStats ==
  TransferType /\ StatsInv /\ [Next]_vars /\ [SeqNear]_vars => StatsInv'
<1> SUFFICES ASSUME TransferType, StatsInv, [Next]_vars, [SeqNear]_vars
             PROVE  StatsInv'
  OBVIOUS
<1>1. CASE Decode
  <2>1. PICK f : Arrived(f) /\ Counted(f) /\ f.type \in {"DATA", "RESET"}
    BY <1>1, CountForm
  <2>2. f.stream_id \in Streams /\ last'[f.stream_id] = f.seq /\ f.seq \in Nat
    BY <2>1, WireFields DEF Arrived
  <2>3. SeqNear
    <3>1. vars' # vars
      <4>1. Len(chan') = Len(chan) - 1 /\ Len(chan) \in Nat
        BY <2>1 DEF Arrived, TransferType
      <4>2. chan' # chan
        BY <4>1
      <4> QED
        BY <4>2 DEF vars, transport
    <3> QED
      BY <3>1
  <2> QED
    BY <2>1, <2>2, <2>3, ArriveStats DEF SeqNear
<1>2. CASE Fault
  BY <1>2, FaultForms, StatsStays
<1>3. ASSUME NEW s \in Streams, SendMessage(s) \/ SendReset(s) PROVE StatsInv'
  BY <1>3, StatsStays DEF SendMessage, SendReset
<1>4. CASE UNCHANGED vars
  BY <1>4, StatsStays DEF vars
<1> QED
  BY <1>1, <1>2, <1>3, <1>4 DEF Next, Send

LEMMA StatsInHonest == StatsInv => StatsHonest
  BY DEF StatsInv, StatsHonest, Steady

(* observe() counts every jump and every repeat of the frame numbers, and  *)
(* nothing else, across wraps of the 16-bit counter and across RESETs, in  *)
(* every run in which no frame arrives SeqRange - 1 places or more from    *)
(* the one before it in its stream.                                        *)
THEOREM StatsHonestWhileNear == Spec /\ [][SeqNear]_vars => []StatsHonest
<1>1. TransferInv => TransferType
  BY DEF TransferInv
<1> QED
  BY <1>1, InitStats, StepStats, StatsInHonest, TransferInvariant, PTL DEF Spec

-----------------------------------------------------------------------------
(* With few faults no frame arrives that far from the one before it.       *)
FaultsInv == LagInv /\ Faults <= MaxFaults

LEMMA InitFaults == Init => FaultsInv
<1> SUFFICES ASSUME Init PROVE FaultsInv
  OBVIOUS
<1>1. Len(chan) = 0 /\ Faults = 0 /\ Faults <= MaxFaults
  BY StreamTransferAssumption DEF Init, Faults
<1>2. ASSUME NEW s \in Streams
      PROVE  \E on, c, v : Line(0, on, c, v, 0) /\ OnLine(s, on, v)
  <2>1. PICK on, c, v : /\ on = {1} /\ c = [j \in 0 .. 1 |-> j]
                        /\ v = [j \in 0 .. 1 |-> IF j = 0 THEN -1 ELSE 0]
    BY Zenon
  <2>2. Ranked(0, on, c)
    <3>1. c[1] = c[1 - 1] + (IF 1 \in on THEN 1 ELSE 0) /\ c[0] = 0 /\ 0 + 1 \in on
      BY <2>1
    <3>2. \A j \in 1 .. (0 + 1) : j = 1
      OBVIOUS
    <3> QED
      BY <3>1, <3>2 DEF Ranked
  <2>3. Line(0, on, c, v, 0)
    BY <2>1, <2>2 DEF Line
  <2>4. last[s] = -1 /\ next_seq[s] = 0
    BY DEF Init
  <2>5. OnLine(s, on, v)
    BY <1>1, <2>1, <2>4 DEF OnLine
  <2> QED
    BY <2>3, <2>5
<1> QED
  BY <1>1, <1>2 DEF FaultsInv, LagInv

LEMMA StepFaults == TransferType /\ FaultsInv /\ [Next]_vars => FaultsInv'
<1> SUFFICES ASSUME TransferType, FaultsInv, [Next]_vars PROVE FaultsInv'
  OBVIOUS
<1>1. CASE Decode
  <2>1. PICK f : Arrived(f)
    BY <1>1, CountForm
  <2>2. LagInv' /\ Faults' = Faults
    BY <2>1, ArriveLag DEF FaultsInv, Arrived, Faults
  <2> QED
    BY <2>2 DEF FaultsInv
<1>2. CASE Fault
  <2>1. LagInv'
    BY <1>2, FaultLag DEF FaultsInv
  <2>2. Faults' <= MaxFaults
    BY <1>2, FaultForms, StreamTransferAssumption DEF Faults, TransferType
  <2> QED
    BY <2>1, <2>2 DEF FaultsInv
<1>3. ASSUME NEW s \in Streams, SendMessage(s) \/ SendReset(s) PROVE FaultsInv'
  <2>1. PICK w : Sent(s, w)
    BY <1>3, MessageSent, ResetSent
  <2>2. LagInv'
    BY <2>1, SentLag DEF FaultsInv
  <2>3. Faults' = Faults
    BY <2>1 DEF Sent, Faults
  <2> QED
    BY <2>2, <2>3 DEF FaultsInv
<1>4. CASE UNCHANGED vars
  <2>1. UNCHANGED << chan, drops, dups, swaps, last, next_seq >>
    BY <1>4 DEF vars, transport, sender, decoder
  <2> QED
    BY <2>1 DEF FaultsInv, LagInv, OnLine, Faults
<1> QED
  BY <1>1, <1>2, <1>3, <1>4 DEF Next, Send

LEMMA FewFaultsNear ==
  ASSUME MaxFaults <= SeqRange - 2
  PROVE  TransferType /\ StatsInv /\ FaultsInv /\ [Next]_vars => [SeqNear]_vars
<1> SUFFICES ASSUME TransferType, StatsInv, FaultsInv, [Next]_vars, NEW s \in Streams,
                    ~truth[s].fresh
             PROVE  NearBy(last[s], last'[s])
  BY DEF SeqNear
<1>1. last[s] \in Nat
  BY DEF StatsInv, Steady
<1>2. last'[s] = last[s] => NearBy(last[s], last'[s])
  BY DEF NearBy
<1>3. CASE Decode
  <2>1. PICK f : Arrived(f)
    BY <1>3, CountForm
  <2>2. CASE s = f.stream_id
    <3>1. PICK x \in Nat, q \in Nat, K \in Nat, S \in Nat \ {0} :
             /\ x = last[s] /\ q = last'[s] /\ K = Faults /\ S = SeqRange
      BY <1>1, <2>1, <2>2, WireFields, Lengths, StreamTransferAssumption DEF Arrived
    <3>2. q \in (x - K) .. (x + 1 + K)
      <4>1. q = f.seq
        BY <2>1, <2>2, <3>1 DEF Arrived
      <4>2. x # -1
        BY <3>1
      <4> QED
        BY <2>1, <2>2, <3>1, <4>1, <4>2, ArriveLag DEF FaultsInv
    <3>3. K <= S - 2
      BY <3>1, StreamTransferAssumption DEF FaultsInv
    <3>4. q - x \in (2 - S) .. (S - 1)
      BY <3>2, <3>3
    <3> QED
      BY <3>1, <3>4 DEF NearBy
  <2>3. CASE s # f.stream_id
    BY <2>1, <2>3, <1>2 DEF Arrived
  <2> QED
    BY <2>2, <2>3
<1>4. CASE ~Decode
  <2>1. last' = last
    BY <1>4, FaultForms DEF Next, Send, SendMessage, SendReset, vars, decoder
  <2> QED
    BY <2>1, <1>2
<1> QED
  BY <1>3, <1>4

(* The statistics are the truth if the transport makes at most             *)
(* SeqRange - 2 faults, however many frames are sent and however often the *)
(* 16-bit counter wraps (StreamTable::observe, note_reset).                *)
THEOREM StatsHonestAlways ==
  ASSUME MaxFaults <= SeqRange - 2
  PROVE  Spec => []StatsHonest
<1>1. TransferInv => TransferType
  BY DEF TransferInv
<1>2. Spec => []FaultsInv
  BY <1>1, InitFaults, StepFaults, TransferInvariant, PTL DEF Spec
<1> QED
  BY <1>1, <1>2, InitStats, StepStats, FewFaultsNear, StatsInHonest, TransferInvariant, PTL
  DEF Spec

-----------------------------------------------------------------------------
(***************************************************************************)
(* No loss goes unnoticed.  The numbers of the frames of a stream that     *)
(* sends no RESET follow from the lengths of its messages.                 *)
(***************************************************************************)
LEMMA CountUp ==
  ASSUME NEW S, 0 \in S, \A n \in Nat : n \in S => n + 1 \in S
  PROVE  \A n \in Nat : n \in S
<1> DEFINE U == Nat \ S
<1>1. SUFFICES ASSUME U # {} PROVE FALSE
  OBVIOUS
<1>2. U \in SUBSET Nat
  OBVIOUS
<1> HIDE DEF U
<1>3. PICK n \in U : \A k \in U : n <= k
  BY <1>1, <1>2, QueueAssumptions, QP!NatMin, Zenon
<1>4. n # 0 /\ n - 1 \in Nat /\ n - 1 \notin U /\ n = (n - 1) + 1
  BY <1>3 DEF U
<1> QED
  BY <1>4 DEF U

Summed(n, f) ==
  f = [m \in 0 .. n |-> IF m = 0 THEN 0 ELSE f[m - 1] + FragCount(PayloadLen[m - 1])]

LEMMA SummedExists ==
  ASSUME NEW n \in Nat
  PROVE  \E f : Summed(n, f)
<1> DEFINE C(m) == FragCount(PayloadLen[m])
           S == {k \in Nat : \E f : Summed(k, f)}
<1>1. 0 \in S
  <2>1. Summed(0, [m \in 0 .. 0 |-> 0])
    BY DEF Summed
  <2> QED
    BY <2>1
<1>2. ASSUME NEW k \in Nat, k \in S PROVE k + 1 \in S
  <2>1. PICK f : Summed(k, f)
    BY <1>2
  <2> DEFINE g == [m \in 0 .. (k + 1) |-> IF m = k + 1 THEN f[k] + C(k) ELSE f[m]]
  <2>2. ASSUME NEW m \in 0 .. (k + 1)
        PROVE  g[m] = IF m = 0 THEN 0 ELSE g[m - 1] + C(m - 1)
    <3>1. CASE m = k + 1
      <4>1. (k + 1) - 1 = k /\ k \in 0 .. (k + 1) /\ k # k + 1 /\ m # 0
        BY <3>1
      <4> QED
        BY <3>1, <4>1
    <3>2. CASE m # k + 1
      <4>1. m \in 0 .. k /\ g[m] = f[m] /\ (m # 0 => m - 1 \in 0 .. k /\ g[m - 1] = f[m - 1])
        BY <3>2
      <4>2. f[m] = IF m = 0 THEN 0 ELSE f[m - 1] + C(m - 1)
        BY <2>1, <4>1 DEF Summed
      <4> HIDE DEF g
      <4> QED
        BY <4>1, <4>2
    <3> QED
      BY <3>1, <3>2
  <2>3. g = [m \in 0 .. (k + 1) |-> g[m]]
    OBVIOUS
  <2> HIDE DEF g
  <2>4. Summed(k + 1, g)
    BY <2>2, <2>3 DEF Summed
  <2> QED
    BY <2>4
<1> HIDE DEF S
<1>3. n \in S
  BY <1>1, <1>2, CountUp
<1> QED
  BY <1>3 DEF S

LEMMA FirstSeqUnrolls ==
  ASSUME NEW m \in 0 .. (IdMod - 1)
  PROVE  FirstSeqOf[m] = IF m = 0 THEN 0
                         ELSE FirstSeqOf[m - 1] + FragCount(PayloadLen[m - 1])
<1>1. IdMod \in Nat /\ IdMod - 1 \in Nat
  BY StreamTransferAssumption
<1>2. \E f : Summed(IdMod - 1, f)
  BY <1>1, SummedExists
<1>3. FirstSeqOf = CHOOSE f : Summed(IdMod - 1, f)
  BY DEF FirstSeqOf, Summed
<1>4. Summed(IdMod - 1, FirstSeqOf)
  BY <1>2, <1>3, Zenon
<1>5. PICK h : h = [j \in 0 .. (IdMod - 1) |-> IF j = 0 THEN 0
                      ELSE FirstSeqOf[j - 1] + FragCount(PayloadLen[j - 1])]
  OBVIOUS
<1>6. FirstSeqOf = h
  BY <1>4, <1>5, Zenon DEF Summed
<1>7. h[m] = IF m = 0 THEN 0 ELSE FirstSeqOf[m - 1] + FragCount(PayloadLen[m - 1])
  BY <1>5
<1> QED
  BY <1>6, <1>7, Zenon

LEMMA FirstSeqs ==
  /\ \A m \in 0 .. (IdMod - 1) : FirstSeqOf[m] \in Nat
  /\ FirstSeqOf[0] = 0
  /\ \A m \in MsgRange : FirstSeqOf[m + 1] = FirstSeqOf[m] + FragCount(PayloadLen[m])
<1>1. IdMod \in Nat /\ IdMod - 1 \in Nat
  BY StreamTransferAssumption
<1>2. FirstSeqOf[0] = 0
  BY <1>1, FirstSeqUnrolls
<1>3. ASSUME NEW m \in MsgRange
      PROVE  FirstSeqOf[m + 1] = FirstSeqOf[m] + FragCount(PayloadLen[m])
  <2>1. m + 1 \in 0 .. (IdMod - 1) /\ m + 1 # 0 /\ (m + 1) - 1 = m
    BY <1>1 DEF MsgRange
  <2>2. PICK k \in 0 .. (IdMod - 1) : k = m + 1
    BY <2>1
  <2>3. FirstSeqOf[k] = IF k = 0 THEN 0
                        ELSE FirstSeqOf[k - 1] + FragCount(PayloadLen[k - 1])
    BY FirstSeqUnrolls
  <2> QED
    BY <2>1, <2>2, <2>3
<1> DEFINE S == {n \in Nat : n \in 0 .. (IdMod - 1) => FirstSeqOf[n] \in Nat}
<1>4. 0 \in S
  BY <1>2
<1>5. ASSUME NEW n \in Nat, n \in S PROVE n + 1 \in S
  <2>1. SUFFICES ASSUME n + 1 \in 0 .. (IdMod - 1) PROVE FirstSeqOf[n + 1] \in Nat
    OBVIOUS
  <2>2. n \in MsgRange /\ FirstSeqOf[n] \in Nat
    BY <1>1, <1>5, <2>1 DEF MsgRange
  <2>3. FragCount(PayloadLen[n]) \in Nat
    BY <2>2, PayloadLenType, Cut
  <2> QED
    BY <1>3, <2>2, <2>3
<1> HIDE DEF S
<1>6. \A n \in Nat : n \in S
  BY <1>4, <1>5, CountUp
<1> QED
  BY <1>2, <1>3, <1>6 DEF S

(* The numbers of two messages do not overlap.                             *)
LEMMA FirstSeqsRise ==
  ASSUME NEW m \in MsgRange, NEW k \in MsgRange, m < k
  PROVE  FirstSeqOf[m] + FragCount(PayloadLen[m]) <= FirstSeqOf[k]
<1> DEFINE S == {d \in Nat : (m + 1) + d \in MsgRange =>
                   FirstSeqOf[m + 1] <= FirstSeqOf[(m + 1) + d]}
<1>1. IdMod \in Nat /\ IdMod - 1 \in Nat /\ m \in Nat /\ k \in Nat
  BY StreamTransferAssumption DEF MsgRange
<1>2. m + 1 \in MsgRange /\ FirstSeqOf[m + 1] \in Nat
  <2>1. m + 1 \in MsgRange /\ m + 1 \in 0 .. (IdMod - 1)
    BY <1>1 DEF MsgRange
  <2> QED
    BY <2>1, FirstSeqs
<1>3. 0 \in S
  <2>1. (m + 1) + 0 = m + 1
    BY <1>1
  <2> QED
    BY <1>2, <2>1
<1>4. ASSUME NEW d \in Nat, d \in S PROVE d + 1 \in S
  <2>1. SUFFICES ASSUME (m + 1) + (d + 1) \in MsgRange
                 PROVE  FirstSeqOf[m + 1] <= FirstSeqOf[(m + 1) + (d + 1)]
    OBVIOUS
  <2>2. PICK e \in Nat : e = (m + 1) + d /\ e + 1 = (m + 1) + (d + 1)
    BY <1>1
  <2>3. e \in MsgRange /\ e \in 0 .. (IdMod - 1)
    BY <1>1, <2>1, <2>2 DEF MsgRange
  <2>4. FirstSeqOf[m + 1] <= FirstSeqOf[e] /\ FirstSeqOf[e] \in Nat
    BY <1>4, <2>2, <2>3, FirstSeqs
  <2>5. FirstSeqOf[e + 1] = FirstSeqOf[e] + FragCount(PayloadLen[e])
        /\ FragCount(PayloadLen[e]) \in Nat
    BY <2>3, FirstSeqs, PayloadLenType, Cut
  <2>6. FirstSeqOf[m + 1] <= FirstSeqOf[e + 1]
    BY <1>2, <2>4, <2>5
  <2> QED
    BY <2>2, <2>6
<1> HIDE DEF S
<1>5. PICK d \in Nat : k = (m + 1) + d
  <2>1. k - (m + 1) \in Nat /\ k = (m + 1) + (k - (m + 1))
    BY <1>1
  <2> QED
    BY <2>1
<1>6. d \in S
  BY <1>3, <1>4, CountUp
<1>7. FirstSeqOf[m + 1] <= FirstSeqOf[k]
  BY <1>5, <1>6 DEF S
<1> QED
  BY <1>7, FirstSeqs

(* The frames of a message that arrive one after the other complete it.    *)
Pieces(m) == FragCount(PayloadLen[m])

LEMMA Spans ==
  ASSUME NEW f \in DataFrames
  PROVE  RP!Begin(f) = f.frag_offset /\ RP!End(f) = f.frag_offset + f.len
<1>1. WellCut(f)
  BY DataFramesWellCut
<1>2. PICK L \in Nat : L = PayloadLen[f.msg_id] /\ L <= OffMax
  BY <1>1, PayloadLenType DEF WellCut
<1>3. RP!Begin(f) = f.frag_offset
  BY <1>1 DEF WellCut, RP!Begin
<1>4. f.frag_offset \in Nat /\ f.len \in Nat /\ f.frag_offset + f.len <= L
  BY <1>1, <1>2 DEF WellCut
<1> QED
  BY <1>2, <1>3, <1>4, StreamTransferAssumption DEF RP!End

HasUpTo(key, n) ==
  /\ key \in DOMAIN partials
  /\ partials[key].ranges = 0 .. (n * max_fragment - 1)
  /\ ~partials[key].have_fin

LEMMA Lands ==
  ASSUME TransferInv, NEW s \in Streams, NEW m \in MsgRange, NEW i \in 1 .. Pieces(m),
         NEW k \in Nat, NEW f, f = Fragment(s, m, i, k), R!Fill(f) \/ R!Emit(f),
         i = 1 => << s, m >> \notin DOMAIN partials,
         i # 1 => HasUpTo(<< s, m >>, i - 1)
  PROVE  /\ i = Pieces(m) => ~R!Fill(f)
         /\ i < Pieces(m) => HasUpTo(<< s, m >>, i)'
<1>1. PICK key, q, n, L : /\ key = << s, m >> /\ q = RP!Updated(f) /\ n = Pieces(m)
                          /\ L = PayloadLen[m]
  BY Zenon
<1>2. L \in Nat /\ L <= OffMax /\ n \in Nat
  BY <1>1, PayloadLenType, Cut DEF Pieces
<1>3. /\ f \in DataFrames /\ f.stream_id = s /\ f.msg_id = m
      /\ f.frag_offset = (i - 1) * max_fragment
      /\ f.len = Chunk(L, f.frag_offset)
      /\ f.fin <=> i = n
  BY <1>1, FragmentFields DEF Pieces
<1>4. PICK o, c, z : o = (i - 1) * max_fragment /\ c = Chunk(L, o) /\ z = i * max_fragment
  BY Zenon
<1>5. /\ o \in Nat /\ c \in Nat
      /\ i = n => o + c = L
      /\ i < n => o + c = z
  BY <1>1, <1>2, <1>4, CutAt DEF Pieces
<1>6. RP!Begin(f) = o /\ RP!End(f) = o + c
  BY <1>3, <1>4, Spans
<1>7. PICK p : RP!Extends(f, p, q)
  BY <1>1, <1>3, ReassemblyAssumptions, RP!UpdatedExtends DEF TransferInv
<1>8. RP!FrameKey(f) = key
  BY <1>1, <1>3 DEF RP!FrameKey
<1>9. p.ranges = 0 .. (o - 1) /\ ~p.have_fin
  <2>1. CASE i = 1
    <3>1. o = 0
      <4>1. max_fragment \in Nat
        BY StreamTransferAssumption
      <4> QED
        BY <2>1, <4>1, <1>4
    <3>2. key \notin DOMAIN partials
      BY <2>1, <1>1
    <3>3. p.ranges = {} /\ ~p.have_fin
      BY <3>2, <1>7, <1>8 DEF RP!Extends
    <3>4. 0 .. (0 - 1) = {}
      OBVIOUS
    <3> QED
      BY <3>1, <3>3, <3>4
  <2>2. CASE i # 1
    <3>1. key \in DOMAIN partials /\ partials[key].ranges = 0 .. (o - 1)
          /\ ~partials[key].have_fin
      BY <2>2, <1>1, <1>4 DEF HasUpTo
    <3>2. p = partials[key]
      BY <3>1, <1>7, <1>8 DEF RP!Extends
    <3> QED
      BY <3>1, <3>2
  <2> QED
    BY <2>1, <2>2
<1>10. q.ranges = 0 .. ((o + c) - 1) /\ (q.have_fin <=> i = n)
  <2>1. q.ranges = p.ranges \cup (o .. ((o + c) - 1)) /\ (q.have_fin <=> p.have_fin \/ f.fin)
    BY <1>6, <1>7 DEF RP!Extends
  <2>2. (0 .. (o - 1)) \cup (o .. ((o + c) - 1)) = 0 .. ((o + c) - 1)
    BY <1>5
  <2> QED
    BY <2>1, <2>2, <1>3, <1>9
<1>11. ASSUME i = n PROVE ~R!Fill(f)
  <2>1. Grown(f, q)
    BY <1>1, <1>3, UpdatedGrows
  <2>2. q.total_len = L /\ q.ranges = 0 .. (L - 1) /\ q.have_fin
    BY <2>1, <1>1, <1>3, <1>5, <1>10, <1>11 DEF Grown
  <2>3. L # 0 => RP!OneSpanReaches(0 .. (L - 1), L)
    <3>1. L # 0 => L \in 1 .. OffMax /\ L >= L
      BY <1>2, StreamTransferAssumption
    <3> QED
      BY <3>1 DEF RP!OneSpanReaches
  <2>4. RP!is_complete(q)
    BY <2>2, <2>3 DEF RP!is_complete
  <2>5. ~RP!Fill(f)
    BY <2>4, <1>1 DEF RP!Fill
  <2> QED
    BY <2>5, SameFill
<1>12. ASSUME i < n PROVE HasUpTo(key, i)'
  <2>1. ~RP!is_complete(q)
    BY <1>10, <1>12 DEF RP!is_complete
  <2>2. ~RP!Emit(f)
    BY <2>1, <1>1 DEF RP!Emit
  <2>3. R!Fill(f)
    BY <2>2, SameEmit
  <2>4. RP!Fill(f)
    BY <2>3, SameFill
  <2>5. key \in DOMAIN partials' /\ partials'[key] = q
    BY <2>4, <1>1, <1>8 DEF RP!Fill
  <2>6. q.ranges = 0 .. (z - 1) /\ ~q.have_fin
    BY <1>5, <1>10, <1>12
  <2> QED
    BY <2>3, <2>5, <2>6, <1>4 DEF HasUpTo
<1> QED
  BY <1>1, <1>2, <1>11, <1>12

(***************************************************************************)
(* While a stream sends no RESET, all its frames are frames of messages    *)
(* and bear the numbers FirstSeqOf gives them; before the first arrives    *)
(* nothing of it is in flight.                                             *)
(***************************************************************************)
MessageOf(s, f) ==
  \E m \in MsgRange : \E i \in 1 .. Pieces(m) : f = Fragment(s, m, i, FirstSeqOf[m] + i - 1)

Settled(s) ==
  resets_sent[s] = 0 =>
    /\ next_seq[s] = FirstSeqOf[next_msg[s]]
    /\ \A j \in 1 .. Len(chan) : chan[j].stream_id = s => MessageOf(s, chan[j])
    /\ last[s] = -1 => /\ first[s] = -1
                       /\ \A m \in MsgRange : << s, m >> \notin DOMAIN partials
    /\ last[s] # -1 => first[s] # -1 /\ ~truth[s].fresh

(***************************************************************************)
(* And while its frames arrive without a jump or a repeat, the number of   *)
(* the last one tells how far each message is that began to arrive with    *)
(* its first frame.                                                        *)
(***************************************************************************)
Tracked(s, m) ==
  /\ last[s] < FirstSeqOf[m] => << s, m >> \notin DOMAIN partials
  /\ first[s] <= FirstSeqOf[m] /\ FirstSeqOf[m] <= last[s]
       /\ last[s] < FirstSeqOf[m] + Pieces(m) - 1
     => HasUpTo(<< s, m >>, last[s] - FirstSeqOf[m] + 1)
  /\ first[s] <= FirstSeqOf[m] /\ FirstSeqOf[m] + Pieces(m) - 1 <= last[s]
     => << s, m >> \in emitted

Clear(s) ==
  resets_sent[s] = 0 /\ truth[s].jumps = 0 /\ truth[s].repeats = 0 /\ last[s] # -1 =>
    \A m \in MsgRange : Tracked(s, m)

ProgressInv == \A s \in Streams : Settled(s) /\ Clear(s)

(* A step keeps the partial of a key.                                      *)
Kept(key) ==
  /\ key \in DOMAIN partials' <=> key \in DOMAIN partials
  /\ key \in DOMAIN partials => partials'[key] = partials[key]

LEMMA FrameKeeps ==
  ASSUME NEW f, R!Fill(f) \/ R!Emit(f), NEW key, key # << f.stream_id, f.msg_id >>
  PROVE  Kept(key)
<1>1. CASE R!Fill(f)
  BY <1>1 DEF R!Fill, R!FrameKey, Kept
<1>2. CASE R!Emit(f)
  BY <1>2 DEF R!Emit, R!FrameKey, Kept
<1> QED
  BY <1>1, <1>2

LEMMA TrackedKept ==
  ASSUME NEW s, NEW m, Tracked(s, m), Kept(<< s, m >>), last'[s] = last[s],
         first'[s] = first[s], emitted \subseteq emitted'
  PROVE  Tracked(s, m)'
<1>1. PICK key : key = << s, m >>
  OBVIOUS
<1>2. PICK n : n = last[s] - FirstSeqOf[m] + 1
  OBVIOUS
<1>3. HasUpTo(key, n) => HasUpTo(key, n)'
  BY <1>1 DEF Kept, HasUpTo
<1>4. last[s] < FirstSeqOf[m] => key \notin DOMAIN partials'
  BY <1>1 DEF Tracked, Kept
<1>5. first[s] <= FirstSeqOf[m] /\ FirstSeqOf[m] <= last[s]
        /\ last[s] < FirstSeqOf[m] + Pieces(m) - 1 => HasUpTo(key, n)'
  BY <1>1, <1>2, <1>3 DEF Tracked
<1>6. first[s] <= FirstSeqOf[m] /\ FirstSeqOf[m] + Pieces(m) - 1 <= last[s] => key \in emitted'
  BY <1>1 DEF Tracked
<1> QED
  BY <1>1, <1>2, <1>4, <1>5, <1>6 DEF Tracked

(* What a step does to a stream that is not its own.                       *)
LEMMA ElsewhereKept ==
  ASSUME NEW s \in Streams, Settled(s) /\ Clear(s),
         \A m \in MsgRange : Kept(<< s, m >>),
         UNCHANGED << next_msg[s], next_seq[s], last[s], first[s], truth[s] >>,
         resets_sent'[s] = 0 => resets_sent[s] = 0,
         emitted \subseteq emitted',
         \A j \in 1 .. Len(chan') : chan'[j].stream_id = s =>
           MessageOf(s, chan'[j]) \/ \E k \in 1 .. Len(chan) : chan'[j] = chan[k]
  PROVE  Settled(s)' /\ Clear(s)'
<1>1. Settled(s)'
  <2> SUFFICES ASSUME resets_sent'[s] = 0
               PROVE  /\ next_seq'[s] = FirstSeqOf[next_msg'[s]]
                      /\ \A j \in 1 .. Len(chan') :
                           chan'[j].stream_id = s => MessageOf(s, chan'[j])
                      /\ last'[s] = -1 => /\ first'[s] = -1
                                          /\ \A m \in MsgRange : << s, m >> \notin DOMAIN partials'
                      /\ last'[s] # -1 => first'[s] # -1 /\ ~truth'[s].fresh
    BY DEF Settled, MessageOf
  <2>1. /\ next_seq[s] = FirstSeqOf[next_msg[s]]
        /\ \A j \in 1 .. Len(chan) : chan[j].stream_id = s => MessageOf(s, chan[j])
        /\ last[s] = -1 => /\ first[s] = -1
                           /\ \A m \in MsgRange : << s, m >> \notin DOMAIN partials
        /\ last[s] # -1 => first[s] # -1 /\ ~truth[s].fresh
    BY DEF Settled
  <2>2. last'[s] = -1 => \A m \in MsgRange : << s, m >> \notin DOMAIN partials'
    BY <2>1 DEF Kept
  <2>3. ASSUME NEW j \in 1 .. Len(chan'), chan'[j].stream_id = s
        PROVE  MessageOf(s, chan'[j])
    BY <2>1, <2>3
  <2> QED
    BY <2>1, <2>2, <2>3
<1>2. Clear(s)'
  <2> SUFFICES ASSUME resets_sent'[s] = 0, truth[s].jumps = 0, truth[s].repeats = 0,
                      last[s] # -1, NEW m \in MsgRange
               PROVE  Tracked(s, m)'
    BY DEF Clear
  <2>1. Tracked(s, m)
    BY DEF Clear
  <2> QED
    BY <2>1, TrackedKept
<1> QED
  BY <1>1, <1>2

(* A stream's own frame, the next in order or the first of all.            *)
LEMMA OwnTracked ==
  ASSUME TransferInv, NEW s \in Streams, NEW M \in MsgRange, NEW I \in 1 .. Pieces(M),
         NEW q \in Nat, q = FirstSeqOf[M] + I - 1, NEW f, f = Fragment(s, M, I, q),
         R!Fill(f) \/ (R!Emit(f) /\ << s, M >> \in emitted'), emitted \subseteq emitted',
         last'[s] = q,
         \/ /\ first'[s] = q
            /\ \A k \in MsgRange : << s, k >> \notin DOMAIN partials
         \/ /\ last[s] \in Nat /\ q = last[s] + 1 /\ first'[s] = first[s]
            /\ \A k \in MsgRange : Tracked(s, k),
         NEW m \in MsgRange
  PROVE  Tracked(s, m)'
<1>1. PICK x \in Nat, n \in Nat, X \in Nat, N \in Nat :
         /\ x = FirstSeqOf[m] /\ n = Pieces(m) /\ n # 0
         /\ X = FirstSeqOf[M] /\ N = Pieces(M)
  <2>1. m \in 0 .. (IdMod - 1) /\ M \in 0 .. (IdMod - 1)
    BY StreamTransferAssumption DEF MsgRange
  <2>2. FirstSeqOf[m] \in Nat /\ FirstSeqOf[M] \in Nat
    BY <2>1, FirstSeqs
  <2>3. Pieces(m) \in Nat /\ Pieces(m) # 0 /\ Pieces(M) \in Nat
    BY PayloadLenType, Cut DEF Pieces
  <2> QED
    BY <2>2, <2>3
<1>2. PICK g : g = first'[s]
  OBVIOUS
<1>3. PICK key : key = << s, m >>
  OBVIOUS
<1>4. f.stream_id = s /\ f.msg_id = M
  BY PayloadLenType, FragmentFields DEF Pieces
<1>5. SUFFICES /\ q < x => key \notin DOMAIN partials'
               /\ g <= x /\ x <= q /\ q < x + n - 1 => HasUpTo(key, q - x + 1)'
               /\ g <= x /\ x + n - 1 <= q => key \in emitted'
  BY <1>1, <1>2, <1>3 DEF Tracked
<1>6. q = X + I - 1 /\ 1 <= I /\ I <= N /\ I \in Nat
  BY <1>1
<1>7. CASE m = M
  <2>1. SUFFICES ASSUME g <= x
                 PROVE  /\ q < x + n - 1 => HasUpTo(key, q - x + 1)'
                        /\ x + n - 1 <= q => key \in emitted'
    BY <1>1, <1>6, <1>7
  <2>2. I = 1 => key \notin DOMAIN partials
    <3>1. CASE \A k \in MsgRange : << s, k >> \notin DOMAIN partials
      BY <1>3, <3>1
    <3>2. CASE last[s] \in Nat /\ q = last[s] + 1 /\ Tracked(s, m)
      BY <1>1, <1>3, <1>6, <1>7, <3>2 DEF Tracked
    <3> QED
      BY <3>1, <3>2
  <2>3. ASSUME I # 1 PROVE HasUpTo(key, I - 1)
    <3>1. g # q
      BY <1>1, <1>6, <1>7, <2>1, <2>3
    <3>2. last[s] \in Nat /\ q = last[s] + 1 /\ g = first[s] /\ Tracked(s, m)
      BY <1>2, <3>1
    <3>3. PICK r \in Nat : r = last[s] /\ r = X + I - 2
      BY <1>6, <3>2
    <3>4. first[s] <= x /\ x <= r /\ r < x + n - 1 /\ r - x + 1 = I - 1
      BY <1>1, <1>6, <1>7, <2>1, <2>3, <3>2, <3>3
    <3>5. HasUpTo(key, r - x + 1)
      BY <1>1, <1>3, <3>2, <3>3, <3>4 DEF Tracked
    <3> QED
      BY <3>4, <3>5
  <2>4. /\ I = Pieces(M) => ~R!Fill(f)
        /\ I < Pieces(M) => HasUpTo(key, I)'
    BY <1>3, <1>7, <2>2, <2>3, Lands
  <2>5. q - x + 1 = I /\ (q < x + n - 1 <=> I < N) /\ (x + n - 1 <= q <=> I = N)
    BY <1>1, <1>6, <1>7
  <2>6. ASSUME I = N PROVE key \in emitted'
    BY <1>1, <1>3, <1>7, <2>4, <2>6
  <2>7. ASSUME I < N PROVE HasUpTo(key, q - x + 1)'
    BY <1>1, <2>4, <2>5, <2>7
  <2> QED
    BY <2>5, <2>6, <2>7
<1>8. CASE m # M
  <2>1. Kept(key)
    BY <1>3, <1>4, <1>8, FrameKeeps
  <2>2. \/ x + n <= X /\ x + n <= q /\ ~(q < x) /\ ~(q < x + n - 1) /\ ~(q <= x)
        \/ X + N <= x /\ q < x /\ ~(x <= q) /\ ~(x + n - 1 <= q)
    <3>1. m \in Nat /\ M \in Nat
      BY DEF MsgRange
    <3>2. 1 <= n /\ X <= q /\ q <= X + N - 1
      BY <1>1, <1>6
    <3>3. CASE m < M
      <4>1. x + n <= X
        BY <1>1, <3>3, FirstSeqsRise DEF Pieces
      <4>2. x + n <= q
        BY <1>1, <3>2, <4>1
      <4>3. ~(q < x) /\ ~(q < x + n - 1) /\ ~(q <= x)
        BY <1>1, <3>2, <4>2
      <4> QED
        BY <4>1, <4>2, <4>3
    <3>4. CASE M < m
      <4>1. X + N <= x
        BY <1>1, <3>4, FirstSeqsRise DEF Pieces
      <4>2. q < x
        BY <1>1, <3>2, <4>1
      <4>3. ~(x <= q) /\ ~(x + n - 1 <= q)
        BY <1>1, <3>2, <4>2
      <4> QED
        BY <4>1, <4>2, <4>3
    <3> QED
      BY <1>8, <3>1, <3>3, <3>4
  <2>3. CASE g = q /\ \A k \in MsgRange : << s, k >> \notin DOMAIN partials
    BY <1>3, <2>1, <2>2, <2>3 DEF Kept
  <2>4. CASE last[s] \in Nat /\ q = last[s] + 1 /\ g = first[s] /\ Tracked(s, m)
    <3>1. PICK r \in Nat : r = last[s] /\ q = r + 1
      BY <2>4
    <3>2. /\ r < x => key \notin DOMAIN partials
          /\ g <= x /\ x + n - 1 <= r => key \in emitted
      BY <1>1, <1>3, <2>4, <3>1 DEF Tracked
    <3>3. q < x => key \notin DOMAIN partials'
      BY <1>1, <2>1, <3>1, <3>2 DEF Kept
    <3>4. g <= x /\ x + n - 1 <= q => key \in emitted'
      <4>1. x + n - 1 <= q => x + n - 1 <= r
        BY <1>1, <2>2, <3>1
      <4> QED
        BY <3>2, <4>1
    <3> QED
      BY <2>2, <3>3, <3>4
  <2> QED
    BY <1>2, <2>3, <2>4
<1> QED
  BY <1>7, <1>8

LEMMA OwnKept ==
  ASSUME TransferInv, NEW s \in Streams, Settled(s) /\ Clear(s), resets_sent[s] = 0,
         NEW f, Arrived(f), f.stream_id = s,
         f.type = "DATA" => R!Fill(f) \/ (R!Emit(f) /\ << s, f.msg_id >> \in emitted'),
         emitted \subseteq emitted'
  PROVE  Settled(s)' /\ Clear(s)'
<1>1. /\ next_seq[s] = FirstSeqOf[next_msg[s]]
      /\ \A j \in 1 .. Len(chan) : chan[j].stream_id = s => MessageOf(s, chan[j])
      /\ last[s] = -1 => /\ first[s] = -1
                         /\ \A m \in MsgRange : << s, m >> \notin DOMAIN partials
      /\ last[s] # -1 => first[s] # -1 /\ ~truth[s].fresh
  BY DEF Settled
<1>2. PICK w : w = chan'
  OBVIOUS
<1>3. /\ chan \in Seq(WireFrames) /\ chan # << >> /\ f = chan[1]
      /\ Len(w) = Len(chan) - 1 /\ \A j \in 1 .. (Len(chan) - 1) : w[j] = chan[j + 1]
  BY <1>2 DEF Arrived, TransferInv, TransferType
<1>4. MessageOf(s, f)
  <2>1. 1 \in 1 .. Len(chan)
    BY <1>3
  <2> QED
    BY <1>1, <1>3, <2>1
<1>5. PICK M \in MsgRange : \E i \in 1 .. Pieces(M) :
             f = Fragment(s, M, i, FirstSeqOf[M] + i - 1)
  BY <1>4 DEF MessageOf
<1>15. PICK I \in 1 .. Pieces(M) : f = Fragment(s, M, I, FirstSeqOf[M] + I - 1)
  BY <1>5
<1>6. PICK q \in Nat : q = FirstSeqOf[M] + I - 1
  <2>1. M \in 0 .. (IdMod - 1)
    BY StreamTransferAssumption DEF MsgRange
  <2>2. FirstSeqOf[M] \in Nat /\ Pieces(M) \in Nat
    BY <2>1, FirstSeqs, PayloadLenType, Cut DEF Pieces
  <2> QED
    BY <2>2
<1>7. f = Fragment(s, M, I, q)
  BY <1>6, <1>15
<1>8. f.type = "DATA" /\ f.seq = q /\ f.msg_id = M
  <2>1. f \in DataFrames /\ f.seq = q /\ f.msg_id = M
    BY <1>7, PayloadLenType, FragmentFields DEF Pieces
  <2> QED
    BY <2>1, DataFramesWellCut DEF WellCut
<1>9. /\ first'[s] = IF first[s] = -1 THEN q ELSE first[s]
      /\ last'[s] = q
      /\ truth'[s] = Witness(truth[s], last[s], f)
      /\ UNCHANGED << next_msg, next_seq, resets_sent >>
  BY <1>8 DEF Arrived, sender
<1>10. last[s] \in Numbers /\ truth[s] \in Truth
  BY DEF TransferInv, TransferType
<1>11. PICK a, b : /\ a = (IF ~truth[s].fresh /\ q \notin {last[s], last[s] + 1} THEN 1 ELSE 0)
                   /\ b = (IF ~truth[s].fresh /\ q = last[s] THEN 1 ELSE 0)
  BY Zenon
<1>12. /\ ~truth'[s].fresh
       /\ truth'[s].jumps = truth[s].jumps + a
       /\ truth'[s].repeats = truth[s].repeats + b
  BY <1>8, <1>9, <1>10, <1>11, WitnessType
<1>13. Settled(s)'
  <2>1. ASSUME NEW j \in 1 .. Len(w), w[j].stream_id = s
        PROVE  MessageOf(s, w[j])
    <3>1. PICK k \in 1 .. Len(chan) : w[j] = chan[k]
      <4>1. j + 1 \in 1 .. Len(chan) /\ w[j] = chan[j + 1]
        BY <1>3
      <4> QED
        BY <4>1
    <3> QED
      BY <1>1, <2>1, <3>1
  <2>2. q # -1 /\ (IF first[s] = -1 THEN q ELSE first[s]) # -1
    OBVIOUS
  <2> QED
    BY <1>1, <1>2, <1>9, <1>12, <2>1, <2>2 DEF Settled, MessageOf
<1>14. Clear(s)'
  <2>1. SUFFICES ASSUME truth'[s].jumps = 0, truth'[s].repeats = 0, NEW m \in MsgRange
                 PROVE  Tracked(s, m)'
    BY DEF Clear
  <2>2. R!Fill(f) \/ (R!Emit(f) /\ << s, M >> \in emitted')
    BY <1>8
  <2>3. \/ /\ first'[s] = q
           /\ \A k \in MsgRange : << s, k >> \notin DOMAIN partials
        \/ /\ last[s] \in Nat /\ q = last[s] + 1 /\ first'[s] = first[s]
           /\ \A k \in MsgRange : Tracked(s, k)
    <3>1. CASE last[s] = -1
      BY <1>1, <1>9, <3>1
    <3>2. CASE last[s] # -1
      <4>1. PICK u \in Nat, v \in Nat : u = truth[s].jumps /\ v = truth[s].repeats
        BY <1>10 DEF Truth
      <4>2. a \in {0, 1} /\ b \in {0, 1}
        BY <1>11
      <4>7. u + a = 0 /\ v + b = 0
        BY <1>12, <2>1, <4>1
      <4>8. u = 0 /\ v = 0 /\ a = 0 /\ b = 0
        BY <4>2, <4>7
      <4>3. truth[s].jumps = 0 /\ truth[s].repeats = 0 /\ a = 0 /\ b = 0
        BY <4>1, <4>8
      <4>4. q = last[s] + 1
        BY <1>1, <1>11, <3>2, <4>3
      <4>5. \A k \in MsgRange : Tracked(s, k)
        BY <3>2, <4>3 DEF Clear
      <4>6. last[s] \in Nat /\ first'[s] = first[s]
        BY <1>1, <1>9, <1>10, <3>2 DEF Numbers
      <4> QED
        BY <4>4, <4>5, <4>6
    <3> QED
      BY <3>1, <3>2
  <2> QED
    BY <1>6, <1>7, <1>9, <2>2, <2>3, OwnTracked
<1> QED
  BY <1>13, <1>14

(* What the sender adds.                                                   *)
LEMMA SentMessageKept ==
  ASSUME TransferInv, NEW s \in Streams, Settled(s) /\ Clear(s), SendMessage(s)
  PROVE  Settled(s)' /\ Clear(s)'
<1>1. PICK m, q, n, w : /\ m = next_msg[s] /\ q = next_seq[s] /\ n = Pieces(m)
                        /\ w = encode_message(s, m, q)
  BY Zenon
<1>2. m \in MsgRange /\ Sent(s, w)
  BY <1>1, MessageSent DEF TransferInv
<1>3. Joined(WireFrames, chan, w)
  BY <1>2, SentType DEF TransferInv
<1>4. n \in Nat
  BY <1>1, <1>2, PayloadLenType, Cut DEF Pieces
<1>5. w = [i \in 1 .. n |-> Fragment(s, m, i, q + i - 1)]
  BY <1>1 DEF encode_message, Pieces
<1>6. Len(w) = n
  BY <1>4, <1>5
<1>7. /\ next_msg' = [next_msg EXCEPT ![s] = @ + 1]
      /\ next_msg \in [Streams -> Nat] /\ next_seq \in [Streams -> Nat]
      /\ next_seq' = [next_seq EXCEPT ![s] = @ + n] /\ chan' = chan \o w
      /\ UNCHANGED << resets_sent, first, last, truth, partials, emitted >>
  BY <1>2, <1>6 DEF SendMessage, Sent, TransferInv, TransferType, decoder
<1>8. next_msg'[s] = m + 1 /\ next_seq'[s] = q + n
  BY <1>1, <1>7
<1>9. Settled(s)'
  <2>1. SUFFICES ASSUME resets_sent[s] = 0
                 PROVE  /\ next_seq'[s] = FirstSeqOf[next_msg'[s]]
                        /\ \A j \in 1 .. Len(chan') :
                             chan'[j].stream_id = s => MessageOf(s, chan'[j])
    BY <1>7 DEF Settled, MessageOf
  <2>2. /\ q = FirstSeqOf[m]
        /\ \A j \in 1 .. Len(chan) : chan[j].stream_id = s => MessageOf(s, chan[j])
    BY <1>1, <2>1 DEF Settled
  <2>3. next_seq'[s] = FirstSeqOf[next_msg'[s]]
    BY <1>1, <1>2, <1>8, <2>2, FirstSeqs DEF Pieces
  <2>4. PICK v, c : v = chan' /\ c = Len(chan) /\ chan \in Seq(WireFrames) /\ c \in Nat
    BY Lengths DEF TransferInv, TransferType
  <2>5. ASSUME NEW j \in 1 .. Len(v), v[j].stream_id = s
        PROVE  MessageOf(s, v[j])
    <3>1. Len(v) = c + n
      BY <1>3, <1>6, <1>7, <2>4 DEF Joined
    <3>2. CASE j <= c
      <4>1. j \in 1 .. Len(chan) /\ v[j] = chan[j]
        BY <1>3, <1>7, <2>4, <3>2 DEF Joined
      <4> QED
        BY <2>2, <2>5, <4>1
    <3>3. CASE c < j
      <4>1. PICK i \in 1 .. n : j = c + i
        <5>1. j - c \in 1 .. n /\ j = c + (j - c)
          BY <1>4, <2>4, <3>1, <3>3
        <5> QED
          BY <5>1
      <4>2. v[j] = w[i]
        BY <1>3, <1>6, <1>7, <2>4, <4>1 DEF Joined
      <4>3. w[i] = Fragment(s, m, i, FirstSeqOf[m] + i - 1)
        BY <1>5, <2>2
      <4> QED
        BY <1>1, <1>2, <4>2, <4>3 DEF MessageOf
    <3> QED
      BY <2>4, <3>2, <3>3
  <2> QED
    BY <2>3, <2>4, <2>5
<1>10. Clear(s)'
  BY <1>7 DEF Clear, Tracked, HasUpTo
<1> QED
  BY <1>9, <1>10

LEMMA SentElsewhere ==
  ASSUME TransferInv, NEW t \in Streams, SendMessage(t) \/ SendReset(t),
         NEW s \in Streams, s # t \/ resets_sent'[s] # 0, Settled(s) /\ Clear(s)
  PROVE  Settled(s)' /\ Clear(s)'
<1>1. CASE s = t
  BY <1>1 DEF Settled, Clear
<1>2. CASE s # t
  <2>1. PICK w : Sent(t, w)
    BY MessageSent, ResetSent DEF TransferInv
  <2>2. Joined(WireFrames, chan, w)
    BY <2>1, SentType DEF TransferInv
  <2>3. UNCHANGED << next_msg[s], next_seq[s], resets_sent[s] >>
    BY <1>2 DEF SendMessage, SendReset, TransferInv, TransferType
  <2>4. UNCHANGED << first, last, truth, partials, emitted >>
    BY <2>1 DEF Sent, decoder
  <2>5. PICK v, c, n : v = chan' /\ c = Len(chan) /\ n = Len(w) /\ c \in Nat /\ n \in Nat
    BY <2>1, Lengths DEF Sent, TransferInv, TransferType
  <2>6. ASSUME NEW j \in 1 .. Len(v), v[j].stream_id = s
        PROVE  \E k \in 1 .. Len(chan) : v[j] = chan[k]
    <3>1. v = chan \o w /\ Len(v) = c + n
      BY <2>1, <2>2, <2>5 DEF Joined, Sent
    <3>2. CASE j <= c
      BY <2>2, <2>5, <3>1, <3>2 DEF Joined
    <3>3. CASE c < j
      <4>1. PICK i \in 1 .. n : j = c + i
        <5>1. j - c \in 1 .. n /\ j = c + (j - c)
          BY <2>5, <3>1, <3>3
        <5> QED
          BY <5>1
      <4>2. v[j] = w[i] /\ w[i].stream_id = t
        BY <2>1, <2>2, <2>5, <3>1, <4>1 DEF Joined, Sent
      <4> QED
        BY <1>2, <2>6, <4>2
    <3> QED
      BY <2>5, <3>2, <3>3
  <2>7. \A m \in MsgRange : Kept(<< s, m >>)
    BY <2>4 DEF Kept
  <2> QED
    BY <2>3, <2>4, <2>5, <2>6, <2>7, ElsewhereKept
<1> QED
  BY <1>1, <1>2

LEMMA FaultKept ==
  ASSUME TransferInv, Fault, NEW s \in Streams, Settled(s) /\ Clear(s)
  PROVE  Settled(s)' /\ Clear(s)'
<1>1. PICK v, c : v = chan' /\ c = Len(chan) /\ chan \in Seq(WireFrames) /\ c \in Nat
  BY Lengths DEF TransferInv, TransferType
<1>2. PICK i \in 1 .. c : \/ Removed(WireFrames, chan, i, v)
                          \/ Repeated(WireFrames, chan, i, v)
                          \/ i < c /\ Swapped(WireFrames, chan, i, v)
  BY <1>1, FaultForms DEF TransferInv
<1>3. ASSUME NEW j \in 1 .. Len(v)
      PROVE  \E k \in 1 .. c : v[j] = chan[k]
  <2>1. CASE Removed(WireFrames, chan, i, v)
    <3>1. j \in 1 .. (c - 1) /\ j \in 1 .. c /\ j + 1 \in 1 .. c
      BY <1>1, <2>1 DEF Removed
    <3> QED
      BY <1>1, <2>1, <3>1 DEF Removed
  <2>2. CASE Repeated(WireFrames, chan, i, v)
    <3>1. /\ j \in 1 .. (c + 1)
          /\ j <= i => j \in 1 .. c
          /\ ~(j <= i) => j - 1 \in 1 .. c
      BY <1>1, <2>2 DEF Repeated
    <3> QED
      BY <1>1, <2>2, <3>1 DEF Repeated
  <2>3. CASE i < c /\ Swapped(WireFrames, chan, i, v)
    <3>1. j \in 1 .. c /\ i \in 1 .. c /\ i + 1 \in 1 .. c
      BY <1>1, <2>3 DEF Swapped
    <3> QED
      BY <1>1, <2>3, <3>1 DEF Swapped
  <2> QED
    BY <1>2, <2>1, <2>2, <2>3
<1>4. UNCHANGED << next_msg, next_seq, resets_sent, first, last, truth, partials, emitted >>
  BY FaultForms DEF TransferInv, sender, decoder
<1>5. \A m \in MsgRange : Kept(<< s, m >>)
  BY <1>4 DEF Kept
<1> QED
  BY <1>1, <1>3, <1>4, <1>5, ElsewhereKept

LEMMA DecodeKept ==
  ASSUME TransferInv, Decode, NEW s \in Streams, Settled(s) /\ Clear(s)
  PROVE  Settled(s)' /\ Clear(s)'
<1>1. PICK f : /\ f = Head(chan) /\ Arrived(f)
               /\ \/ R!Reset(Head(chan).stream_id) /\ UNCHANGED emitted /\ f.type = "RESET"
                  \/ R!Fill(f) /\ UNCHANGED emitted
                  \/ R!Emit(f) /\ emitted' = emitted \cup {<< f.stream_id, f.msg_id >>}
  BY CountForm DEF TransferInv
<1>2. emitted \subseteq emitted'
  BY <1>1
<1>3. UNCHANGED << next_msg, next_seq, resets_sent >>
  BY <1>1 DEF Arrived, sender
<1>4. CASE f.stream_id = s /\ resets_sent[s] = 0
  <2>1. f.type = "DATA" => R!Fill(f) \/ (R!Emit(f) /\ << s, f.msg_id >> \in emitted')
    BY <1>1, <1>4
  <2> QED
    BY <1>1, <1>2, <1>4, <2>1, OwnKept
<1>5. CASE resets_sent[s] # 0
  BY <1>3, <1>5 DEF Settled, Clear
<1>6. CASE f.stream_id # s
  <2>1. UNCHANGED << first[s], last[s], truth[s] >>
    BY <1>1, <1>6 DEF Arrived
  <2>2. ASSUME NEW m \in MsgRange PROVE Kept(<< s, m >>)
    <3>1. PICK key, t : key = << s, m >> /\ t = Head(chan).stream_id
      BY Zenon
    <3>2. t = f.stream_id /\ key # << t, f.msg_id >> /\ key[1] = s /\ key[1] # t
      BY <1>1, <1>6, <3>1
    <3>3. CASE R!Reset(Head(chan).stream_id)
      <4>1. partials' = [k \in {k \in DOMAIN partials : k[1] # t} |-> partials[k]]
        BY <3>1, <3>3 DEF R!Reset
      <4> QED
        BY <3>1, <3>2, <4>1 DEF Kept
    <3>4. CASE R!Fill(f) \/ R!Emit(f)
      BY <3>1, <3>2, <3>4, FrameKeeps
    <3> QED
      BY <1>1, <3>1, <3>3, <3>4
  <2>3. ASSUME NEW j \in 1 .. Len(chan')
        PROVE  \E k \in 1 .. Len(chan) : chan'[j] = chan[k]
    <3>1. PICK v : v = chan'
      OBVIOUS
    <3>2. /\ chan \in Seq(WireFrames) /\ chan # << >> /\ Len(v) = Len(chan) - 1
          /\ \A i \in 1 .. (Len(chan) - 1) : v[i] = chan[i + 1]
      BY <1>1, <3>1 DEF Arrived, TransferInv, TransferType
    <3>3. j + 1 \in 1 .. Len(chan) /\ v[j] = chan[j + 1]
      BY <3>1, <3>2
    <3> QED
      BY <3>1, <3>3
  <2> QED
    BY <1>2, <1>3, <2>1, <2>2, <2>3, ElsewhereKept
<1> QED
  BY <1>4, <1>5, <1>6

LEMMA InitProgress == Init => ProgressInv
<1> SUFFICES ASSUME Init, NEW s \in Streams PROVE Settled(s) /\ Clear(s)
  BY DEF ProgressInv
<1>1. /\ next_seq[s] = 0 /\ next_msg[s] = 0 /\ chan = << >>
      /\ first[s] = -1 /\ last[s] = -1 /\ DOMAIN partials = {}
  BY DEF Init, R!Init
<1>2. Len(chan) = 0
  BY <1>1
<1> QED
  BY <1>1, <1>2, FirstSeqs DEF Settled, Clear

LEMMA StepProgress == TransferInv /\ ProgressInv /\ [Next]_vars => ProgressInv'
<1> SUFFICES ASSUME TransferInv, ProgressInv, [Next]_vars, NEW s \in Streams
             PROVE  Settled(s)' /\ Clear(s)'
  BY DEF ProgressInv
<1>1. Settled(s) /\ Clear(s)
  BY DEF ProgressInv
<1>2. ASSUME NEW t \in Streams, SendMessage(t) PROVE Settled(s)' /\ Clear(s)'
  BY <1>1, <1>2, SentMessageKept, SentElsewhere
<1>3. ASSUME NEW t \in Streams, SendReset(t) PROVE Settled(s)' /\ Clear(s)'
  <2>1. s = t => resets_sent'[s] # 0
    BY <1>3 DEF SendReset, TransferInv, TransferType
  <2> QED
    BY <1>1, <1>3, <2>1, SentElsewhere
<1>4. CASE UNCHANGED vars
  BY <1>1, <1>4
  DEF vars, sender, transport, decoder, Settled, MessageOf, Clear, Tracked, HasUpTo
<1> QED
  BY <1>1, <1>2, <1>3, <1>4, FaultKept, DecodeKept DEF Next, Send

(***************************************************************************)
(* What the statistics say of a loss is then what the transport did.       *)
(***************************************************************************)
LEMMA HonestLoss ==
  TransferType /\ ProgressInv /\ StatsHonest => NoSilentLoss
<1> SUFFICES ASSUME TransferType, ProgressInv, StatsHonest,
                    NEW s \in Streams, NEW m \in 0 .. (next_msg[s] - 1),
                    table[s].gaps = 0, table[s].duplicates = 0, resets_sent[s] = 0,
                    first[s] \in 0 .. FirstSeqOf[m],
                    FirstSeqOf[m] + FragCount(PayloadLen[m]) - 1 <= last[s]
             PROVE  << s, m >> \in emitted
  BY DEF NoSilentLoss
<1>1. m \in MsgRange
  <2>1. next_msg[s] \in Nat /\ next_msg[s] <= Messages[s]
    BY DEF TransferType
  <2>2. Messages[s] \in Nat /\ Messages[s] < IdMod /\ IdMod \in Nat
    BY StreamTransferAssumption
  <2> QED
    BY <2>1, <2>2 DEF MsgRange
<1>2. truth[s].jumps = 0 /\ truth[s].repeats = 0
  BY DEF StatsHonest
<1>3. first[s] # -1 /\ first[s] <= FirstSeqOf[m]
  <2>1. FirstSeqOf[m] \in Nat
    <3>1. m \in 0 .. (IdMod - 1)
      BY <1>1, StreamTransferAssumption DEF MsgRange
    <3> QED
      BY <3>1, FirstSeqs
  <2> QED
    BY <2>1
<1>4. last[s] # -1
  BY <1>3 DEF ProgressInv, Settled
<1>5. Tracked(s, m)
  BY <1>1, <1>2, <1>4 DEF ProgressInv, Clear
<1> QED
  BY <1>3, <1>5 DEF Tracked, Pieces

LEMMA ProgressInvariant == Spec => []ProgressInv
  BY InitProgress, StepProgress, TransferInvariant, PTL DEF Spec

(***************************************************************************)
(* The frame statistics do not hide a loss as long as no frame arrives a   *)
(* whole turn of the 16-bit counter out of place: a stream without a gap,  *)
(* a duplicate and a RESET has emitted every message whose frames lie      *)
(* between the first and the last that arrived.                            *)
(***************************************************************************)
THEOREM NoSilentLossWhileNear == Spec /\ [][SeqNear]_vars => []NoSilentLoss
<1>1. TransferInv => TransferType
  BY DEF TransferInv
<1> QED
  BY <1>1, HonestLoss, ProgressInvariant, StatsHonestWhileNear, TransferInvariant, PTL

(***************************************************************************)
(* And always, when the transport commits at most SeqRange - 2 faults.     *)
(***************************************************************************)
THEOREM NoSilentLossAlways ==
  ASSUME MaxFaults <= SeqRange - 2
  PROVE  Spec => []NoSilentLoss
<1>1. TransferInv => TransferType
  BY DEF TransferInv
<1>2. Spec => []StatsHonest
  BY StatsHonestAlways
<1> QED
  BY <1>1, <1>2, HonestLoss, ProgressInvariant, TransferInvariant, PTL
=============================================================================
