--------------------------- MODULE Minidb_proofs ---------------------------
(***************************************************************************)
(* Proofs about the parts of minidb in one specification: the journal's    *)
(* replay, the record cursor, the slots of cut pages, the overflow walk,   *)
(* the search of index pages, and what a cut of the file leaves.           *)
(***************************************************************************)
EXTENDS Minidb, FiniteSetTheorems, TLAPS

(***************************************************************************)
(* Replay, for every set of keys, every record value and journals of any   *)
(* length.                                                                 *)
(***************************************************************************)
Entry == [op : Controls \cup {"DATA"}, key : Keys \cup {Absent}, bytes : Cells]

-----------------------------------------------------------------------------
(***************************************************************************)
(* The entries by what became of them so far: in effect, undone, or in a   *)
(* transaction that is still open.                                         *)
(***************************************************************************)
EffectiveSet == {i \in DOMAIN log : Effective(i)}
UndoneSet    == {i \in DOMAIN log : Undone(i)}

(* No control entry follows entry i.                                       *)
LastPart(i) == \A j \in DOMAIN log : i < j => ~IsControl(j)

OpenSet == {i \in DOMAIN log : ~IsControl(i) /\ InTransaction(i) /\ LastPart(i)}

(* A BEGIN was read and no control entry since.                            *)
BeginOpen == \E b \in DOMAIN log : log[b].op = "BEGIN" /\ LastPart(b)

(* The staged ops are the entries behind entry b.                          *)
StagedFrom(b) ==
  /\ OpenSet = (b + 1) .. Len(log)
  /\ Len(staged) = Len(log) - b
  /\ \A i \in 1 .. Len(staged) :
       staged[i].key = log[b + i].key /\ staged[i].bytes = log[b + i].bytes

(* Of the ops staged on a key, one is the last.                            *)
LastExists ==
  \A k \in Keys :
    (\E i \in DOMAIN staged : staged[i].key = k) =>
      \E i \in DOMAIN staged :
        staged[i].key = k /\ \A j \in DOMAIN staged : staged[j].key = k => j <= i

(* Of the control entries that follow an entry, one is the nearest.        *)
NearestExists ==
  \A i \in DOMAIN log : LastPart(i) \/ \E c \in DOMAIN log : NearestAfter(i, c)

StoreExact ==
  \A k \in Keys :
    \/ EffectiveOn(k) = {} /\ committed[k] = seed[k]
    \/ \E i \in EffectiveOn(k) :
         /\ \A j \in EffectiveOn(k) : j <= i
         /\ committed[k] = log[i].bytes

CountsExact ==
  /\ committed_ops = Cardinality(EffectiveSet)
  /\ rolled_back_ops = Cardinality(UndoneSet)

(***************************************************************************)
(* ReplayExact alone is not inductive: what COMMIT applies is `staged', so *)
(* that the invariant has to say what is in it.                            *)
(***************************************************************************)
ReplayInv ==
  /\ TypeOK
  /\ status = "replay" <=> cause = "none"
  /\ in_txn <=> BeginOpen
  /\ status = "replay" => (\E b \in 0 .. Len(log) : StagedFrom(b)) /\ LastExists
  /\ NearestExists
  /\ StoreExact
  /\ CountsExact

-----------------------------------------------------------------------------
(* Reading an entry leaves the earlier ones where they are.  (n is Len(log) *)
(* before the step: a constant, which priming does not change.)            *)
LEMMA ReadLog ==
  ASSUME TypeOK, NEW e \in Entry, Read(e), NEW n, n = Len(log)
  PROVE  /\ n \in Nat /\ DOMAIN log = 1 .. n
         /\ log' \in Seq(Entry) /\ Len(log') = n + 1 /\ DOMAIN log' = 1 .. (n + 1)
         /\ \A i \in 1 .. n : log'[i] = log[i]
         /\ log'[n + 1] = e
<1>1. log \in Seq(Entry) /\ log' = Append(log, e)
  BY DEF TypeOK, Entry, Read
<1> QED
  BY <1>1

(* What the entry changes about the earlier ones: only a control entry     *)
(* changes anything, and only for those behind the last control entry.     *)
LEMMA ReadOld ==
  ASSUME TypeOK, NEW e \in Entry, Read(e), NEW n, n = Len(log), NEW i \in 1 .. n
  PROVE  /\ IsControl(i)' <=> IsControl(i)
         /\ InTransaction(i)' <=> InTransaction(i)
         /\ LastPart(i)' <=> LastPart(i) /\ e.op \notin Controls
         /\ \A c \in 1 .. n : NearestAfter(i, c)' <=> NearestAfter(i, c)
         /\ NearestAfter(i, n + 1)' <=> LastPart(i) /\ e.op \in Controls
<1>1. /\ n \in Nat /\ DOMAIN log = 1 .. n /\ DOMAIN log' = 1 .. (n + 1)
      /\ \A j \in 1 .. n : log'[j] = log[j]
      /\ log'[n + 1] = e
  BY ReadLog
<1>2. /\ \A j \in 1 .. n : IsControl(j)' <=> IsControl(j)
      /\ IsControl(n + 1)' <=> e.op \in Controls
  BY <1>1 DEF IsControl, Controls
<1>3. \A b \in 1 .. n : NearestBefore(i, b)' <=> NearestBefore(i, b)
  BY <1>1, <1>2 DEF NearestBefore
<1>4. ~NearestBefore(i, n + 1)'
  BY <1>1 DEF NearestBefore
<1>5. InTransaction(i)' <=> InTransaction(i)
  BY <1>1, <1>3, <1>4 DEF InTransaction
<1>6. LastPart(i)' <=> LastPart(i) /\ e.op \notin Controls
  BY <1>1, <1>2 DEF LastPart
<1>7. \A c \in 1 .. n : NearestAfter(i, c)' <=> NearestAfter(i, c)
  BY <1>1, <1>2 DEF NearestAfter
<1>8. NearestAfter(i, n + 1)' <=> LastPart(i) /\ e.op \in Controls
  BY <1>1, <1>2 DEF NearestAfter, LastPart
<1> QED
  BY <1>2, <1>5, <1>6, <1>7, <1>8

(* The entry read is the last one, and in the open transaction if any.     *)
LEMMA ReadNew ==
  ASSUME TypeOK, NEW e \in Entry, Read(e), NEW n, n = Len(log)
  PROVE  /\ IsControl(n + 1)' <=> e.op \in Controls
         /\ InTransaction(n + 1)' <=> BeginOpen
         /\ LastPart(n + 1)'
         /\ \A c \in 1 .. (n + 1) : ~NearestAfter(n + 1, c)'
         /\ BeginOpen' <=> IF e.op \in Controls THEN e.op = "BEGIN" ELSE BeginOpen
<1>1. /\ n \in Nat /\ DOMAIN log = 1 .. n /\ DOMAIN log' = 1 .. (n + 1)
      /\ \A j \in 1 .. n : log'[j] = log[j]
      /\ log'[n + 1] = e
  BY ReadLog
<1>2. /\ \A j \in 1 .. n : IsControl(j)' <=> IsControl(j)
      /\ IsControl(n + 1)' <=> e.op \in Controls
  BY <1>1 DEF IsControl, Controls
<1>3. \A b \in 1 .. n : NearestBefore(n + 1, b)' <=> IsControl(b) /\ LastPart(b)
  BY <1>1, <1>2 DEF NearestBefore, LastPart
<1>4. ~NearestBefore(n + 1, n + 1)'
  BY <1>1 DEF NearestBefore
<1>5. InTransaction(n + 1)' <=> BeginOpen
  <2>1. \A b \in 1 .. n : log[b].op = "BEGIN" => IsControl(b)
    BY DEF IsControl, Controls
  <2> QED
    BY <1>1, <1>3, <1>4, <2>1 DEF InTransaction, BeginOpen
<1>6. LastPart(n + 1)' /\ \A c \in 1 .. (n + 1) : ~NearestAfter(n + 1, c)'
  BY <1>1 DEF LastPart, NearestAfter
<1>7. \A b \in 1 .. n : LastPart(b)' <=> LastPart(b) /\ e.op \notin Controls
  BY ReadOld
<1>8. BeginOpen' <=> IF e.op \in Controls THEN e.op = "BEGIN" ELSE BeginOpen
  <2>1. "BEGIN" \in Controls
    BY DEF Controls
  <2> QED
    BY <1>1, <1>6, <1>7, <2>1 DEF BeginOpen
<1> QED
  BY <1>2, <1>5, <1>6, <1>8

(* A control entry closes what is behind the last control entry.           *)
LEMMA ReadClosed ==
  ASSUME TypeOK, NEW e \in Entry, Read(e), NEW n, n = Len(log),
         NEW w \in Controls
  PROVE  /\ \A i \in 1 .. n :
              ClosedBy(i, w)' <=> ClosedBy(i, w) \/ (LastPart(i) /\ e.op = w)
         /\ ~ClosedBy(n + 1, w)'
<1>1. /\ n \in Nat /\ DOMAIN log = 1 .. n /\ DOMAIN log' = 1 .. (n + 1)
      /\ \A j \in 1 .. n : log'[j] = log[j]
      /\ log'[n + 1] = e
  BY ReadLog
<1>2. \A i \in 1 .. n :
        /\ \A c \in 1 .. n : NearestAfter(i, c)' <=> NearestAfter(i, c)
        /\ NearestAfter(i, n + 1)' <=> LastPart(i) /\ e.op \in Controls
  BY ReadOld
<1>3. \A c \in 1 .. (n + 1) : ~NearestAfter(n + 1, c)'
  BY ReadNew
<1> QED
  BY <1>1, <1>2, <1>3 DEF ClosedBy

-----------------------------------------------------------------------------
(* Only an open BEGIN leaves entries open.                                 *)
LEMMA OpenNeedsBegin ==
  ASSUME TypeOK, ~BeginOpen
  PROVE  OpenSet = {}
<1> SUFFICES ASSUME NEW i \in OpenSet PROVE FALSE
  OBVIOUS
<1>1. i \in DOMAIN log /\ ~IsControl(i) /\ InTransaction(i) /\ LastPart(i)
  BY DEF OpenSet
<1>2. PICK b \in DOMAIN log : NearestBefore(i, b) /\ log[b].op = "BEGIN"
  BY <1>1 DEF InTransaction
<1>3. DOMAIN log \in SUBSET Nat
  BY DEF TypeOK
<1>4. LastPart(b)
  <2> SUFFICES ASSUME NEW j \in DOMAIN log, b < j PROVE ~IsControl(j)
    BY DEF LastPart
  <2>1. j \in Nat /\ i \in Nat
    BY <1>1, <1>3
  <2>2. j < i \/ j = i \/ i < j
    BY <2>1
  <2>3. CASE j < i
    BY <1>2, <2>3 DEF NearestBefore
  <2>4. CASE i < j
    BY <1>1, <2>4 DEF LastPart
  <2> QED
    BY <1>1, <2>2, <2>3, <2>4
<1> QED
  BY <1>2, <1>4 DEF BeginOpen

(* What is open is neither in effect nor undone while the replay runs.     *)
LEMMA OpenIsNeither ==
  ASSUME TypeOK
  PROVE  /\ EffectiveSet \cap OpenSet = {}
         /\ cause = "none" => UndoneSet \cap OpenSet = {}
<1>1. \A i \in OpenSet, w \in Controls : ~ClosedBy(i, w)
  BY DEF OpenSet, LastPart, ClosedBy, NearestAfter
<1>2. \A i \in OpenSet : ~Effective(i)
  BY <1>1 DEF OpenSet, Effective, Controls
<1>3. cause = "none" => \A i \in OpenSet : ~Undone(i)
  BY <1>1 DEF OpenSet, Undone, Controls
<1> QED
  BY <1>2, <1>3 DEF EffectiveSet, UndoneSet

(* How an entry moves the entries between the three sets.                  *)
Reclassified(e, n) ==
  /\ EffectiveSet' = EffectiveSet \cup (IF e.op = "COMMIT" THEN OpenSet ELSE {})
                       \cup (IF e.op = "DATA" /\ ~BeginOpen THEN {n + 1} ELSE {})
  /\ UndoneSet' = UndoneSet \cup (IF e.op = "ROLLBACK" THEN OpenSet ELSE {})
  /\ OpenSet' = IF e.op \in Controls THEN {}
                ELSE OpenSet \cup (IF BeginOpen THEN {n + 1} ELSE {})

LEMMA ReadReclassifies ==
  ASSUME TypeOK, cause = "none", NEW e \in Entry, Read(e), NEW n, n = Len(log)
  PROVE  Reclassified(e, n)
<1>1. /\ n \in Nat /\ DOMAIN log = 1 .. n /\ DOMAIN log' = 1 .. (n + 1)
  BY ReadLog
<1>2. \A i \in 1 .. n :
        /\ IsControl(i)' <=> IsControl(i)
        /\ InTransaction(i)' <=> InTransaction(i)
        /\ LastPart(i)' <=> LastPart(i) /\ e.op \notin Controls
  BY ReadOld
<1>3. /\ IsControl(n + 1)' <=> e.op \in Controls
      /\ InTransaction(n + 1)' <=> BeginOpen
      /\ LastPart(n + 1)'
  BY ReadNew
<1>4. "COMMIT" \in Controls /\ "ROLLBACK" \in Controls
  BY DEF Controls
<1>5. \A w \in Controls :
        /\ \A i \in 1 .. n :
             ClosedBy(i, w)' <=> ClosedBy(i, w) \/ (LastPart(i) /\ e.op = w)
        /\ ~ClosedBy(n + 1, w)'
  BY ReadClosed
<1>6. e.op = "DATA" <=> e.op \notin Controls
  BY DEF Entry, Controls
<1>7. \A i \in 1 .. n : Effective(i)' <=> Effective(i) \/ (e.op = "COMMIT" /\ i \in OpenSet)
  BY <1>1, <1>2, <1>4, <1>5 DEF Effective, OpenSet
<1>8. Effective(n + 1)' <=> e.op = "DATA" /\ ~BeginOpen
  BY <1>3, <1>4, <1>5, <1>6 DEF Effective
<1>9. cause' = "none"
  BY DEF Read
<1>10. \A i \in 1 .. n : Undone(i)' <=> Undone(i) \/ (e.op = "ROLLBACK" /\ i \in OpenSet)
  BY <1>1, <1>2, <1>4, <1>5, <1>9 DEF Undone, OpenSet
<1>11. ~Undone(n + 1)'
  BY <1>4, <1>5, <1>9 DEF Undone
<1>12. EffectiveSet' = EffectiveSet \cup (IF e.op = "COMMIT" THEN OpenSet ELSE {})
                         \cup (IF e.op = "DATA" /\ ~BeginOpen THEN {n + 1} ELSE {})
  BY <1>1, <1>7, <1>8 DEF EffectiveSet, OpenSet
<1>13. UndoneSet' = UndoneSet \cup (IF e.op = "ROLLBACK" THEN OpenSet ELSE {})
  BY <1>1, <1>10, <1>11 DEF UndoneSet, OpenSet
<1>14. OpenSet' = IF e.op \in Controls THEN {}
                  ELSE OpenSet \cup (IF BeginOpen THEN {n + 1} ELSE {})
  BY <1>1, <1>2, <1>3 DEF OpenSet
<1> QED
  BY <1>12, <1>13, <1>14 DEF Reclassified

-----------------------------------------------------------------------------
LEMMA SetsFinite ==
  ASSUME TypeOK
  PROVE  /\ EffectiveSet \in SUBSET (1 .. Len(log)) /\ IsFiniteSet(EffectiveSet)
         /\ UndoneSet \in SUBSET (1 .. Len(log)) /\ IsFiniteSet(UndoneSet)
         /\ OpenSet \in SUBSET (1 .. Len(log)) /\ IsFiniteSet(OpenSet)
         /\ Len(log) \in Nat /\ DOMAIN log = 1 .. Len(log)
<1>1. Len(log) \in Nat /\ DOMAIN log = 1 .. Len(log)
  BY DEF TypeOK
<1>2. IsFiniteSet(1 .. Len(log))
  BY <1>1, FS_Interval
<1>3. /\ EffectiveSet \in SUBSET (1 .. Len(log)) /\ UndoneSet \in SUBSET (1 .. Len(log))
      /\ OpenSet \in SUBSET (1 .. Len(log))
  BY <1>1 DEF EffectiveSet, UndoneSet, OpenSet
<1> QED
  BY <1>1, <1>2, <1>3, FS_Subset

LEMMA DisjointCount ==
  ASSUME NEW S, NEW T, IsFiniteSet(S), IsFiniteSet(T), S \cap T = {}
  PROVE  Cardinality(S \cup T) = Cardinality(S) + Cardinality(T)
<1>1. Cardinality(S \cup T) = Cardinality(S) + Cardinality(T) - Cardinality(S \cap T)
  BY FS_Union
<1>2. Cardinality(S \cap T) = 0 /\ Cardinality(S) \in Nat /\ Cardinality(T) \in Nat
  BY FS_EmptySet, FS_CardinalityType
<1> QED
  BY <1>1, <1>2

LEMMA StagedCount ==
  ASSUME ReplayInv, status = "replay"
  PROVE  Len(staged) = Cardinality(OpenSet) /\ Len(staged) \in Nat
<1>1. PICK b \in 0 .. Len(log) : StagedFrom(b)
  BY DEF ReplayInv
<1>2. Len(log) \in Nat /\ Len(staged) \in Nat
  BY DEF ReplayInv, TypeOK
<1>3. Cardinality((b + 1) .. Len(log)) = IF b + 1 > Len(log) THEN 0 ELSE Len(log) - (b + 1) + 1
  <2>1. b + 1 \in Int /\ Len(log) \in Int
    BY <1>2
  <2> QED
    BY <2>1, FS_Interval
<1> QED
  BY <1>1, <1>2, <1>3 DEF StagedFrom

(* Outside a transaction nothing is staged.                                *)
LEMMA NothingStaged ==
  ASSUME ReplayInv, status = "replay", ~in_txn
  PROVE  staged = << >> /\ OpenSet = {}
<1>1. OpenSet = {}
  BY OpenNeedsBegin DEF ReplayInv
<1>2. Cardinality({}) = 0
  BY FS_EmptySet
<1>3. Len(staged) = 0
  BY <1>1, <1>2, StagedCount
<1> QED
  BY <1>1, <1>3 DEF ReplayInv, TypeOK

(* What every read does.                                                   *)
Common(e, n) ==
  /\ status = "replay" /\ cause = "none" /\ status' = "replay" /\ cause' = "none"
  /\ seed' = seed
  /\ n \in Nat /\ DOMAIN log = 1 .. n /\ DOMAIN log' = 1 .. (n + 1)
  /\ log' \in Seq(Entry) /\ Len(log') = n + 1
  /\ \A i \in 1 .. n : log'[i] = log[i]
  /\ log'[n + 1] = e
  /\ Reclassified(e, n)
  /\ BeginOpen' <=> IF e.op \in Controls THEN e.op = "BEGIN" ELSE in_txn
  /\ NearestExists'

LEMMA ReadCommon ==
  ASSUME ReplayInv, NEW e \in Entry, Read(e), NEW n, n = Len(log)
  PROVE  Common(e, n)
<1>1. /\ TypeOK /\ status = "replay" /\ cause = "none"
      /\ status' = "replay" /\ cause' = "none" /\ seed' = seed
  BY DEF ReplayInv, Read
<1>2. /\ n \in Nat /\ DOMAIN log = 1 .. n /\ DOMAIN log' = 1 .. (n + 1)
      /\ log' \in Seq(Entry) /\ Len(log') = n + 1
      /\ \A i \in 1 .. n : log'[i] = log[i]
      /\ log'[n + 1] = e
  BY <1>1, ReadLog
<1>3. Reclassified(e, n)
  BY <1>1, ReadReclassifies
<1>4. /\ LastPart(n + 1)'
      /\ BeginOpen' <=> IF e.op \in Controls THEN e.op = "BEGIN" ELSE BeginOpen
  BY <1>1, ReadNew
<1>5. NearestExists'
  <2>1. \A i \in 1 .. n :
          /\ LastPart(i)' <=> LastPart(i) /\ e.op \notin Controls
          /\ \A c \in 1 .. n : NearestAfter(i, c)' <=> NearestAfter(i, c)
          /\ NearestAfter(i, n + 1)' <=> LastPart(i) /\ e.op \in Controls
    BY <1>1, ReadOld
  <2>2. \A i \in 1 .. n : LastPart(i) \/ \E c \in 1 .. n : NearestAfter(i, c)
    BY <1>2 DEF ReplayInv, NearestExists
  <2>3. \A i \in 1 .. n : LastPart(i)' \/ \E c \in 1 .. (n + 1) : NearestAfter(i, c)'
    <3> TAKE i \in 1 .. n
    <3>1. n + 1 \in 1 .. (n + 1) /\ \A c \in 1 .. n : c \in 1 .. (n + 1)
      BY <1>2
    <3> QED
      BY <2>1, <2>2, <3>1
  <2>4. \A i \in 1 .. (n + 1) : i \in 1 .. n \/ i = n + 1
    BY <1>2
  <2> QED
    BY <1>2, <1>4, <2>3, <2>4 DEF NearestExists
<1> QED
  BY <1>1, <1>2, <1>3, <1>4, <1>5 DEF Common, ReplayInv

(* The store stays right while the effective entries stay the same.        *)
LEMMA StoreKept ==
  ASSUME ReplayInv, NEW e, NEW n, Common(e, n),
         EffectiveSet' = EffectiveSet, committed' = committed
  PROVE  StoreExact'
<1>1. \A k \in Keys : /\ EffectiveOn(k) = {i \in EffectiveSet : log[i].key = k}
                      /\ EffectiveOn(k)' = {i \in EffectiveSet' : log'[i].key = k}
  BY DEF EffectiveOn, EffectiveSet
<1>2. \A i \in EffectiveSet : log'[i] = log[i]
  BY DEF EffectiveSet, Common
<1>3. \A k \in Keys : EffectiveOn(k)' = EffectiveOn(k)
  BY <1>1, <1>2
<1>4. \A k \in Keys : \A i \in EffectiveOn(k) : log'[i] = log[i]
  BY <1>1, <1>2
<1>5. committed' = committed /\ seed' = seed
  BY DEF Common
<1> QED
  BY <1>3, <1>4, <1>5 DEF StoreExact, ReplayInv

(* With nothing open, an empty buffer is the right one.                    *)
LEMMA EmptyStaged ==
  ASSUME NEW n \in Nat, Len(log') = n, OpenSet' = {}, staged' = << >>
  PROVE  ((\E b \in 0 .. Len(log) : StagedFrom(b)) /\ LastExists)'
<1>1. StagedFrom(n)'
  <2>1. (n + 1) .. n = {} /\ n - n = 0
    OBVIOUS
  <2> QED
    BY <2>1 DEF StagedFrom
<1>2. n \in 0 .. Len(log')
  OBVIOUS
<1>3. LastExists'
  BY DEF LastExists
<1> QED
  BY <1>1, <1>2, <1>3

LEMMA Entries ==
  /\ \A c \in Controls : Control(c) \in Entry /\ Control(c).op = c
  /\ \A k \in Keys, v \in Cells :
       /\ Data(k, v) \in Entry /\ Data(k, v).op = "DATA"
       /\ Data(k, v).key = k /\ Data(k, v).bytes = v
  /\ "DATA" \notin Controls
  /\ "BEGIN" \in Controls /\ "COMMIT" \in Controls /\ "ROLLBACK" \in Controls
  BY DEF Control, Data, Entry, Cells, Controls

-----------------------------------------------------------------------------
LEMMA InitReplayInv == Init => ReplayInv
<1> SUFFICES ASSUME Init PROVE ReplayInv
  OBVIOUS
<1>1. log = << >> /\ staged = << >> /\ DOMAIN log = {} /\ Len(log) = 0 /\ Len(staged) = 0
  BY DEF Init
<1>2. TypeOK
  <2>1. << >> \in Seq(StagedOp) /\ << >> \in Seq(Entry)
    OBVIOUS
  <2>2. in_txn \in BOOLEAN
    BY Zenon DEF Init
  <2> QED
    BY <2>1, <2>2 DEF Init, TypeOK, Entry
<1>3. OpenSet = {} /\ EffectiveSet = {} /\ UndoneSet = {} /\ ~BeginOpen
  BY <1>1 DEF OpenSet, EffectiveSet, UndoneSet, BeginOpen
<1>4. StagedFrom(0) /\ 0 \in 0 .. Len(log)
  BY <1>1, <1>3 DEF StagedFrom
<1>5. LastExists /\ NearestExists
  BY <1>1 DEF LastExists, NearestExists
<1>6. StoreExact
  BY <1>1 DEF Init, StoreExact, EffectiveOn
<1>7. CountsExact
  BY <1>3, FS_EmptySet DEF Init, CountsExact
<1> QED
  BY <1>2, <1>3, <1>4, <1>5, <1>6, <1>7 DEF Init, ReplayInv

LEMMA BeginStep ==
  ASSUME ReplayInv, begin
  PROVE  ReplayInv'
<1> DEFINE e == Control("BEGIN")
<1>1. PICK n : n = Len(log)
  OBVIOUS
<1>2. e \in Entry /\ e.op = "BEGIN" /\ e.op \in Controls
  BY Entries
<1>3. /\ Read(e) /\ staged' = << >> /\ in_txn' = TRUE /\ committed' = committed
      /\ committed_ops' = committed_ops /\ rolled_back_ops' = rolled_back_ops
  BY DEF begin
<1> HIDE DEF e
<1>4. Common(e, n)
  BY <1>1, <1>2, <1>3, ReadCommon
<1>5. /\ EffectiveSet' = EffectiveSet /\ UndoneSet' = UndoneSet
      /\ OpenSet' = {} /\ BeginOpen'
  BY <1>2, <1>4 DEF Common, Reclassified
<1>6. StoreExact'
  BY <1>3, <1>4, <1>5, StoreKept
<1>7. TypeOK'
  BY <1>3, <1>4 DEF ReplayInv, TypeOK, Common, Entry
<1>8. CountsExact'
  BY <1>3, <1>5 DEF ReplayInv, CountsExact
<1>9. ((\E b \in 0 .. Len(log) : StagedFrom(b)) /\ LastExists)'
  <2>1. n + 1 \in Nat /\ Len(log') = n + 1
    BY <1>4 DEF Common
  <2> QED
    BY <1>3, <1>5, <2>1, EmptyStaged
<1> QED
  BY <1>3, <1>4, <1>5, <1>6, <1>7, <1>8, <1>9 DEF ReplayInv, Common

LEMMA StrayStep ==
  ASSUME ReplayInv, NEW c \in {"COMMIT", "ROLLBACK"}, stray(c)
  PROVE  ReplayInv'
<1> DEFINE e == Control(c)
<1>1. PICK n : n = Len(log)
  OBVIOUS
<1>2. e \in Entry /\ e.op = c /\ e.op \in Controls
  BY Entries DEF Controls
<1>3. /\ Read(e) /\ ~in_txn /\ staged' = staged /\ in_txn' = in_txn
      /\ committed' = committed /\ committed_ops' = committed_ops
      /\ rolled_back_ops' = rolled_back_ops
  BY DEF stray
<1> HIDE DEF e
<1>4. Common(e, n)
  BY <1>1, <1>2, <1>3, ReadCommon
<1>5. staged = << >> /\ OpenSet = {}
  BY <1>3, <1>4, NothingStaged DEF Common
<1>6. /\ EffectiveSet' = EffectiveSet /\ UndoneSet' = UndoneSet
      /\ OpenSet' = {} /\ ~BeginOpen'
  BY <1>2, <1>4, <1>5 DEF Common, Reclassified
<1>7. StoreExact'
  BY <1>3, <1>4, <1>6, StoreKept
<1>8. TypeOK'
  BY <1>3, <1>4 DEF ReplayInv, TypeOK, Common, Entry
<1>9. CountsExact'
  BY <1>3, <1>6 DEF ReplayInv, CountsExact
<1>10. ((\E b \in 0 .. Len(log) : StagedFrom(b)) /\ LastExists)'
  <2>1. n + 1 \in Nat /\ Len(log') = n + 1
    BY <1>4 DEF Common
  <2> QED
    BY <1>3, <1>5, <1>6, <2>1, EmptyStaged
<1> QED
  BY <1>3, <1>4, <1>6, <1>7, <1>8, <1>9, <1>10 DEF ReplayInv, Common

LEMMA RollbackStep ==
  ASSUME ReplayInv, rollback
  PROVE  ReplayInv'
<1> DEFINE e == Control("ROLLBACK")
<1>1. PICK n : n = Len(log)
  OBVIOUS
<1>2. e \in Entry /\ e.op = "ROLLBACK" /\ e.op \in Controls
  BY Entries
<1>3. /\ Read(e) /\ staged' = << >> /\ in_txn' = FALSE
      /\ committed' = committed /\ committed_ops' = committed_ops
      /\ rolled_back_ops' = rolled_back_ops + Len(staged)
  BY DEF rollback
<1> HIDE DEF e
<1>4. Common(e, n)
  BY <1>1, <1>2, <1>3, ReadCommon
<1>5. /\ EffectiveSet' = EffectiveSet /\ UndoneSet' = UndoneSet \cup OpenSet
      /\ OpenSet' = {} /\ ~BeginOpen'
  BY <1>2, <1>4 DEF Common, Reclassified
<1>6. StoreExact'
  BY <1>3, <1>4, <1>5, StoreKept
<1>7. Len(staged) = Cardinality(OpenSet) /\ Len(staged) \in Nat
  BY <1>4, StagedCount DEF Common
<1>8. TypeOK'
  <2>1. << >> \in Seq(StagedOp) /\ rolled_back_ops + Len(staged) \in Nat
    BY <1>7 DEF ReplayInv, TypeOK
  <2>2. in_txn' \in BOOLEAN
    BY <1>3, Zenon
  <2> QED
    BY <1>3, <1>4, <2>1, <2>2 DEF ReplayInv, TypeOK, Common, Entry
<1>9. CountsExact'
  <2>1. Cardinality(UndoneSet \cup OpenSet) = Cardinality(UndoneSet) + Cardinality(OpenSet)
    <3>1. TypeOK /\ cause = "none"
      BY <1>4 DEF ReplayInv, Common
    <3> QED
      BY <3>1, OpenIsNeither, SetsFinite, DisjointCount
  <2> QED
    BY <1>3, <1>5, <1>7, <2>1 DEF ReplayInv, CountsExact
<1>10. ((\E b \in 0 .. Len(log) : StagedFrom(b)) /\ LastExists)'
  <2>1. n + 1 \in Nat /\ Len(log') = n + 1
    BY <1>4 DEF Common
  <2> QED
    BY <1>3, <1>5, <2>1, EmptyStaged
<1> QED
  BY <1>3, <1>4, <1>5, <1>6, <1>8, <1>9, <1>10 DEF ReplayInv, Common

LEMMA StageStep ==
  ASSUME ReplayInv, NEW k \in Keys, NEW v \in Cells, stage(k, v)
  PROVE  ReplayInv'
<1> DEFINE e == Data(k, v)
           r == [key |-> k, bytes |-> v]
<1>1. PICK n : n = Len(log)
  OBVIOUS
<1>2. /\ e \in Entry /\ e.op = "DATA" /\ e.op \notin Controls
      /\ e.key = k /\ e.bytes = v
  BY Entries
<1>3. /\ Read(e) /\ in_txn /\ staged' = Append(staged, r) /\ in_txn' = in_txn
      /\ committed' = committed /\ committed_ops' = committed_ops
      /\ rolled_back_ops' = rolled_back_ops
  BY DEF stage
<1>4. r \in StagedOp /\ r.key = k /\ r.bytes = v
  BY DEF StagedOp
<1> HIDE DEF e, r
<1>5. Common(e, n)
  BY <1>1, <1>2, <1>3, ReadCommon
<1>6. /\ EffectiveSet' = EffectiveSet /\ UndoneSet' = UndoneSet
      /\ OpenSet' = OpenSet \cup {n + 1} /\ BeginOpen'
  <2>1. BeginOpen
    BY <1>3 DEF ReplayInv
  <2> QED
    BY <1>2, <1>3, <1>5, <2>1 DEF Common, Reclassified
<1>7. StoreExact'
  BY <1>3, <1>5, <1>6, StoreKept
<1>8. PICK m : m = Len(staged)
  OBVIOUS
<1>9. /\ m \in Nat /\ Len(staged) = m /\ DOMAIN staged = 1 .. m
      /\ staged' \in Seq(StagedOp)
      /\ Len(staged') = m + 1 /\ DOMAIN staged' = 1 .. (m + 1)
      /\ \A i \in 1 .. m : staged'[i] = staged[i]
      /\ staged'[m + 1] = r
  <2>1. staged \in Seq(StagedOp)
    BY DEF ReplayInv, TypeOK
  <2> QED
    BY <1>3, <1>4, <1>8, <2>1
<1>10. TypeOK'
  BY <1>3, <1>5, <1>9 DEF ReplayInv, TypeOK, Common, Entry
<1>11. CountsExact'
  BY <1>3, <1>6 DEF ReplayInv, CountsExact
<1>12. \E b \in 0 .. Len(log') : StagedFrom(b)'
  <2>1. PICK b \in 0 .. n : StagedFrom(b)
    BY <1>1, <1>5 DEF ReplayInv, Common
  <2>2. n \in Nat /\ Len(log') = n + 1 /\ log'[n + 1] = e
        /\ \A i \in 1 .. n : log'[i] = log[i]
    BY <1>5 DEF Common
  <2>3. m = n - b /\ OpenSet = (b + 1) .. n
    BY <1>1, <1>9, <2>1 DEF StagedFrom
  <2>4. OpenSet' = (b + 1) .. (n + 1) /\ m + 1 = (n + 1) - b
    BY <1>6, <2>2, <2>3
  <2>5. \A i \in 1 .. (m + 1) :
          staged'[i].key = log'[b + i].key /\ staged'[i].bytes = log'[b + i].bytes
    <3> TAKE i \in 1 .. (m + 1)
    <3>1. CASE i = m + 1
      <4>1. b + i = n + 1
        BY <2>2, <2>3, <3>1
      <4>2. staged'[i] = r /\ log'[b + i] = e
        BY <1>9, <2>2, <3>1, <4>1
      <4> QED
        BY <1>2, <1>4, <4>2
    <3>2. CASE i \in 1 .. m
      <4>1. b + i \in 1 .. n
        BY <2>2, <2>3, <3>2
      <4>2. staged[i].key = log[b + i].key /\ staged[i].bytes = log[b + i].bytes
        BY <1>9, <2>1, <3>2 DEF StagedFrom
      <4> QED
        BY <1>9, <2>2, <3>2, <4>1, <4>2
    <3> QED
      BY <1>9, <3>1, <3>2
  <2>6. StagedFrom(b)'
    BY <1>9, <2>2, <2>4, <2>5 DEF StagedFrom
  <2> QED
    BY <2>2, <2>6
<1>13. LastExists'
  <2> SUFFICES ASSUME NEW q \in Keys, \E i \in DOMAIN staged' : staged'[i].key = q
               PROVE  \E i \in DOMAIN staged' : /\ staged'[i].key = q
                        /\ \A j \in DOMAIN staged' : staged'[j].key = q => j <= i
    BY DEF LastExists
  <2>1. CASE q = k
    <3>1. m + 1 \in 1 .. (m + 1) /\ \A j \in 1 .. (m + 1) : j <= m + 1
      BY <1>9
    <3> QED
      BY <1>4, <1>9, <2>1, <3>1
  <2>2. CASE q # k
    <3>1. \A i \in 1 .. (m + 1) : staged'[i].key = q => i \in 1 .. m /\ staged[i].key = q
      <4> TAKE i \in 1 .. (m + 1)
      <4>1. (i = m + 1 /\ staged'[i] = r) \/ (i \in 1 .. m /\ staged'[i] = staged[i])
        BY <1>9
      <4> QED
        BY <1>4, <2>2, <4>1
    <3>2. \E i \in DOMAIN staged : staged[i].key = q
      BY <1>9, <3>1
    <3>3. PICK i \in DOMAIN staged :
            staged[i].key = q /\ \A j \in DOMAIN staged : staged[j].key = q => j <= i
      BY <1>5, <3>2 DEF ReplayInv, LastExists, Common
    <3>4. i \in DOMAIN staged' /\ staged'[i].key = q
      BY <1>9, <3>3
    <3>5. \A j \in DOMAIN staged' : staged'[j].key = q => j <= i
      BY <1>9, <3>1, <3>3
    <3> QED
      BY <3>4, <3>5
  <2> QED
    BY <2>1, <2>2
<1> QED
  BY <1>3, <1>5, <1>6, <1>7, <1>10, <1>11, <1>12, <1>13 DEF ReplayInv, Common

LEMMA AutoCommitStep ==
  ASSUME ReplayInv, NEW k \in Keys, NEW v \in Cells, auto_commit(k, v)
  PROVE  ReplayInv'
<1> DEFINE e == Data(k, v)
<1>1. PICK n : n = Len(log)
  OBVIOUS
<1>2. /\ e \in Entry /\ e.op = "DATA" /\ e.op \notin Controls
      /\ e.key = k /\ e.bytes = v
  BY Entries
<1>3. /\ Read(e) /\ ~in_txn /\ staged' = staged /\ in_txn' = in_txn
      /\ committed' = [committed EXCEPT ![k] = v]
      /\ committed_ops' = committed_ops + 1
      /\ rolled_back_ops' = rolled_back_ops
  BY DEF auto_commit
<1> HIDE DEF e
<1>4. Common(e, n)
  BY <1>1, <1>2, <1>3, ReadCommon
<1>5. staged = << >> /\ OpenSet = {}
  BY <1>3, <1>4, NothingStaged DEF Common
<1>6. /\ EffectiveSet' = EffectiveSet \cup {n + 1} /\ UndoneSet' = UndoneSet
      /\ OpenSet' = {} /\ ~BeginOpen'
  <2>1. ~BeginOpen
    BY <1>3 DEF ReplayInv
  <2> QED
    BY <1>2, <1>3, <1>4, <1>5, <2>1 DEF Common, Reclassified
<1>7. EffectiveSet \in SUBSET (1 .. n) /\ IsFiniteSet(EffectiveSet) /\ n \in Nat
  BY <1>1, SetsFinite DEF ReplayInv
<1>8. committed \in [Keys -> Cells] /\ committed' \in [Keys -> Cells]
  BY <1>3 DEF ReplayInv, TypeOK, Store
<1>9. StoreExact'
  <2> SUFFICES ASSUME NEW q \in Keys
               PROVE  \/ EffectiveOn(q)' = {} /\ committed'[q] = seed'[q]
                      \/ \E i \in EffectiveOn(q)' :
                           /\ \A j \in EffectiveOn(q)' : j <= i
                           /\ committed'[q] = log'[i].bytes
    BY DEF StoreExact
  <2>1. /\ EffectiveOn(q) = {i \in EffectiveSet : log[i].key = q}
        /\ EffectiveOn(q)' = {i \in EffectiveSet' : log'[i].key = q}
    BY DEF EffectiveOn, EffectiveSet
  <2>2. /\ \A i \in EffectiveSet : log'[i] = log[i] /\ i <= n + 1
        /\ log'[n + 1] = e /\ seed' = seed
    BY <1>4, <1>7 DEF Common
  <2>3. CASE q = k
    <3>1. n + 1 \in EffectiveOn(q)'
      BY <1>2, <1>6, <2>1, <2>2, <2>3
    <3>2. \A j \in EffectiveOn(q)' : j <= n + 1
      <4>1. \A j \in EffectiveSet' : j <= n + 1
        BY <1>6, <1>7
      <4> QED
        BY <2>1, <4>1
    <3>3. committed'[q] = log'[n + 1].bytes
      BY <1>2, <1>3, <1>8, <2>2, <2>3
    <3> QED
      BY <3>1, <3>2, <3>3
  <2>4. CASE q # k
    <3>1. EffectiveOn(q)' = EffectiveOn(q)
      BY <1>2, <1>6, <2>1, <2>2, <2>4
    <3>2. committed'[q] = committed[q]
      BY <1>3, <1>8, <2>4
    <3>3. \A i \in EffectiveOn(q) : log'[i] = log[i]
      BY <2>1, <2>2
    <3> QED
      BY <2>2, <3>1, <3>2, <3>3 DEF ReplayInv, StoreExact
  <2> QED
    BY <2>3, <2>4
<1>10. TypeOK'
  BY <1>3, <1>4, <1>8 DEF ReplayInv, TypeOK, Common, Entry, Store
<1>11. CountsExact'
  <2>1. n + 1 \notin EffectiveSet
    BY <1>7
  <2>2. Cardinality(EffectiveSet \cup {n + 1}) = Cardinality(EffectiveSet) + 1
    BY <1>7, <2>1, FS_AddElement
  <2> QED
    BY <1>3, <1>6, <2>2 DEF ReplayInv, CountsExact
<1>12. ((\E b \in 0 .. Len(log) : StagedFrom(b)) /\ LastExists)'
  <2>1. n + 1 \in Nat /\ Len(log') = n + 1
    BY <1>4 DEF Common
  <2> QED
    BY <1>3, <1>5, <1>6, <2>1, EmptyStaged
<1> QED
  BY <1>3, <1>4, <1>6, <1>9, <1>10, <1>11, <1>12 DEF ReplayInv, Common

(* ApplyAll writes, to every key, the last op staged on it.                *)
LEMMA ApplyAllExact ==
  ASSUME LastExists, NEW st, NEW k \in Keys
  PROVE  \/ /\ \A i \in DOMAIN staged : staged[i].key # k
            /\ ApplyAll(st, staged)[k] = st[k]
         \/ \E i \in DOMAIN staged :
              /\ staged[i].key = k
              /\ \A j \in DOMAIN staged : staged[j].key = k => j <= i
              /\ ApplyAll(st, staged)[k] = staged[i].bytes
<1>1. CASE \A i \in DOMAIN staged : staged[i].key # k
  BY <1>1 DEF ApplyAll
<1>2. CASE \E i \in DOMAIN staged : staged[i].key = k
  <2>1. \E i \in DOMAIN staged :
          staged[i].key = k /\ \A j \in DOMAIN staged : staged[j].key = k => j <= i
    BY <1>2 DEF LastExists
  <2>2. /\ LastOn(staged, k) \in DOMAIN staged
        /\ staged[LastOn(staged, k)].key = k
        /\ \A j \in DOMAIN staged : staged[j].key = k => j <= LastOn(staged, k)
    BY <2>1 DEF LastOn
  <2>3. ApplyAll(st, staged)[k] = staged[LastOn(staged, k)].bytes
    BY <1>2 DEF ApplyAll
  <2> QED
    BY <2>2, <2>3
<1> QED
  BY <1>1, <1>2

LEMMA CommitStep ==
  ASSUME ReplayInv, commit
  PROVE  ReplayInv'
<1> DEFINE e == Control("COMMIT")
<1>1. PICK n : n = Len(log)
  OBVIOUS
<1>2. e \in Entry /\ e.op = "COMMIT" /\ e.op \in Controls
  BY Entries
<1>3. /\ Read(e) /\ staged' = << >> /\ in_txn' = FALSE
      /\ committed' = ApplyAll(committed, staged)
      /\ committed_ops' = committed_ops + Len(staged)
      /\ rolled_back_ops' = rolled_back_ops
  BY DEF commit
<1> HIDE DEF e
<1>4. Common(e, n)
  BY <1>1, <1>2, <1>3, ReadCommon
<1>5. /\ EffectiveSet' = EffectiveSet \cup OpenSet /\ UndoneSet' = UndoneSet
      /\ OpenSet' = {} /\ ~BeginOpen'
  BY <1>2, <1>4 DEF Common, Reclassified
<1>6. /\ EffectiveSet \in SUBSET (1 .. n) /\ IsFiniteSet(EffectiveSet)
      /\ OpenSet \in SUBSET (1 .. n) /\ IsFiniteSet(OpenSet)
      /\ EffectiveSet \cap OpenSet = {}
  BY <1>1, SetsFinite, OpenIsNeither DEF ReplayInv
<1>7. Len(staged) = Cardinality(OpenSet) /\ Len(staged) \in Nat
  BY <1>4, StagedCount DEF Common
<1>8. PICK b \in 0 .. n : StagedFrom(b)
  BY <1>1, <1>4 DEF ReplayInv, Common
<1>9. /\ OpenSet = (b + 1) .. n /\ Len(staged) = n - b /\ n \in Nat
      /\ DOMAIN staged = 1 .. (n - b)
      /\ \A i \in 1 .. (n - b) :
           staged[i].key = log[b + i].key /\ staged[i].bytes = log[b + i].bytes
  <2>1. staged \in Seq(StagedOp) /\ n \in Nat
    BY <1>4 DEF ReplayInv, TypeOK, Common
  <2>2. DOMAIN staged = 1 .. Len(staged)
    BY <2>1
  <2>3. Len(staged) = n - b /\ OpenSet = (b + 1) .. n
    BY <1>1, <1>8 DEF StagedFrom
  <2>4. \A i \in 1 .. Len(staged) :
           staged[i].key = log[b + i].key /\ staged[i].bytes = log[b + i].bytes
    BY <1>8 DEF StagedFrom
  <2> QED
    BY <2>1, <2>2, <2>3, <2>4
<1>10. StoreExact'
  <2> SUFFICES ASSUME NEW q \in Keys
               PROVE  \/ EffectiveOn(q)' = {} /\ committed'[q] = seed'[q]
                      \/ \E i \in EffectiveOn(q)' :
                           /\ \A j \in EffectiveOn(q)' : j <= i
                           /\ committed'[q] = log'[i].bytes
    BY DEF StoreExact
  <2>1. /\ EffectiveOn(q) = {i \in EffectiveSet : log[i].key = q}
        /\ EffectiveOn(q)' = {i \in EffectiveSet' : log'[i].key = q}
    BY DEF EffectiveOn, EffectiveSet
  <2>2. (\A i \in 1 .. n : log'[i] = log[i]) /\ seed' = seed
    BY <1>4 DEF Common
  <2>3. EffectiveOn(q)' = EffectiveOn(q) \cup {i \in OpenSet : log[i].key = q}
    BY <1>5, <1>6, <2>1, <2>2
  <2>4. LastExists
    BY <1>4 DEF ReplayInv, Common
  <2>5. \A i \in OpenSet : i - b \in 1 .. (n - b) /\ b + (i - b) = i
    BY <1>9
  <2>6. CASE /\ \A i \in DOMAIN staged : staged[i].key # q
             /\ committed'[q] = committed[q]
    <3>1. {i \in OpenSet : log[i].key = q} = {}
      <4> SUFFICES ASSUME NEW i \in OpenSet, log[i].key = q PROVE FALSE
        OBVIOUS
      <4>1. staged[i - b].key = log[b + (i - b)].key /\ i - b \in DOMAIN staged
        BY <1>9, <2>5
      <4> QED
        BY <2>5, <2>6, <4>1
    <3>2. EffectiveOn(q)' = EffectiveOn(q)
      BY <2>3, <3>1
    <3>3. \A i \in EffectiveOn(q) : log'[i] = log[i]
      BY <1>6, <2>1, <2>2
    <3> QED
      BY <2>2, <2>6, <3>2, <3>3 DEF ReplayInv, StoreExact
  <2>7. ASSUME NEW m \in DOMAIN staged, staged[m].key = q,
               \A j \in DOMAIN staged : staged[j].key = q => j <= m,
               committed'[q] = staged[m].bytes
        PROVE  \E i \in EffectiveOn(q)' : /\ \A j \in EffectiveOn(q)' : j <= i
                                         /\ committed'[q] = log'[i].bytes
    <3>1. /\ m \in 1 .. (n - b) /\ b + m \in OpenSet /\ b + m \in 1 .. n
          /\ log[b + m].key = q /\ log[b + m].bytes = committed'[q]
      BY <1>9, <2>7
    <3>2. b + m \in EffectiveOn(q)' /\ committed'[q] = log'[b + m].bytes
      BY <2>2, <2>3, <3>1
    <3>3. \A j \in EffectiveOn(q) : j <= b + m
      <4> TAKE j \in EffectiveOn(q)
      <4>1. j \in 1 .. n /\ j \notin (b + 1) .. n
        BY <1>6, <1>9, <2>1
      <4> QED
        BY <1>9, <3>1, <4>1
    <3>4. \A j \in OpenSet : log[j].key = q => j <= b + m
      <4> SUFFICES ASSUME NEW j \in OpenSet, log[j].key = q PROVE j <= b + m
        OBVIOUS
      <4>1. j - b \in DOMAIN staged /\ staged[j - b].key = log[b + (j - b)].key
        BY <1>9, <2>5
      <4>2. j - b <= m
        BY <2>5, <2>7, <4>1
      <4> QED
        BY <1>9, <3>1, <4>2
    <3> QED
      BY <2>3, <3>2, <3>3, <3>4
  <2>8. \/ /\ \A i \in DOMAIN staged : staged[i].key # q
           /\ committed'[q] = committed[q]
        \/ \E i \in DOMAIN staged :
             /\ staged[i].key = q
             /\ \A j \in DOMAIN staged : staged[j].key = q => j <= i
             /\ committed'[q] = staged[i].bytes
    BY <1>3, <2>4, ApplyAllExact
  <2> QED
    BY <2>6, <2>7, <2>8
<1>11. TypeOK'
  <2>1. << >> \in Seq(StagedOp) /\ committed_ops + Len(staged) \in Nat
    BY <1>7 DEF ReplayInv, TypeOK
  <2>2. in_txn' \in BOOLEAN
    BY <1>3, Zenon
  <2>3. ApplyAll(committed, staged) \in Store
    <3>1. staged \in Seq(StagedOp) /\ committed \in [Keys -> Cells]
      BY DEF ReplayInv, TypeOK, Store
    <3>2. \A i \in DOMAIN staged : staged[i].bytes \in Cells
      <4>1. \A i \in DOMAIN staged : staged[i] \in StagedOp
        BY <3>1
      <4> QED
        BY <4>1 DEF StagedOp
    <3>3. LastExists
      BY <1>4 DEF ReplayInv, Common
    <3>4. \A k \in Keys : ApplyAll(committed, staged)[k] \in Cells
      BY <3>1, <3>2, <3>3, ApplyAllExact
    <3> QED
      BY <3>4 DEF ApplyAll, Store
  <2> QED
    BY <1>3, <1>4, <2>1, <2>2, <2>3 DEF ReplayInv, TypeOK, Common, Entry
<1>12. CountsExact'
  <2>1. Cardinality(EffectiveSet \cup OpenSet) = Cardinality(EffectiveSet) + Cardinality(OpenSet)
    BY <1>6, DisjointCount
  <2> QED
    BY <1>3, <1>5, <1>7, <2>1 DEF ReplayInv, CountsExact
<1>13. ((\E d \in 0 .. Len(log) : StagedFrom(d)) /\ LastExists)'
  <2>1. n + 1 \in Nat /\ Len(log') = n + 1
    BY <1>4 DEF Common
  <2> QED
    BY <1>3, <1>5, <2>1, EmptyStaged
<1> QED
  BY <1>3, <1>4, <1>5, <1>10, <1>11, <1>12, <1>13 DEF ReplayInv, Common

(* The end of the replay undoes what is open.                              *)
LEMMA FinishStep ==
  ASSUME ReplayInv, NEW why \in {"eof", "unknown_op"}, Finish(why)
  PROVE  ReplayInv'
<1>1. /\ status = "replay" /\ cause = "none" /\ TypeOK
      /\ cause' = why /\ status' \in {"failed", "done"} /\ staged' = << >>
      /\ rolled_back_ops' = rolled_back_ops + (IF in_txn THEN Len(staged) ELSE 0)
      /\ committed' = committed /\ in_txn' = in_txn /\ log' = log /\ seed' = seed
      /\ committed_ops' = committed_ops
  BY DEF Finish, ReplayInv
<1>2. \A i \in DOMAIN log :
        /\ IsControl(i)' <=> IsControl(i)
        /\ InTransaction(i)' <=> InTransaction(i)
        /\ LastPart(i)' <=> LastPart(i)
        /\ \A c \in DOMAIN log : NearestAfter(i, c)' <=> NearestAfter(i, c)
        /\ \A w \in Controls : ClosedBy(i, w)' <=> ClosedBy(i, w)
  BY <1>1 DEF IsControl, InTransaction, NearestBefore, LastPart, NearestAfter, ClosedBy
<1>3. "COMMIT" \in Controls /\ "ROLLBACK" \in Controls
  BY Entries
<1>4. \A i \in DOMAIN log : Effective(i)' <=> Effective(i)
  BY <1>2, <1>3 DEF Effective
<1>5. EffectiveSet' = EffectiveSet /\ \A k \in Keys : EffectiveOn(k)' = EffectiveOn(k)
  BY <1>1, <1>4 DEF EffectiveSet, EffectiveOn
<1>6. UndoneSet' = UndoneSet \cup OpenSet
  <2>1. \A i \in DOMAIN log : LastPart(i) <=> \A c \in DOMAIN log : ~NearestAfter(i, c)
    BY DEF ReplayInv, NearestExists, LastPart, NearestAfter
  <2>2. \A i \in DOMAIN log : Undone(i)' <=> Undone(i) \/ i \in OpenSet
    BY <1>1, <1>2, <1>3, <2>1 DEF Undone, OpenSet
  <2> QED
    BY <1>1, <2>2 DEF UndoneSet, OpenSet
<1>7. Len(staged) = Cardinality(OpenSet) /\ Len(staged) \in Nat
  BY <1>1, StagedCount
<1>8. rolled_back_ops' = rolled_back_ops + Len(staged)
  <2>1. ~in_txn => Len(staged) = 0
    BY <1>1, NothingStaged
  <2> QED
    BY <1>1, <2>1
<1>9. CountsExact'
  <2>1. Cardinality(UndoneSet \cup OpenSet) = Cardinality(UndoneSet) + Cardinality(OpenSet)
    BY <1>1, OpenIsNeither, SetsFinite, DisjointCount
  <2> QED
    BY <1>1, <1>5, <1>6, <1>7, <1>8, <2>1 DEF ReplayInv, CountsExact
<1>10. StoreExact'
  BY <1>1, <1>5 DEF ReplayInv, StoreExact
<1>11. NearestExists' /\ (BeginOpen' <=> BeginOpen)
  BY <1>1, <1>2 DEF ReplayInv, NearestExists, BeginOpen
<1>12. TypeOK'
  <2>1. << >> \in Seq(StagedOp) /\ rolled_back_ops' \in Nat
    BY <1>1, <1>7, <1>8 DEF TypeOK
  <2> QED
    BY <1>1, <2>1 DEF TypeOK
<1>13. status' # "replay" /\ cause' # "none"
  BY <1>1
<1> QED
  BY <1>1, <1>9, <1>10, <1>11, <1>12, <1>13 DEF ReplayInv

(* An entry cut short leaves everything as it is.                          *)
LEMMA ShortReadStep ==
  ASSUME ReplayInv, short_read
  PROVE  ReplayInv'
<1>1. /\ cause = "none" /\ status' = "failed" /\ cause' = "short_read"
      /\ committed' = committed /\ in_txn' = in_txn /\ staged' = staged
      /\ committed_ops' = committed_ops /\ rolled_back_ops' = rolled_back_ops
      /\ log' = log /\ seed' = seed
  BY DEF short_read, ReplayInv
<1>2. TypeOK'
  BY <1>1 DEF ReplayInv, TypeOK
<1>3. /\ EffectiveSet' = EffectiveSet /\ NearestExists' /\ (BeginOpen' <=> BeginOpen)
      /\ StoreExact'
  BY <1>1 DEF ReplayInv, EffectiveSet, NearestExists, BeginOpen, StoreExact, EffectiveOn,
              Effective, InTransaction, ClosedBy, NearestBefore, NearestAfter, LastPart,
              IsControl
<1>4. UndoneSet' = UndoneSet
  <2>1. \A i \in DOMAIN log : Undone(i)' <=> Undone(i)
    BY <1>1 DEF Undone, InTransaction, ClosedBy, NearestBefore, NearestAfter, IsControl
  <2> QED
    BY <1>1, <2>1 DEF UndoneSet
<1>5. CountsExact'
  BY <1>1, <1>3, <1>4 DEF ReplayInv, CountsExact
<1> QED
  BY <1>1, <1>2, <1>3, <1>5 DEF ReplayInv

LEMMA NextReplayInv == ReplayInv /\ [Next]_vars => ReplayInv'
<1> SUFFICES ASSUME ReplayInv, [Next]_vars PROVE ReplayInv'
  OBVIOUS
<1>1. CASE Next
  <2>1. CASE end_of_file \/ unknown_op
    BY <2>1, FinishStep DEF end_of_file, unknown_op
  <2>2. CASE \E k \in Keys, v \in Cells : stage(k, v) \/ auto_commit(k, v)
    BY <2>2, StageStep, AutoCommitStep
  <2>3. CASE \E c \in {"COMMIT", "ROLLBACK"} : stray(c)
    BY <2>3, StrayStep
  <2> QED
    BY <1>1, <2>1, <2>2, <2>3, BeginStep, CommitStep, RollbackStep, ShortReadStep DEF Next
<1>2. CASE UNCHANGED vars
  <2> USE <1>2 DEF vars
  <2>1. TypeOK' <=> TypeOK
    BY DEF TypeOK
  <2>2. /\ EffectiveSet' = EffectiveSet /\ UndoneSet' = UndoneSet /\ OpenSet' = OpenSet
        /\ \A k \in Keys : EffectiveOn(k)' = EffectiveOn(k)
    BY DEF EffectiveSet, UndoneSet, OpenSet, EffectiveOn, Effective, Undone, InTransaction,
           ClosedBy, NearestBefore, NearestAfter, LastPart, IsControl
  <2>3. (NearestExists' <=> NearestExists) /\ (BeginOpen' <=> BeginOpen)
    BY DEF NearestExists, BeginOpen, NearestAfter, LastPart, IsControl
  <2>4. (\A b : StagedFrom(b)' <=> StagedFrom(b)) /\ (LastExists' <=> LastExists)
    BY <2>2 DEF StagedFrom, LastExists
  <2>5. (StoreExact' <=> StoreExact) /\ (CountsExact' <=> CountsExact)
    BY <2>2 DEF StoreExact, CountsExact
  <2> QED
    BY <2>1, <2>3, <2>4, <2>5 DEF ReplayInv
<1> QED
  BY <1>1, <1>2

LEMMA ReplayInvariant == Spec => []ReplayInv
  BY InitReplayInv, NextReplayInv, PTL DEF Spec

-----------------------------------------------------------------------------
(* replay_journal keeps its state well formed on every journal.            *)
THEOREM ReplayTypeCorrect == Spec => []TypeOK
<1>1. ReplayInv => TypeOK
  BY DEF ReplayInv
<1> QED
  BY <1>1, ReplayInvariant, PTL

(* At every point of every journal, the store holds for each key what the  *)
(* last effective entry wrote, and committed_ops and rolled_back_ops count *)
(* the entries in effect and those undone (replay_journal, journal.cpp).   *)
THEOREM ReplayExactAlways == Spec => []ReplayExact
<1>1. ReplayInv => ReplayExact
  BY DEF ReplayInv, StoreExact, CountsExact, EffectiveSet, UndoneSet, ReplayExact
<1> QED
  BY <1>1, ReplayInvariant, PTL

-----------------------------------------------------------------------------
(* Induction over the naturals, stated of a set.                           *)
LEMMA LeastNat ==
  ASSUME NEW T \in SUBSET Nat, T # {}
  PROVE  \E n \in T : \A k \in T : n <= k
<1>1. IsWellFoundedOn(OpToRel(<, Nat), Nat)
  BY NatLessThanWellFounded
<1>2. \A k, n \in Nat : k < n => << k, n >> \in OpToRel(<, Nat)
  BY DEF OpToRel
<1>3. PICK R : R = OpToRel(<, Nat)
  OBVIOUS
<1>4. \A k, n \in Nat : k < n => << k, n >> \in R
  BY <1>2, <1>3, Zenon
<1>5. IsWellFoundedOn(R, Nat) /\ T \subseteq Nat
  BY <1>1, <1>3, Zenon
<1>6. \E n \in T : \A k \in T : ~(<< k, n >> \in R)
  BY <1>5, WFMin, Zenon
<1>7. \A k, n \in T : ~(k < n) => n <= k
  OBVIOUS
<1>8. \A k \in T : k \in Nat
  OBVIOUS
<1> QED
  BY <1>4, <1>6, <1>7, <1>8, Zenon

LEMMA SetInduction ==
  ASSUME NEW S, 0 \in S, \A n \in Nat : n \in S => n + 1 \in S
  PROVE  \A n \in Nat : n \in S
<1> DEFINE T == Nat \ S
<1>1. SUFFICES T = {}
  OBVIOUS
<1>2. SUFFICES ASSUME T # {} PROVE FALSE
  OBVIOUS
<1>3. PICK n \in T : \A k \in T : n <= k
  BY <1>2, LeastNat
<1>4. n # 0 /\ n - 1 \in Nat /\ n - 1 \notin T /\ n = (n - 1) + 1
  BY <1>3
<1> QED
  BY <1>4

-----------------------------------------------------------------------------
(* The record cursor.                                                      *)
LEMMA BeforeOrder ==
  /\ \A a \in Locators : ~Before(a, a)
  /\ \A a, b, c \in Locators : Before(a, b) /\ Before(b, c) => Before(a, c)
  /\ \A a, b \in Locators : a = b \/ Before(a, b) \/ Before(b, a)
BY CursorAssumption DEF Before

LEMMA LeastExists ==
  ASSUME NEW keys \in SUBSET Locators, keys # {}
  PROVE  \E k \in keys : Least(keys) = {k} /\ \A j \in keys : j = k \/ Before(k, j)
<1> DEFINE P == {k[1] : k \in keys}
<1>1. P \in SUBSET Nat /\ P # {}
  BY CursorAssumption
<1>2. PICK p \in P : \A q \in P : p <= q
  BY <1>1, LeastNat
<1> DEFINE S == {k[2] : k \in {j \in keys : j[1] = p}}
<1>3. S \in SUBSET Nat /\ S # {}
  BY <1>2, CursorAssumption
<1>4. PICK s \in S : \A q \in S : s <= q
  BY <1>3, LeastNat
<1>5. PICK k \in keys : k[1] = p /\ k[2] = s
  BY <1>4
<1>6. \A j \in keys : p <= j[1] /\ (j[1] = p => s <= j[2]) /\ j \in Nat \X Nat
  BY <1>2, <1>4, CursorAssumption
<1>7. \A j \in keys : ~Before(j, k)
  BY <1>1, <1>3, <1>5, <1>6 DEF Before
<1>8. \A j \in keys : j = k \/ Before(k, j)
  BY <1>7, BeforeOrder
<1>9. Least(keys) = {k}
  BY <1>7, <1>8, BeforeOrder DEF Least
<1> QED
  BY <1>8, <1>9

CursorTyped ==
  /\ rows \in SUBSET Locators /\ it \in SUBSET Locators /\ from \in SUBSET Locators
  /\ started \in BOOLEAN /\ seen \in Seq(Locators)

(* The cursor stands on the last key met; before its first move it has met *)
(* none.                                                                   *)
CursorInv ==
  /\ CursorTyped
  /\ CursorExact
  /\ it # {} => started /\ seen # << >> /\ it = {seen[Len(seen)]}
  /\ ~started => seen = << >> /\ from = {}

LEMMA CursorInit == InitCursor => CursorInv
<1> SUFFICES ASSUME InitCursor PROVE CursorInv
  OBVIOUS
<1>1. seen \in Seq(Locators) /\ seen = << >> /\ DOMAIN seen = {}
  BY DEF InitCursor
<1>2. CursorTyped
  BY <1>1 DEF InitCursor, CursorTyped
<1>3. CursorExact
  BY <1>1 DEF InitCursor, CursorExact, valid
<1> QED
  BY <1>1, <1>2, <1>3 DEF InitCursor, CursorInv

(* A scan so far: the keys met are those of `due' up to some place.        *)
Scanned(keys, list) ==
  LET met == {list[i] : i \in DOMAIN list}
  IN  /\ \A i, j \in DOMAIN list : i < j => Before(list[i], list[j])
      /\ met \subseteq keys
      /\ \A k \in keys \ met : \A m \in met : Before(m, k)

Due(f) == {k \in rows : \A l \in f : ~Before(k, l)}

(* Going on to the least key behind all those met.                         *)
LEMMA ScanOn ==
  ASSUME NEW keys \in SUBSET Locators, NEW list \in Seq(Locators), NEW k \in keys,
         Scanned(keys, list),
         \A i \in DOMAIN list : Before(list[i], k),
         \A j \in keys : (\A i \in DOMAIN list : Before(list[i], j)) => j = k \/ Before(k, j)
  PROVE  /\ Append(list, k) \in Seq(Locators) /\ Append(list, k) # << >>
         /\ Append(list, k)[Len(Append(list, k))] = k
         /\ Scanned(keys, Append(list, k))
<1> DEFINE more == Append(list, k)
<1>1. /\ more \in Seq(Locators) /\ Len(more) = Len(list) + 1 /\ DOMAIN more = 1 .. (Len(list) + 1)
      /\ DOMAIN list = 1 .. Len(list) /\ Len(list) \in Nat
      /\ more[Len(list) + 1] = k /\ \A i \in DOMAIN list : more[i] = list[i]
  OBVIOUS
<1> HIDE DEF more
<1>2. \A i, j \in DOMAIN more : i < j => Before(more[i], more[j])
  BY <1>1 DEF Scanned
<1>3. \A i \in DOMAIN more : more[i] \in keys
  BY <1>1 DEF Scanned
<1>4. ASSUME NEW j \in keys, \A i \in DOMAIN more : more[i] # j, NEW i \in DOMAIN more
      PROVE  Before(more[i], j)
  <2>1. \A n \in DOMAIN list : list[n] # j
    BY <1>1, <1>4
  <2>2. \A n \in DOMAIN list : Before(list[n], j)
    BY <2>1 DEF Scanned
  <2>3. Before(k, j)
    BY <1>1, <1>4, <2>2
  <2> QED
    BY <1>1, <2>2, <2>3
<1>5. Scanned(keys, more)
  BY <1>2, <1>3, <1>4 DEF Scanned
<1>6. more # << >>
  BY <1>1
<1> QED
  BY <1>1, <1>5, <1>6 DEF more

LEMMA ScanStart ==
  ASSUME NEW keys
  PROVE  Scanned(keys, << >>) /\ << >> \in Seq(Locators)
<1>1. DOMAIN << >> = {}
  OBVIOUS
<1>2. Scanned(keys, << >>)
  BY <1>1 DEF Scanned
<1>3. << >> \in Seq(Locators)
  OBVIOUS
<1> QED
  BY <1>2, <1>3

(* A scan that starts.                                                     *)
LEMMA ScanBegins ==
  ASSUME CursorInv, NEW f \in SUBSET Locators, UNCHANGED rows,
         it' = Least(Due(f)), started' = TRUE, from' = f, Moved(<< >>)
  PROVE  CursorInv'
<1>1. Due(f) \in SUBSET Locators /\ rows' \in SUBSET Locators /\ Due(f)' = Due(f)
  BY DEF CursorInv, CursorTyped, Due
<1>2. Scanned(Due(f), << >>) /\ << >> \in Seq(Locators)
  BY ScanStart
<1>3. CASE Due(f) = {}
  <2>1. it' = {} /\ seen' = << >>
    BY <1>3 DEF Least, Moved
  <2>2. DOMAIN seen' = {} /\ seen' \in Seq(Locators)
    BY <2>1, <1>2
  <2>3. CursorTyped'
    BY <1>1, <2>1, <2>2 DEF CursorTyped
  <2>4. CursorExact'
    BY <1>1, <1>3, <2>1, <2>2 DEF CursorExact, valid, Due
  <2> QED
    BY <2>1, <2>3, <2>4 DEF CursorInv
<1>4. CASE Due(f) # {}
  <2>1. PICK k \in Due(f) : Least(Due(f)) = {k} /\ \A j \in Due(f) : j = k \/ Before(k, j)
    BY <1>1, <1>4, LeastExists
  <2>2. it' = {k} /\ seen' = Append(<< >>, k)
    BY <2>1 DEF Moved
  <2>3. DOMAIN << >> = {}
    OBVIOUS
  <2>4. seen' \in Seq(Locators) /\ seen' # << >> /\ seen'[Len(seen')] = k /\ Scanned(Due(f), seen')
    <3>1. PICK z, d : z = << >> /\ d = Due(f)
      OBVIOUS
    <3>2. /\ d \in SUBSET Locators /\ z \in Seq(Locators) /\ k \in d /\ Scanned(d, z)
          /\ DOMAIN z = {} /\ \A j \in d : j = k \/ Before(k, j)
      BY <1>1, <1>2, <2>1, <2>3, <3>1
    <3>3. /\ Append(z, k) \in Seq(Locators) /\ Append(z, k) # << >>
          /\ Append(z, k)[Len(Append(z, k))] = k /\ Scanned(d, Append(z, k))
      BY <3>2, ScanOn
    <3> QED
      BY <2>2, <3>1, <3>3
  <2>5. CursorTyped'
    BY <1>1, <2>1, <2>2, <2>4 DEF CursorTyped
  <2>6. CursorExact'
    BY <1>1, <2>2, <2>4 DEF CursorExact, valid, Due, Scanned
  <2> QED
    BY <2>2, <2>4, <2>5, <2>6 DEF CursorInv
<1> QED
  BY <1>3, <1>4

LEMMA ScanGoesOn ==
  ASSUME CursorInv, cursor_next
  PROVE  CursorInv'
<1>1. /\ rows' = rows /\ started /\ started' = started /\ from' = from /\ Moved(seen)
      /\ it' = IF it = {} THEN {} ELSE Least({k \in rows : \A j \in it : Before(j, k)})
  BY DEF cursor_next, Move
<1>2. CASE it' = {} /\ it = {}
  <2>1. seen' = seen
    BY <1>1, <1>2 DEF Moved
  <2>2. CursorTyped'
    BY <1>1, <1>2, <2>1 DEF CursorInv, CursorTyped
  <2>3. CursorExact' <=> CursorExact
    BY <1>1, <1>2, <2>1 DEF CursorExact, valid
  <2> QED
    BY <1>1, <1>2, <2>2, <2>3 DEF CursorInv
<1>3. CASE it # {}
  <2> DEFINE keys == Due(from)
             rest == {k \in rows : \A j \in it : Before(j, k)}
  <2>1. PICK last : last = seen[Len(seen)]
    OBVIOUS
  <2>2. /\ it = {last} /\ seen \in Seq(Locators) /\ Len(seen) \in DOMAIN seen /\ last \in Locators
        /\ keys \in SUBSET Locators /\ rest \in SUBSET keys
        /\ Scanned(keys, seen) /\ keys' = keys
    <3>1. it = {last} /\ seen \in Seq(Locators) /\ seen # << >>
      BY <1>3, <2>1 DEF CursorInv, CursorTyped
    <3>2. Len(seen) \in DOMAIN seen /\ last \in Locators
      BY <3>1, <2>1
    <3>3. keys \in SUBSET Locators /\ keys' = keys
      BY <1>1 DEF CursorInv, CursorTyped, Due
    <3>4. Scanned(keys, seen)
      BY DEF CursorInv, CursorExact, Scanned, Due
    <3>5. last \in keys
      BY <3>2, <3>4, <2>1 DEF Scanned
    <3>6. rest \in SUBSET keys
      <4>1. SUFFICES ASSUME NEW k \in rows, Before(last, k), NEW l \in from PROVE ~Before(k, l)
        BY <3>1 DEF Due
      <4>2. ~Before(last, l) /\ l \in Locators /\ k \in Locators
        BY <3>5 DEF Due, CursorInv, CursorTyped
      <4> QED
        BY <3>2, <4>1, <4>2, BeforeOrder
    <3> QED
      BY <3>1, <3>2, <3>3, <3>4, <3>6
  <2>3. \A i \in DOMAIN seen : seen[i] = last \/ Before(seen[i], last)
    <3>1. SUFFICES ASSUME NEW i \in DOMAIN seen PROVE seen[i] = last \/ Before(seen[i], last)
      OBVIOUS
    <3>2. i = Len(seen) \/ i < Len(seen)
      BY <2>2
    <3> QED
      BY <2>1, <2>2, <3>2 DEF Scanned
  <2>4. \A k \in keys : k \in rest <=> \A i \in DOMAIN seen : Before(seen[i], k)
    <3>1. \A k \in keys : k \in rest <=> Before(last, k)
      BY <2>2 DEF Due
    <3>2. \A k \in keys, i \in DOMAIN seen : Before(last, k) => Before(seen[i], k)
      BY <2>2, <2>3, BeforeOrder
    <3> QED
      BY <2>1, <2>2, <3>1, <3>2
  <2>5. it' = Least(rest)
    BY <1>1, <1>3
  <2> HIDE DEF keys, rest
  <2>6. CASE rest = {}
    <3>1. it' = {} /\ seen' = seen
      BY <1>1, <2>5, <2>6 DEF Least, Moved
    <3>2. \A k \in keys : \E i \in DOMAIN seen : k = seen[i]
      BY <2>2, <2>4, <2>6 DEF Scanned
    <3>3. {seen[i] : i \in DOMAIN seen} = keys
      BY <3>2, <2>2 DEF Scanned
    <3>4. CursorTyped'
      BY <1>1, <3>1 DEF CursorInv, CursorTyped
    <3>5. ~valid' /\ Due(from)' = keys /\ Scanned(keys, seen')
      BY <1>1, <2>2, <3>1 DEF valid, keys
    <3>6. {seen'[i] : i \in DOMAIN seen'} = keys
      BY <3>1, <3>3
    <3>7. CursorExact'
      BY <3>5, <3>6 DEF CursorExact, Due, Scanned
    <3> QED
      BY <1>1, <3>1, <3>4, <3>7 DEF CursorInv
  <2>7. CASE rest # {}
    <3>1. PICK k \in rest : Least(rest) = {k} /\ \A j \in rest : j = k \/ Before(k, j)
      BY <2>2, <2>7, LeastExists
    <3>2. it' = {k} /\ seen' = Append(seen, k) /\ k \in keys
      BY <1>1, <2>2, <2>5, <3>1 DEF Moved
    <3>3. \A i \in DOMAIN seen : Before(seen[i], k)
      BY <2>4, <3>1, <3>2
    <3>4. \A j \in keys : (\A i \in DOMAIN seen : Before(seen[i], j)) => j = k \/ Before(k, j)
      BY <2>4, <3>1
    <3>5. seen' \in Seq(Locators) /\ seen' # << >> /\ seen'[Len(seen')] = k /\ Scanned(keys, seen')
      BY <2>2, <3>2, <3>3, <3>4, ScanOn
    <3>6. CursorTyped'
      BY <1>1, <2>2, <3>2, <3>5 DEF CursorInv, CursorTyped
    <3>7. CursorExact'
      BY <1>1, <2>2, <3>2, <3>5 DEF CursorExact, valid, Due, Scanned, keys
    <3> QED
      BY <1>1, <3>2, <3>5, <3>6, <3>7 DEF CursorInv
  <2> QED
    BY <2>6, <2>7
<1> QED
  BY <1>1, <1>2, <1>3

LEMMA CursorStep == CursorInv /\ [NextCursor]_cursorvars => CursorInv'
<1> SUFFICES ASSUME CursorInv, [NextCursor]_cursorvars PROVE CursorInv'
  OBVIOUS
<1>1. CASE cursor_next_first
  <2>1. Due({}) = rows /\ {} \in SUBSET Locators
    BY DEF Due
  <2> QED
    BY <1>1, <2>1, ScanBegins DEF cursor_next_first, Move
<1>2. CASE cursor_next
  BY <1>2, ScanGoesOn
<1>3. ASSUME NEW k \in Locators, cursor_seek(k) PROVE CursorInv'
  <2>1. Due({k}) = {j \in rows : ~Before(j, k)} /\ {k} \in SUBSET Locators
    BY DEF Due
  <2> QED
    BY <1>3, <2>1, ScanBegins DEF cursor_seek, Move
<1>4. CASE UNCHANGED cursorvars
  <2>1. CursorTyped' /\ CursorExact'
    BY <1>4 DEF cursorvars, CursorInv, CursorTyped, CursorExact, valid
  <2> QED
    BY <1>4, <2>1 DEF cursorvars, CursorInv
<1> QED
  BY <1>1, <1>2, <1>3, <1>4 DEF NextCursor

-----------------------------------------------------------------------------
(* FlattenSeq, whose recursive function exists for every sequence.         *)
Flattens(s, n, f) == f = [i \in 1 .. n |-> IF i = 1 THEN s[i] ELSE f[i - 1] \o s[i]]

Unrolls(s, f, i) == f[i] = IF i = 1 THEN s[i] ELSE f[i - 1] \o s[i]

LEMMA FlattensAt ==
  ASSUME NEW s, NEW m \in Nat, NEW f, Flattens(s, m, f), NEW i \in 1 .. m
  PROVE  Unrolls(s, f, i)
<1>1. PICK h : h = [j \in 1 .. m |-> IF j = 1 THEN s[j] ELSE f[j - 1] \o s[j]]
  OBVIOUS
<1>2. f = h
  BY <1>1, Zenon DEF Flattens
<1>3. h[i] = IF i = 1 THEN s[i] ELSE f[i - 1] \o s[i]
  BY <1>1
<1> QED
  BY <1>2, <1>3, Zenon DEF Unrolls

LEMMA FlattensExists ==
  ASSUME NEW s, NEW m \in Nat
  PROVE  \E f : Flattens(s, m, f)
<1> DEFINE S == {n \in Nat : \E f : Flattens(s, n, f)}
<1>1. 0 \in S
  <2>1. Flattens(s, 0, [i \in 1 .. 0 |-> s[i]])
    BY DEF Flattens
  <2> QED
    BY <2>1
<1>2. ASSUME NEW n \in Nat, n \in S PROVE n + 1 \in S
  <2>1. PICK f : Flattens(s, n, f)
    BY <1>2
  <2> DEFINE g == [i \in 1 .. (n + 1) |->
                     IF i = n + 1 THEN (IF i = 1 THEN s[i] ELSE f[i - 1] \o s[i]) ELSE f[i]]
  <2>2. ASSUME NEW i \in 1 .. (n + 1)
        PROVE  g[i] = IF i = 1 THEN s[i] ELSE g[i - 1] \o s[i]
    <3>1. CASE i = n + 1
      BY <3>1
    <3>2. CASE i # n + 1
      <4>1. i \in 1 .. n /\ g[i] = f[i] /\ (i # 1 => i - 1 \in 1 .. n /\ g[i - 1] = f[i - 1])
        BY <3>2
      <4>2. f[i] = IF i = 1 THEN s[i] ELSE f[i - 1] \o s[i]
        BY <2>1, <4>1 DEF Flattens
      <4> QED
        BY <4>1, <4>2
    <3> QED
      BY <3>1, <3>2
  <2>3. g = [i \in 1 .. (n + 1) |-> g[i]]
    OBVIOUS
  <2> HIDE DEF g
  <2>4. Flattens(s, n + 1, g)
    BY <2>2, <2>3 DEF Flattens
  <2> QED
    BY <2>4
<1> HIDE DEF S
<1>3. m \in S
  BY <1>1, <1>2, SetInduction
<1> QED
  BY <1>3 DEF S

LEMMA FlattenIs ==
  ASSUME NEW s, Len(s) \in Nat, Len(s) # 0
  PROVE  \E f : Flattens(s, Len(s), f) /\ FlattenSeq(s) = f[Len(s)]
<1>1. \E f : Flattens(s, Len(s), f)
  BY FlattensExists
<1>2. FlattenSeq(s) = (CHOOSE f : Flattens(s, Len(s), f))[Len(s)]
  BY DEF FlattenSeq, Flattens
<1> QED
  BY <1>1, <1>2

LEMMA FlattensTyped ==
  ASSUME NEW X, NEW s \in Seq(Seq(X)), NEW f, Flattens(s, Len(s), f), NEW i \in 1 .. Len(s)
  PROVE  f[i] \in Seq(X)
<1> DEFINE S == {n \in Nat : n \in 1 .. Len(s) => f[n] \in Seq(X)}
<1>1. 0 \in S
  OBVIOUS
<1>2. ASSUME NEW n \in Nat, n \in S PROVE n + 1 \in S
  <2>1. SUFFICES ASSUME n + 1 \in 1 .. Len(s) PROVE f[n + 1] \in Seq(X)
    OBVIOUS
  <2>2. s[n + 1] \in Seq(X)
    BY <2>1
  <2>3. f[n + 1] = IF n + 1 = 1 THEN s[n + 1] ELSE f[n] \o s[n + 1]
    BY <2>1, FlattensAt DEF Unrolls
  <2>4. n + 1 # 1 => f[n] \in Seq(X)
    BY <1>2, <2>1
  <2> QED
    BY <2>2, <2>3, <2>4
<1>3. i \in Nat
  OBVIOUS
<1> HIDE DEF S
<1>4. i \in S
  BY <1>1, <1>2, <1>3, SetInduction
<1> QED
  BY <1>4 DEF S

LEMMA FlattenTyped ==
  ASSUME NEW X, NEW s \in Seq(Seq(X))
  PROVE  FlattenSeq(s) \in Seq(X)
<1>1. CASE Len(s) = 0
  <2>1. s = << >> /\ FlattenSeq(s) = s
    BY <1>1 DEF FlattenSeq
  <2>2. << >> \in Seq(X)
    OBVIOUS
  <2> QED
    BY <2>1, <2>2, Zenon
<1>2. CASE Len(s) # 0
  <2>1. PICK f : Flattens(s, Len(s), f) /\ FlattenSeq(s) = f[Len(s)]
    BY <1>2, FlattenIs
  <2>2. Len(s) \in 1 .. Len(s)
    BY <1>2
  <2> QED
    BY <2>1, <2>2, FlattensTyped
<1> QED
  BY <1>1, <1>2

LEMMA FlattenAppend ==
  ASSUME NEW X, NEW s \in Seq(Seq(X)), NEW e \in Seq(X)
  PROVE  FlattenSeq(Append(s, e)) = FlattenSeq(s) \o e
<1> DEFINE t == Append(s, e)
<1>1. /\ t \in Seq(Seq(X)) /\ Len(t) = Len(s) + 1 /\ t[Len(s) + 1] = e
      /\ \A i \in 1 .. Len(s) : t[i] = s[i]
      /\ Len(s) \in Nat
  OBVIOUS
<1> HIDE DEF t
<1>2. PICK g : Flattens(t, Len(t), g) /\ FlattenSeq(t) = g[Len(t)]
  BY <1>1, FlattenIs
<1>3. CASE Len(s) = 0
  <2>1. s = << >> /\ FlattenSeq(s) = s
    BY <1>3 DEF FlattenSeq
  <2>2. g[1] = e
    BY <1>1, <1>2, <1>3, FlattensAt DEF Unrolls
  <2>3. FlattenSeq(t) = e
    BY <1>1, <1>2, <1>3, <2>2
  <2>4. << >> \o e = e
    OBVIOUS
  <2> QED
    BY <2>1, <2>3, <2>4 DEF t
<1>4. CASE Len(s) # 0
  <2>1. PICK f : Flattens(s, Len(s), f) /\ FlattenSeq(s) = f[Len(s)]
    BY <1>1, <1>4, FlattenIs
  <2> DEFINE S == {n \in Nat : n \in 1 .. Len(s) => g[n] = f[n]}
  <2>2. 0 \in S
    OBVIOUS
  <2>3. ASSUME NEW n \in Nat, n \in S PROVE n + 1 \in S
    <3>1. SUFFICES ASSUME n + 1 \in 1 .. Len(s) PROVE f[n + 1] = g[n + 1]
      OBVIOUS
    <3>2. f[n + 1] = IF n + 1 = 1 THEN s[n + 1] ELSE f[n] \o s[n + 1]
      BY <2>1, <3>1, FlattensAt DEF Unrolls
    <3>3. Len(t) \in Nat /\ n + 1 \in 1 .. Len(t) /\ (n + 1) - 1 = n
      BY <1>1, <3>1
    <3>4. g[n + 1] = IF n + 1 = 1 THEN t[n + 1] ELSE g[(n + 1) - 1] \o t[n + 1]
      BY <1>2, <3>3, FlattensAt DEF Unrolls
    <3>5. n + 1 # 1 => g[n] = f[n]
      BY <2>3, <3>1
    <3> QED
      BY <1>1, <3>1, <3>2, <3>3, <3>4, <3>5
  <2> HIDE DEF S
  <2>4. Len(s) \in S
    BY <1>1, <2>2, <2>3, SetInduction
  <2>5. g[Len(s)] = f[Len(s)]
    BY <1>1, <1>4, <2>4 DEF S
  <2>6. Len(t) \in Nat /\ Len(t) \in 1 .. Len(t) /\ Len(t) # 1 /\ Len(t) - 1 = Len(s)
    BY <1>1, <1>4
  <2>7. g[Len(t)] = IF Len(t) = 1 THEN t[Len(t)] ELSE g[Len(t) - 1] \o t[Len(t)]
    <3>1. PICK m : m = Len(t)
      OBVIOUS
    <3>2. m \in Nat /\ m \in 1 .. m /\ Flattens(t, m, g)
      BY <1>2, <2>6, <3>1
    <3>3. Unrolls(t, g, m)
      BY <3>2, FlattensAt
    <3> QED
      BY <3>1, <3>3 DEF Unrolls
  <2>8. g[Len(t)] = g[Len(s)] \o e
    BY <1>1, <2>6, <2>7
  <2> QED
    BY <1>1, <1>2, <2>1, <2>5, <2>8 DEF t
<1> QED
  BY <1>3, <1>4

LEMMA Multiples ==
  ASSUME NEW a \in Nat, NEW b \in Nat, NEW c \in Nat
  PROVE  /\ a * c \in Nat
         /\ (a + 1) * c = a * c + c
         /\ a <= b => a * c <= b * c
<1>1. (a + 1) * c = a * c + c /\ a * c \in Nat
  OBVIOUS
<1>2. ASSUME a <= b PROVE a * c <= b * c
  <2>1. PICK d \in Nat : b = a + d
    <3>1. b - a \in Nat /\ b = a + (b - a)
      BY <1>2
    <3> QED
      BY <3>1
  <2>2. b * c = a * c + d * c /\ d * c \in Nat
    BY <2>1
  <2> QED
    BY <1>1, <2>2
<1> QED
  BY <1>1, <1>2

Joined(a, b) ==
  /\ Len(a \o b) = Len(a) + Len(b)
  /\ \A p \in 1 .. Len(a) : (a \o b)[p] = a[p]
  /\ \A p \in 1 .. Len(b) : (a \o b)[Len(a) + p] = b[p]

LEMMA ConcatAt ==
  ASSUME NEW X, NEW a \in Seq(X), NEW b \in Seq(X)
  PROVE  Joined(a, b)
BY DEF Joined

LEMMA PrefixAt ==
  ASSUME NEW X, NEW a \in Seq(X), NEW n \in 0 .. Len(a)
  PROVE  /\ SubSeq(a, 1, n) \in Seq(X) /\ Len(SubSeq(a, 1, n)) = n
         /\ \A p \in 1 .. n : SubSeq(a, 1, n)[p] = a[p]
OBVIOUS

(* n pages of one length, where their symbols stand in the file.           *)
Laid(s, size, n, flat) ==
  /\ Len(flat) = n * size
  /\ \A i \in 0 .. (n - 1), j \in 1 .. size : flat[i * size + j] = s[i + 1][j]

LEMMA LaidOn ==
  ASSUME NEW X, NEW s, NEW size \in Nat, NEW n \in Nat,
         NEW flat \in Seq(X), Laid(s, size, n, flat), s[n + 1] \in Seq(X), Len(s[n + 1]) = size
  PROVE  Laid(s, size, n + 1, flat \o s[n + 1])
<1> DEFINE more == flat \o s[n + 1]
<1>1. PICK m : m = n * size
  OBVIOUS
<1>2. m \in Nat /\ (n + 1) * size = m + size /\ Len(flat) = m
  BY <1>1, Multiples DEF Laid
<1>3. /\ Len(more) = m + size
      /\ \A p \in 1 .. m : more[p] = flat[p]
      /\ \A j \in 1 .. size : more[m + j] = s[n + 1][j]
  <2>1. PICK b : b = s[n + 1]
    OBVIOUS
  <2>2. b \in Seq(X) /\ Len(b) = size
    BY <2>1
  <2>3. Joined(flat, b)
    BY <2>2, ConcatAt
  <2> QED
    BY <1>2, <2>1, <2>2, <2>3 DEF Joined
<1> HIDE DEF more
<1>4. ASSUME NEW i \in 0 .. n, NEW j \in 1 .. size
      PROVE  more[i * size + j] = s[i + 1][j]
  <2>1. CASE i = n
    BY <1>1, <1>3, <2>1
  <2>2. CASE i # n
    <3>1. i \in Nat /\ i + 1 \in Nat /\ i + 1 <= n /\ i \in 0 .. (n - 1)
      BY <2>2
    <3>2. PICK p : p = i * size
      OBVIOUS
    <3>3. p \in Nat /\ (i + 1) * size = p + size /\ (i + 1) * size <= m
      BY <1>1, <3>1, <3>2, Multiples
    <3>4. p + j \in 1 .. m
      BY <1>2, <3>3
    <3>5. more[p + j] = flat[p + j]
      BY <1>3, <3>4
    <3>6. flat[p + j] = s[i + 1][j]
      BY <3>1, <3>2 DEF Laid
    <3> QED
      BY <3>2, <3>5, <3>6
  <2> QED
    BY <2>1, <2>2
<1>5. (n + 1) - 1 = n
  OBVIOUS
<1>6. \A i \in 0 .. ((n + 1) - 1), j \in 1 .. size : more[i * size + j] = s[i + 1][j]
  BY <1>4, <1>5
<1>7. Laid(s, size, n + 1, more)
  BY <1>2, <1>3, <1>6 DEF Laid
<1> QED
  BY <1>7 DEF more

LEMMA FlattenUniform ==
  ASSUME NEW X, NEW s \in Seq(Seq(X)), NEW size \in Nat,
         \A i \in 1 .. Len(s) : Len(s[i]) = size
  PROVE  Laid(s, size, Len(s), FlattenSeq(s))
<1>1. Laid(s, size, 0, << >>) /\ << >> \in Seq(X)
  <2>1. 0 * size = 0 /\ Len(<< >>) = 0 /\ 0 .. (0 - 1) = {}
    OBVIOUS
  <2>2. Laid(s, size, 0, << >>)
    BY <2>1 DEF Laid
  <2>3. << >> \in Seq(X)
    OBVIOUS
  <2> QED
    BY <2>2, <2>3
<1>2. CASE Len(s) = 0
  <2>1. FlattenSeq(s) = s /\ s = << >>
    BY <1>2 DEF FlattenSeq
  <2> QED
    BY <1>1, <1>2, <2>1
<1>3. CASE Len(s) # 0
  <2>1. PICK f : Flattens(s, Len(s), f) /\ FlattenSeq(s) = f[Len(s)]
    BY <1>3, FlattenIs
  <2> DEFINE S == {n \in Nat : n \in 1 .. Len(s) => Laid(s, size, n, f[n])}
  <2>2. 0 \in S
    OBVIOUS
  <2>3. ASSUME NEW n \in Nat, n \in S PROVE n + 1 \in S
    <3>1. SUFFICES ASSUME n + 1 \in 1 .. Len(s) PROVE Laid(s, size, n + 1, f[n + 1])
      OBVIOUS
    <3>2. n \in S => (n \in 1 .. Len(s) => Laid(s, size, n, f[n]))
      OBVIOUS
    <3> HIDE DEF S
    <3>3. f[n + 1] = IF n + 1 = 1 THEN s[n + 1] ELSE f[(n + 1) - 1] \o s[n + 1]
      <4>1. Flattens(s, Len(s), f) /\ Len(s) \in Nat
        BY <2>1
      <4>2. PICK k : k = n + 1
        OBVIOUS
      <4>3. k \in 1 .. Len(s)
        BY <3>1, <4>2
      <4>4. Unrolls(s, f, k)
        BY <4>1, <4>3, FlattensAt
      <4> QED
        BY <4>2, <4>4, Zenon DEF Unrolls
    <3>4. s[n + 1] \in Seq(X) /\ Len(s[n + 1]) = size
      BY <3>1
    <3>5. CASE n = 0
      <4>1. f[n + 1] = s[n + 1] /\ << >> \o s[n + 1] = s[n + 1]
        BY <3>3, <3>4, <3>5
      <4>2. Laid(s, size, n, << >>)
        BY <1>1, <3>5
      <4>3. Laid(s, size, n + 1, << >> \o s[n + 1])
        BY <1>1, <3>4, <4>2, LaidOn
      <4> QED
        BY <4>1, <4>3
    <3>6. CASE n # 0
      <4>1. n \in 1 .. Len(s) /\ (n + 1) - 1 = n /\ n + 1 # 1
        BY <3>1, <3>6
      <4>2. Laid(s, size, n, f[n])
        BY <2>3, <3>2, <4>1
      <4>3. f[n] \in Seq(X)
        BY <2>1, <4>1, FlattensTyped
      <4>4. f[n + 1] = f[n] \o s[n + 1]
        BY <3>3, <4>1
      <4>5. Laid(s, size, n + 1, f[n] \o s[n + 1])
        BY <3>4, <4>2, <4>3, LaidOn
      <4> QED
        BY <4>4, <4>5
    <3> QED
      BY <3>5, <3>6
  <2>4. Len(s) \in Nat
    OBVIOUS
  <2> HIDE DEF S
  <2>5. Len(s) \in S
    BY <2>2, <2>3, <2>4, SetInduction
  <2>6. Laid(s, size, Len(s), f[Len(s)])
    BY <1>3, <2>4, <2>5 DEF S
  <2> QED
    BY <2>1, <2>6
<1> QED
  BY <1>2, <1>3

-----------------------------------------------------------------------------
(* Every page that the walk over the file reaches starts with its header.  *)
Framed ==
  \A i \in Walked :
    /\ Is(At(PageOff(i)), "type")
    /\ PageOff(i) + 1 < Len(data) => Is(At(PageOff(i) + 1), "link")

FileOK == data \in Seq(Symbols) /\ Framed

LEMMA PageOffNat ==
  ASSUME NEW i \in Nat
  PROVE  PageOff(i) \in Nat
BY StorageAssumption, Multiples DEF PageOff

LEMMA EmptyOK == data = << >> => FileOK
<1> SUFFICES ASSUME data = << >> PROVE FileOK
  OBVIOUS
<1>1. Len(data) = 0
  OBVIOUS
<1>2. Walked = {}
  BY <1>1, PageOffNat, StorageAssumption DEF Walked
<1>3. data \in Seq(Symbols)
  OBVIOUS
<1> QED
  BY <1>2, <1>3 DEF FileOK, Framed

LEMMA FilesOK == data \in Files => FileOK
<1> SUFFICES ASSUME data \in Files PROVE FileOK
  OBVIOUS
<1>1. PICK ims \in [1 .. page_count -> Images] : data = FlattenSeq(ims)
  BY DEF Files
<1>2. ims \in Seq(Seq(Symbols)) /\ Len(ims) = page_count
  BY StorageAssumption
<1>3. \A i \in 1 .. Len(ims) : Len(ims[i]) = page_size /\ ims[i][1][1] = "type" /\ ims[i][2][1] = "link"
  BY <1>2, StorageAssumption
<1>4. page_size \in Nat /\ page_size > 2 /\ page_count \in Nat
  BY StorageAssumption DEF kPageHeaderSize
<1>5. data \in Seq(Symbols)
  BY <1>1, <1>2, FlattenTyped
<1>6. \A i \in 0 .. (Len(ims) - 1), j \in 1 .. page_size : data[i * page_size + j] = ims[i + 1][j]
  <2>1. \A i \in 1 .. Len(ims) : Len(ims[i]) = page_size
    BY <1>3
  <2>2. Laid(ims, page_size, Len(ims), data)
    BY <1>1, <1>2, <1>4, <2>1, FlattenUniform
  <2> QED
    BY <2>2 DEF Laid
<1>7. ASSUME NEW i \in 0 .. (page_count - 1)
      PROVE  Is(At(PageOff(i)), "type") /\ Is(At(PageOff(i) + 1), "link")
  <2>1. i \in 0 .. (Len(ims) - 1) /\ 1 \in 1 .. page_size /\ 2 \in 1 .. page_size /\ i + 1 \in 1 .. Len(ims)
    BY <1>2, <1>4
  <2>2. data[PageOff(i) + 1] = ims[i + 1][1] /\ data[PageOff(i) + 2] = ims[i + 1][2]
    BY <1>6, <2>1 DEF PageOff
  <2>3. PageOff(i) \in Nat /\ (PageOff(i) + 1) + 1 = PageOff(i) + 2
    BY PageOffNat
  <2> QED
    BY <1>3, <2>1, <2>2, <2>3 DEF Is, At
<1> QED
  BY <1>5, <1>7 DEF FileOK, Framed, Walked

LEMMA CutOK == FileOK /\ Cut => FileOK'
<1> SUFFICES ASSUME FileOK, Cut PROVE FileOK'
  OBVIOUS
<1>1. /\ data \in Seq(Symbols) /\ Len(data) \in Nat /\ Len(data) # 0
      /\ data' = SubSeq(data, 1, Len(data) - 1)
  BY DEF FileOK, Cut, Front
<1>2. /\ data' \in Seq(Symbols) /\ Len(data') = Len(data) - 1
      /\ \A p \in 1 .. (Len(data) - 1) : data'[p] = data[p]
  <2>1. Len(data) - 1 \in 0 .. Len(data)
    BY <1>1
  <2> QED
    BY <1>1, <2>1, PrefixAt
<1>3. ASSUME NEW i \in Walked'
      PROVE  /\ Is(At(PageOff(i))', "type")
             /\ PageOff(i) + 1 < Len(data') => Is(At(PageOff(i) + 1)', "link")
  <2>1. i \in Nat /\ PageOff(i) \in Nat /\ PageOff(i) < Len(data')
    BY <1>3, PageOffNat, StorageAssumption DEF Walked
  <2>2. i \in Walked
    BY <1>1, <1>2, <1>3, <2>1 DEF Walked
  <2>3. PICK o, y, z : o = PageOff(i) /\ y = Len(data') /\ z = Len(data)
    OBVIOUS
  <2>4. o \in Nat /\ y \in Nat /\ z \in Nat /\ y = z - 1 /\ o < y
    BY <1>1, <1>2, <2>1, <2>3
  <2>5. \A p \in 1 .. y : data'[p] = data[p]
    BY <1>2, <2>3
  <2>6. data'[o + 1] = data[o + 1]
    BY <2>4, <2>5
  <2>7. o + 1 < y => o + 1 < z /\ data'[(o + 1) + 1] = data[(o + 1) + 1]
    BY <2>4, <2>5
  <2>8. Is(data[o + 1], "type") /\ (o + 1 < z => Is(data[(o + 1) + 1], "link"))
    BY <2>2, <2>3 DEF FileOK, Framed, At
  <2>9. At(PageOff(i))' = data'[o + 1] /\ At(PageOff(i) + 1)' = data'[(o + 1) + 1]
    BY <2>3 DEF At
  <2>10. Is(At(PageOff(i))', "type") /\ (o + 1 < y => Is(At(PageOff(i) + 1)', "link"))
    BY <2>6, <2>7, <2>8, <2>9, Zenon
  <2> QED
    BY <2>3, <2>10
<1> QED
  BY <1>2, <1>3 DEF FileOK, Framed

-----------------------------------------------------------------------------
(* What parse_pages makes of a page, whatever its bytes say.               *)
LEMMA SymbolFields ==
  ASSUME NEW sym \in Symbols
  PROVE  /\ Is(sym, "type") => sym[3] \in Nat
         /\ Is(sym, "link") \/ Is(sym, "slot") => sym[2] \in Nat /\ sym[3] \in Nat
         /\ Is(sym, "varint") => sym[2] \in Nat
         /\ Is(sym, "entry") => sym[2] \in Seq(Nat)
BY DEF Symbols, Is

SlotOK(slot) ==
  /\ slot.rec_offset \in Nat /\ slot.rec_length \in Nat
  /\ slot.in_bounds => slot.rec_offset >= 2 /\ slot.rec_offset + slot.rec_length <= page_size

LEMMA ReadSlotOK ==
  ASSUME NEW sym \in Symbols
  PROVE  SlotOK(ReadSlot(sym))
<1>1. CASE Is(sym, "slot")
  BY <1>1, SymbolFields DEF SlotOK, ReadSlot, kPageHeaderSize
<1>2. CASE ~Is(sym, "slot")
  BY <1>2 DEF SlotOK, ReadSlot
<1> QED
  BY <1>1, <1>2

LEMMA SpanOK ==
  ASSUME FileOK, NEW i \in Walked
  PROVE  /\ i \in Nat /\ PageOff(i) \in Nat /\ Len(data) \in Nat
         /\ spans[i].file_offset = PageOff(i)
         /\ spans[i].length = Smaller(Len(data) - PageOff(i), page_size)
         /\ spans[i].length \in 1 .. page_size
         /\ PageOff(i) + spans[i].length <= Len(data)
         /\ \A n \in 1 .. spans[i].length : data[PageOff(i) + n] \in Symbols
<1>1. i \in Nat /\ PageOff(i) \in Nat /\ Len(data) \in Nat /\ PageOff(i) < Len(data)
  BY PageOffNat, StorageAssumption DEF FileOK, Walked
<1>2. /\ spans[i].file_offset = PageOff(i)
      /\ spans[i].length = Smaller(Len(data) - PageOff(i), page_size)
  BY DEF spans
<1>3. page_size \in Nat /\ page_size > 2
  BY StorageAssumption DEF kPageHeaderSize
<1>4. spans[i].length \in 1 .. page_size /\ PageOff(i) + spans[i].length <= Len(data)
  BY <1>1, <1>2, <1>3 DEF Smaller
<1>5. \A n \in 1 .. spans[i].length : PageOff(i) + n \in 1 .. Len(data)
  BY <1>1, <1>3, <1>4
<1>6. \A n \in 1 .. Len(data) : data[n] \in Symbols
  BY DEF FileOK
<1> QED
  BY <1>1, <1>2, <1>4, <1>5, <1>6

PageOK(i) ==
  /\ PageAt(i).free_start \in Nat
  /\ \E fit \in Nat :
       /\ PageAt(i).slots = [s \in 1 .. fit |-> PageAt(i).slots[s]]
       /\ \A s \in 1 .. fit : SlotOK(PageAt(i).slots[s])

LEMMA PageAtOK ==
  ASSUME FileOK, NEW i \in Walked
  PROVE  PageOK(i)
<1> DEFINE span == spans[i]
           head == At(span.file_offset)
           link == At(span.file_offset + 1)
           fit  == Smaller(head[3], span.length - kPageHeaderSize)
           slots == [s \in 1 .. fit |-> ReadSlot(At(span.file_offset + kPageHeaderSize + s - 1))]
<1>1. /\ PageOff(i) \in Nat /\ span.file_offset = PageOff(i)
      /\ span.length \in 1 .. page_size /\ page_size \in Nat /\ PageOff(i) + span.length <= Len(data)
      /\ Len(data) \in Nat
      /\ \A n \in 1 .. span.length : data[PageOff(i) + n] \in Symbols
  BY SpanOK, StorageAssumption
<1>2. CASE span.length < kPageHeaderSize
  <2>1. PageAt(i).free_start = 0 /\ PageAt(i).slots = << >>
    BY <1>2 DEF PageAt
  <2>2. << >> = [s \in 1 .. 0 |-> << >>[s]] /\ \A s \in 1 .. 0 : SlotOK(<< >>[s])
    OBVIOUS
  <2> QED
    BY <2>1, <2>2 DEF PageOK
<1>3. CASE ~(span.length < kPageHeaderSize)
  <2>1. PageAt(i).free_start = link[2] /\ PageAt(i).slots = slots
    BY <1>3 DEF PageAt
  <2>2. span.length >= 2
    BY <1>1, <1>3 DEF kPageHeaderSize
  <2>3. head = data[PageOff(i) + 1] /\ link = data[PageOff(i) + 2]
    BY <1>1 DEF At
  <2>4. head \in Symbols /\ link \in Symbols /\ Is(head, "type") /\ Is(link, "link")
    <3>1. PageOff(i) + 1 < Len(data)
      BY <1>1, <2>2
    <3> QED
      BY <1>1, <2>2, <2>3, <3>1 DEF FileOK, Framed
  <2>5. link[2] \in Nat /\ head[3] \in Nat
    BY <2>4, SymbolFields
  <2>6. fit \in Nat /\ fit <= span.length - 2
    <3>1. PICK len, count : len = span.length /\ count = head[3]
      OBVIOUS
    <3>2. len \in Nat /\ len >= 2 /\ count \in Nat
      BY <1>1, <2>2, <2>5, <3>1
    <3>3. Smaller(count, len - 2) \in Nat /\ Smaller(count, len - 2) <= len - 2
      BY <3>2 DEF Smaller
    <3> QED
      BY <3>1, <3>3 DEF kPageHeaderSize
  <2>7. ASSUME NEW s \in 1 .. fit PROVE SlotOK(slots[s])
    <3> HIDE DEF span, fit
    <3>1. s + 2 \in 1 .. span.length /\ span.file_offset + kPageHeaderSize + s - 1 + 1 = PageOff(i) + (s + 2)
      <4>1. PICK len, off, top : len = span.length /\ off = PageOff(i) /\ top = fit
        OBVIOUS
      <4>2. /\ len \in Nat /\ off \in Nat /\ top \in Nat /\ top <= len - 2
            /\ s \in 1 .. top /\ span.file_offset = off
        BY <1>1, <2>6, <4>1
      <4>3. s + 2 \in 1 .. len /\ off + 2 + s - 1 + 1 = off + (s + 2)
        BY <4>2
      <4> QED
        BY <4>1, <4>2, <4>3 DEF kPageHeaderSize
    <3>2. At(span.file_offset + kPageHeaderSize + s - 1) \in Symbols
      BY <1>1, <3>1 DEF At
    <3>3. slots[s] = ReadSlot(At(span.file_offset + kPageHeaderSize + s - 1))
      OBVIOUS
    <3> HIDE DEF slots
    <3> QED
      BY <3>2, <3>3, ReadSlotOK
  <2>8. slots = [s \in 1 .. fit |-> slots[s]]
    <3> HIDE DEF fit, span
    <3> QED
      OBVIOUS
  <2> HIDE DEF slots, fit, link
  <2> QED
    BY <2>1, <2>5, <2>6, <2>7, <2>8 DEF PageOK
<1> QED
  BY <1>2, <1>3

(* A record's place in the file.                                           *)
LEMMA ResidentPlace ==
  ASSUME FileOK, NEW k \in Resident
  PROVE  /\ k[1] \in Walked /\ PageAt(k[1]).type = "DATA"
         /\ k[2] \in DOMAIN PageAt(k[1]).slots /\ k = << k[1], k[2] >>
         /\ SlotOK(SlotAt(k)) /\ SlotAt(k).in_bounds /\ SlotAt(k).rec_length # 0
         /\ Start(k) + SlotAt(k).rec_length <= Len(data)
<1>1. k \in Slots /\ SlotAt(k).in_bounds /\ SlotAt(k).rec_length # 0
      /\ Start(k) + SlotAt(k).rec_length <= Len(data)
  BY DEF Resident
<1>2. PICK i, s : /\ i \in Walked /\ PageAt(i).type = "DATA"
                  /\ s \in DOMAIN PageAt(i).slots /\ k = << i, s >>
  BY <1>1 DEF Slots
<1>3. k[1] = i /\ k[2] = s /\ k = << k[1], k[2] >>
  BY <1>2
<1>4. SlotOK(PageAt(i).slots[s])
  <2>1. PageOK(i)
    BY <1>2, PageAtOK
  <2>2. PICK fit \in Nat : /\ PageAt(i).slots = [n \in 1 .. fit |-> PageAt(i).slots[n]]
                           /\ \A n \in 1 .. fit : SlotOK(PageAt(i).slots[n])
    BY <2>1 DEF PageOK
  <2>3. DOMAIN PageAt(i).slots = 1 .. fit
    BY <2>2
  <2> QED
    BY <1>2, <2>2, <2>3
<1>5. SlotOK(SlotAt(k))
  BY <1>3, <1>4 DEF SlotAt
<1> QED
  BY <1>1, <1>2, <1>3, <1>5

LEMMA RecordsPlaced == FileOK => RecordsInPlace
<1> SUFFICES ASSUME FileOK, NEW k \in Resident
             PROVE  \E o \in kPageHeaderSize .. (page_size - 1) :
                      LET stop == PageOff(k[1]) + o + SlotAt(k).rec_length
                      IN  /\ o + SlotAt(k).rec_length <= page_size
                          /\ stop <= Len(data)
                          /\ seeded[k] = SubSeq(data, PageOff(k[1]) + o + 1, stop)
  <2>1. DOMAIN seeded = Resident
    BY DEF seeded
  <2> QED
    BY <2>1 DEF RecordsInPlace
<1>1. PICK o, n : o = SlotAt(k).rec_offset /\ n = SlotAt(k).rec_length
  OBVIOUS
<1>2. /\ o \in Nat /\ n \in Nat /\ n # 0 /\ o >= 2 /\ o + n <= page_size
      /\ Start(k) = PageOff(k[1]) + o /\ Start(k) + n <= Len(data)
  BY <1>1, ResidentPlace DEF SlotOK, Start
<1>3. PageOff(k[1]) \in Nat /\ Len(data) \in Nat /\ page_size \in Nat
  BY ResidentPlace, SpanOK, StorageAssumption
<1>4. Clip(Start(k) + n) = PageOff(k[1]) + o + n
  BY <1>2, <1>3 DEF Clip, Smaller
<1>5. seeded[k] = SubSeq(data, PageOff(k[1]) + o + 1, PageOff(k[1]) + o + n)
  BY <1>1, <1>2, <1>4 DEF seeded
<1>6. o \in kPageHeaderSize .. (page_size - 1)
  BY <1>2, <1>3 DEF kPageHeaderSize
<1> QED
  BY <1>1, <1>2, <1>3, <1>5, <1>6

LEMMA CatalogCounts == FileOK => CatalogAgrees
<1> SUFFICES ASSUME FileOK, NEW i \in Walked
             PROVE  LET taken == Cardinality({k \in Resident : k[1] = i})
                        stats == PageStats(i)
                    IN  /\ spans[i].length = page_size /\ stats.type = "DATA" => stats.used_slots = taken
                        /\ taken <= stats.used_slots
  BY DEF CatalogAgrees
<1>1. PICK slots : slots = PageAt(i).slots
  OBVIOUS
<1> DEFINE U == {s \in DOMAIN slots : slots[s].in_bounds /\ slots[s].rec_length > 0}
           T == {k \in Resident : k[1] = i}
           f == [k \in T |-> k[2]]
<1>2. PageStats(i).used_slots = Cardinality(U) /\ PageStats(i).type = PageAt(i).type
  BY <1>1 DEF PageStats
<1>3. PICK fit \in Nat : DOMAIN slots = 1 .. fit /\ \A s \in 1 .. fit : SlotOK(slots[s])
  <2>1. PICK fit \in Nat : slots = [s \in 1 .. fit |-> slots[s]] /\ \A s \in 1 .. fit : SlotOK(slots[s])
    BY <1>1, PageAtOK DEF PageOK
  <2>2. DOMAIN slots = 1 .. fit
    BY <2>1
  <2> QED
    BY <2>1, <2>2
<1>4. IsFiniteSet(U)
  <2>1. IsFiniteSet(1 .. fit)
    BY <1>3, FS_Interval
  <2>2. U \in SUBSET (1 .. fit)
    BY <1>3
  <2> QED
    BY <2>1, <2>2, FS_Subset
<1>5. \A k \in T : k[2] \in U /\ k = << i, k[2] >>
  <2>1. SUFFICES ASSUME NEW k \in T PROVE k[2] \in U /\ k = << i, k[2] >>
    OBVIOUS
  <2>2. k \in Resident /\ k[1] = i
    OBVIOUS
  <2>3. /\ k[2] \in DOMAIN slots /\ k = << i, k[2] >> /\ SlotAt(k) = slots[k[2]]
        /\ SlotOK(SlotAt(k)) /\ SlotAt(k).in_bounds /\ SlotAt(k).rec_length # 0
    BY <1>1, <2>2, ResidentPlace DEF SlotAt
  <2>4. slots[k[2]].in_bounds /\ slots[k[2]].rec_length > 0
    BY <2>3 DEF SlotOK
  <2> QED
    BY <2>3, <2>4
<1>6. f \in [T -> U] /\ \A a, b \in T : f[a] = f[b] => a = b
  <2> HIDE DEF U, T
  <2> QED
    BY <1>5
<1>7. f \in Injection(T, U)
  <2> HIDE DEF f, T, U
  <2> QED
    BY <1>6 DEF Injection, IsInjective
<1>8. Cardinality(T) <= Cardinality(U) /\ (Cardinality(T) = Cardinality(U) <=> f \in Surjection(T, U))
  <2> HIDE DEF f, T, U
  <2> QED
    BY <1>4, <1>7, FS_Injection
<1>9. ASSUME spans[i].length = page_size, PageAt(i).type = "DATA"
      PROVE  Cardinality(T) = Cardinality(U)
  <2>1. /\ PageOff(i) \in Nat /\ Len(data) \in Nat /\ page_size \in Nat
        /\ PageOff(i) + page_size <= Len(data)
    BY <1>9, SpanOK, StorageAssumption
  <2>2. ASSUME NEW s \in U PROVE << i, s >> \in T
    <3>1. s \in DOMAIN slots /\ slots[s].in_bounds /\ slots[s].rec_length > 0 /\ SlotOK(slots[s])
      BY <1>3
    <3>2. PICK k : k = << i, s >>
      OBVIOUS
    <3>3. k[1] = i /\ k[2] = s
      BY <3>2
    <3>4. k \in Slots
      BY <1>1, <1>9, <3>1, <3>2 DEF Slots
    <3>5. SlotAt(k) = slots[s] /\ Start(k) = PageOff(i) + slots[s].rec_offset
      BY <1>1, <3>3 DEF SlotAt, Start
    <3>6. slots[s].rec_length # 0 /\ Start(k) + slots[s].rec_length <= Len(data)
      BY <2>1, <3>1, <3>5 DEF SlotOK
    <3>7. k \in Resident
      BY <3>1, <3>4, <3>5, <3>6 DEF Resident
    <3> QED
      BY <3>2, <3>3, <3>7
  <2>3. \A s \in U : << i, s >> \in T /\ f[<< i, s >>] = s
    <3> HIDE DEF U, T
    <3> QED
      BY <2>2
  <2>4. f \in Surjection(T, U)
    <3> HIDE DEF f, T, U
    <3> QED
      BY <1>6, <2>3 DEF Surjection
  <2> QED
    BY <1>8, <2>4
<1> HIDE DEF T, U
<1>10. PageStats(i).type = "DATA" /\ spans[i].length = page_size =>
         PageStats(i).used_slots = Cardinality(T)
  BY <1>2, <1>9
<1>11. Cardinality(T) <= PageStats(i).used_slots
  BY <1>2, <1>8
<1> QED
  BY <1>10, <1>11 DEF T

-----------------------------------------------------------------------------
(* The overflow walk.  A page's share of a chain, as Follows writes it.    *)
Slice(i) ==
  SubSeq(data, PageOff(i) + kPageHeaderSize + 1,
         Smaller(PageOff(i) + Smaller(PageAt(i).free_start, page_size), Len(data)))

Slices(v) == [n \in DOMAIN v |-> Slice(v[n])]

Path(v) ==
  /\ \A n \in 1 .. (Len(v) - 1) : v[n + 1] = Link(v[n])
  /\ Cardinality(ToSet(v)) = Len(v)
  /\ ToSet(v) \subseteq Walked
  /\ Len(v) <= max_pages

Taken == SubSeq(visited, 1, Len(visited) - Refused)

(* The walk stands on the page that the last one visited points to.        *)
WalkInv ==
  /\ FileOK
  /\ visited \in Seq(Nat) /\ bytes \in Seq(Symbols)
  /\ chain_status = "idle" => visited = << >> /\ bytes = << >>
  /\ chain_status = "walking" =>
       current \in Walked /\ (visited # << >> => current = Link(visited[Len(visited)]))
  /\ Path(visited)
  /\ Len(bytes) <= max_bytes /\ bytes = FlattenSeq(Slices(Taken))
  /\ StopExplained

LEMMA PayloadSlice ==
  ASSUME FileOK, NEW i \in Walked
  PROVE  Payload(i) = Slice(i) /\ Payload(i) \in Seq(Symbols)
<1>1. PICK off, size, free : off = PageOff(i) /\ size = Len(data) /\ free = PageAt(i).free_start
  OBVIOUS
<1>2. /\ off \in Nat /\ size \in Nat /\ free \in Nat /\ off < size
      /\ page_size \in Nat /\ page_size > 2 /\ data \in Seq(Symbols)
  BY <1>1, SpanOK, PageAtOK, StorageAssumption DEF PageOK, FileOK, Walked, kPageHeaderSize
<1>3. derive_spans[i].file_offset = off /\ derive_spans[i].length = Smaller(size - off, page_size)
  BY <1>1, <1>2 DEF derive_spans
<1>4. PICK stop : stop = Smaller(free, Smaller(size - off, page_size))
  OBVIOUS
<1>5. stop \in Nat /\ off + stop = Smaller(off + Smaller(free, page_size), size) /\ off + stop <= size
  BY <1>2, <1>4 DEF Smaller
<1>6. Slice(i) = SubSeq(data, off + 2 + 1, off + stop)
  BY <1>1, <1>5 DEF Slice, kPageHeaderSize
<1>7. Payload(i) = IF stop > 2 THEN SubSeq(data, off + 2 + 1, off + 2 + (stop - 2)) ELSE << >>
  BY <1>1, <1>3, <1>4 DEF Payload, Bytes, kPageHeaderSize
<1>8. CASE stop > 2
  <2>1. off + 2 + (stop - 2) = off + stop
    BY <1>2, <1>5
  <2>2. SubSeq(data, off + 2 + 1, off + stop) \in Seq(Symbols)
    BY <1>1, <1>2, <1>5, <1>8
  <2> QED
    BY <1>6, <1>7, <1>8, <2>1, <2>2
<1>9. CASE ~(stop > 2)
  <2>1. off + 2 + 1 > off + stop /\ off + 2 + 1 \in Nat /\ off + stop \in Nat
    BY <1>2, <1>5, <1>9
  <2>2. SubSeq(data, off + 2 + 1, off + stop) = << >>
    BY <1>2, <2>1
  <2>3. << >> \in Seq(Symbols)
    OBVIOUS
  <2> QED
    BY <1>6, <1>7, <1>9, <2>2, <2>3
<1> QED
  BY <1>8, <1>9

(* Everything about pages is a function of the file.                       *)
LEMMA SameFile ==
  ASSUME data' = data
  PROVE  /\ Walked' = Walked /\ (FileOK' <=> FileOK)
         /\ \A i : PageAt(i)' = PageAt(i) /\ Link(i)' = Link(i)
                   /\ Slice(i)' = Slice(i) /\ Payload(i)' = Payload(i)
         /\ \A v : (Path(v)' <=> Path(v)) /\ Slices(v)' = Slices(v)
<1>1. Walked' = Walked
  BY DEF Walked
<1>2. spans' = spans /\ derive_spans' = derive_spans
  BY <1>1 DEF spans, derive_spans
<1>3. \A i : At(i)' = At(i)
  BY DEF At
<1>4. \A i : PageAt(i)' = PageAt(i)
  BY <1>2, <1>3 DEF PageAt
<1>5. FileOK' <=> FileOK
  BY <1>1, <1>3 DEF FileOK, Framed
<1>6. \A i : Link(i)' = Link(i) /\ Slice(i)' = Slice(i)
  BY <1>4 DEF Link, Slice
<1>7. \A i : Payload(i)' = Payload(i)
  BY <1>2, <1>4 DEF Payload, Bytes
<1>8. \A v : (Path(v)' <=> Path(v)) /\ Slices(v)' = Slices(v)
  BY <1>1, <1>6 DEF Path, Slices
<1> QED
  BY <1>1, <1>4, <1>5, <1>6, <1>7, <1>8

Grown(v, c) ==
  /\ Append(v, c) \in Seq(Nat) /\ Append(v, c) # << >>
  /\ Len(Append(v, c)) = Len(v) + 1 /\ Append(v, c)[Len(v) + 1] = c
  /\ \A n \in 1 .. Len(v) : Append(v, c)[n] = v[n]
  /\ ToSet(Append(v, c)) = ToSet(v) \cup {c}
  /\ SubSeq(Append(v, c), 1, Len(v)) = v

LEMMA AppendGrows ==
  ASSUME NEW v \in Seq(Nat), NEW c \in Nat
  PROVE  Grown(v, c)
<1> DEFINE w == Append(v, c)
<1>1. /\ w \in Seq(Nat) /\ Len(w) = Len(v) + 1 /\ w[Len(v) + 1] = c /\ Len(v) \in Nat
      /\ DOMAIN w = 1 .. (Len(v) + 1) /\ DOMAIN v = 1 .. Len(v)
      /\ \A n \in 1 .. Len(v) : w[n] = v[n]
  OBVIOUS
<1> HIDE DEF w
<1>2. w # << >>
  BY <1>1
<1>3. ToSet(w) = ToSet(v) \cup {c}
  <2>1. \A x : x \in ToSet(w) <=> \E n \in 1 .. (Len(v) + 1) : x = w[n]
    BY <1>1 DEF ToSet
  <2>2. \A x : x \in ToSet(v) <=> \E n \in 1 .. Len(v) : x = w[n]
    BY <1>1 DEF ToSet
  <2>3. \A n \in 1 .. (Len(v) + 1) : n \in 1 .. Len(v) \/ n = Len(v) + 1
    BY <1>1
  <2>4. \A n \in 1 .. Len(v) : n \in 1 .. (Len(v) + 1)
    BY <1>1
  <2>5. Len(v) + 1 \in 1 .. (Len(v) + 1)
    BY <1>1
  <2> QED
    BY <1>1, <2>1, <2>2, <2>3, <2>4, <2>5
<1>4. SubSeq(w, 1, Len(v)) = v
  <2>1. Len(v) \in 0 .. Len(w)
    BY <1>1
  <2>2. /\ SubSeq(w, 1, Len(v)) \in Seq(Nat) /\ Len(SubSeq(w, 1, Len(v))) = Len(v)
        /\ \A p \in 1 .. Len(v) : SubSeq(w, 1, Len(v))[p] = w[p]
    BY <1>1, <2>1, PrefixAt
  <2>3. PICK u : u = SubSeq(w, 1, Len(v))
    OBVIOUS
  <2>4. u \in Seq(Nat) /\ Len(u) = Len(v) /\ \A p \in 1 .. Len(v) : u[p] = v[p]
    BY <1>1, <2>2, <2>3
  <2>5. u = v
    BY <2>4
  <2> QED
    BY <2>3, <2>5
<1> QED
  BY <1>1, <1>2, <1>3, <1>4 DEF Grown, w

LEMMA WalkedFinite == IsFiniteSet(Walked) /\ Walked \in SUBSET Nat
<1>1. 0 \in Int /\ page_count - 1 \in Int
  BY StorageAssumption
<1>2. IsFiniteSet(0 .. (page_count - 1))
  BY <1>1, FS_Interval
<1>3. Walked \in SUBSET (0 .. (page_count - 1))
  BY DEF Walked
<1>4. IsFiniteSet(Walked)
  BY <1>2, <1>3, FS_Subset
<1> QED
  BY <1>1, <1>3, <1>4

LEMMA PathOn ==
  ASSUME NEW v \in Seq(Nat), Path(v), NEW c \in Walked, c \notin ToSet(v), Len(v) < max_pages,
         v # << >> => c = Link(v[Len(v)])
  PROVE  Path(Append(v, c)) /\ Grown(v, c)
<1>1. Grown(v, c)
  BY WalkedFinite, AppendGrows
<1>2. PICK w : w = Append(v, c)
  OBVIOUS
<1>3. Len(w) = Len(v) + 1 /\ Len(v) \in Nat /\ ToSet(w) = ToSet(v) \cup {c}
  BY <1>1, <1>2 DEF Grown
<1>4. \A n \in 1 .. (Len(w) - 1) : w[n + 1] = Link(w[n])
  <2>1. SUFFICES ASSUME NEW n \in 1 .. (Len(w) - 1) PROVE w[n + 1] = Link(w[n])
    OBVIOUS
  <2>2. n \in 1 .. Len(v) /\ w[n] = v[n]
    BY <1>1, <1>2, <1>3 DEF Grown
  <2>3. CASE n = Len(v)
    <3>1. w[n + 1] = c
      BY <1>1, <1>2, <2>3 DEF Grown
    <3>2. v # << >>
      BY <2>2
    <3> QED
      BY <2>2, <2>3, <3>1, <3>2
  <2>4. CASE n # Len(v)
    <3>1. n + 1 \in 1 .. Len(v) /\ n \in 1 .. (Len(v) - 1)
      BY <1>3, <2>2, <2>4
    <3>2. w[n + 1] = v[n + 1]
      BY <1>1, <1>2, <3>1 DEF Grown
    <3> QED
      BY <2>2, <3>1, <3>2 DEF Path
  <2> QED
    BY <2>3, <2>4
<1>5. Cardinality(ToSet(w)) = Len(w)
  <2>1. ToSet(v) \in SUBSET Walked /\ Cardinality(ToSet(v)) = Len(v)
    BY DEF Path
  <2>2. IsFiniteSet(ToSet(v))
    BY <2>1, WalkedFinite, FS_Subset
  <2>3. PICK S : S = ToSet(v)
    OBVIOUS
  <2>4. IsFiniteSet(S) /\ c \notin S /\ Cardinality(S) = Len(v)
    BY <2>1, <2>2, <2>3
  <2>5. Cardinality(S \cup {c}) = Cardinality(S) + 1
    BY <2>4, FS_AddElement
  <2> QED
    BY <1>3, <2>3, <2>4, <2>5
<1>6. ToSet(w) \subseteq Walked
  BY <1>3 DEF Path
<1>7. Len(w) <= max_pages
  BY <1>3, OverflowAssumption
<1> QED
  BY <1>1, <1>2, <1>4, <1>5, <1>6, <1>7 DEF Path

LEMMA AppendIs ==
  ASSUME NEW X, NEW p \in Seq(X), NEW e \in X
  PROVE  Append(p, e) = [n \in 1 .. (Len(p) + 1) |-> IF n = Len(p) + 1 THEN e ELSE p[n]]
<1>1. PICK w : w = Append(p, e)
  OBVIOUS
<1>2. /\ w \in Seq(X) /\ Len(w) = Len(p) + 1 /\ w[Len(p) + 1] = e /\ Len(p) \in Nat
      /\ \A n \in 1 .. Len(p) : w[n] = p[n]
  BY <1>1
<1>3. w = [n \in 1 .. (Len(p) + 1) |-> w[n]]
  BY <1>2
<1>4. \A n \in 1 .. (Len(p) + 1) : w[n] = IF n = Len(p) + 1 THEN e ELSE p[n]
  BY <1>2
<1> QED
  BY <1>1, <1>3, <1>4

LEMMA SlicesOn ==
  ASSUME FileOK, NEW v \in Seq(Nat), ToSet(v) \subseteq Walked, NEW c \in Walked
  PROVE  FlattenSeq(Slices(Append(v, c))) = FlattenSeq(Slices(v)) \o Payload(c)
<1>1. Grown(v, c)
  BY WalkedFinite, AppendGrows
<1>2. PICK w : w = Append(v, c)
  OBVIOUS
<1>3. /\ Len(v) \in Nat /\ DOMAIN v = 1 .. Len(v) /\ DOMAIN w = 1 .. (Len(v) + 1)
      /\ w[Len(v) + 1] = c /\ \A n \in 1 .. Len(v) : w[n] = v[n]
  BY <1>1, <1>2 DEF Grown
<1>4. \A n \in DOMAIN v : Slice(v[n]) \in Seq(Symbols)
  BY PayloadSlice DEF ToSet
<1>5. Slices(v) = [n \in 1 .. Len(v) |-> Slice(v[n])]
  BY <1>3 DEF Slices
<1>6. Slices(v) \in Seq(Seq(Symbols)) /\ Len(Slices(v)) = Len(v)
  BY <1>3, <1>4, <1>5
<1>7. Slice(c) = Payload(c) /\ Slice(c) \in Seq(Symbols)
  BY PayloadSlice
<1>8. Slices(w) = Append(Slices(v), Slice(c))
  <2>1. PICK p, e : p = Slices(v) /\ e = Slice(c)
    OBVIOUS
  <2>2. Slices(w) = [n \in 1 .. (Len(v) + 1) |-> Slice(w[n])]
    BY <1>3 DEF Slices
  <2>3. \A n \in 1 .. Len(v) : Slice(w[n]) = p[n]
    BY <1>3, <1>5, <2>1
  <2>4. Slice(w[Len(v) + 1]) = e
    BY <1>3, <2>1
  <2>5. Append(p, e) = [n \in 1 .. (Len(v) + 1) |-> IF n = Len(v) + 1 THEN e ELSE p[n]]
    <3>1. p \in Seq(Seq(Symbols)) /\ e \in Seq(Symbols) /\ Len(p) = Len(v)
      BY <1>6, <1>7, <2>1
    <3> QED
      BY <3>1, AppendIs
  <2>6. \A n \in 1 .. (Len(v) + 1) : n = Len(v) + 1 \/ n \in 1 .. Len(v)
    BY <1>3
  <2>7. \A n \in 1 .. (Len(v) + 1) : Slice(w[n]) = IF n = Len(v) + 1 THEN e ELSE p[n]
    BY <2>3, <2>4, <2>6
  <2> QED
    BY <2>1, <2>2, <2>5, <2>7
<1>9. FlattenSeq(Append(Slices(v), Slice(c))) = FlattenSeq(Slices(v)) \o Slice(c)
  BY <1>6, <1>7, FlattenAppend
<1> QED
  BY <1>2, <1>7, <1>8, <1>9

LEMMA EmptyWalk ==
  ASSUME visited = << >>, bytes = << >>
  PROVE  /\ visited \in Seq(Nat) /\ bytes \in Seq(Symbols)
         /\ Path(visited) /\ Len(bytes) <= max_bytes
         /\ Refused = 0 => bytes = FlattenSeq(Slices(Taken))
<1>1. visited \in Seq(Nat) /\ Len(visited) = 0 /\ DOMAIN visited = {}
  OBVIOUS
<1>2. bytes \in Seq(Symbols) /\ Len(bytes) = 0
  OBVIOUS
<1>3. ToSet(visited) = {} /\ Cardinality({}) = 0
  BY <1>1, FS_EmptySet DEF ToSet
<1>4. Path(visited)
  BY <1>1, <1>3, OverflowAssumption DEF Path
<1>5. Refused = 0 => bytes = FlattenSeq(Slices(Taken))
  <2>1. SUFFICES ASSUME Refused = 0 PROVE bytes = FlattenSeq(Slices(Taken))
    OBVIOUS
  <2>2. Taken = << >> /\ DOMAIN Taken = {}
    BY <1>1, <2>1 DEF Taken
  <2>3. Slices(Taken) = << >>
    BY <2>2 DEF Slices
  <2>4. FlattenSeq(<< >>) = << >>
    BY DEF FlattenSeq
  <2> QED
    BY <2>3, <2>4
<1> QED
  BY <1>1, <1>2, <1>4, <1>5, OverflowAssumption

LEMMA WalkInit == InitWalk /\ FileOK => WalkInv
<1> SUFFICES ASSUME InitWalk, FileOK PROVE WalkInv
  OBVIOUS
<1>1. chain_status = "idle" /\ visited = << >> /\ bytes = << >> /\ Refused = 0
  BY DEF InitWalk, Refused
<1>2. StopExplained
  BY <1>1 DEF StopExplained
<1> QED
  BY <1>1, <1>2, EmptyWalk DEF WalkInv

LEMMA CutStep ==
  ASSUME WalkInv, chain_status = "idle", Cut, UNCHANGED walk
  PROVE  WalkInv'
<1>1. FileOK'
  BY CutOK DEF WalkInv
<1>2. (chain_status = "idle" /\ visited = << >> /\ bytes = << >> /\ Refused = 0)'
  BY DEF WalkInv, walk, Refused
<1>3. StopExplained'
  BY <1>2 DEF StopExplained
<1>4. (visited = << >> /\ bytes = << >> =>
         /\ visited \in Seq(Nat) /\ bytes \in Seq(Symbols)
         /\ Path(visited) /\ Len(bytes) <= max_bytes
         /\ Refused = 0 => bytes = FlattenSeq(Slices(Taken)))'
  BY EmptyWalk, PTL
<1> QED
  BY <1>1, <1>2, <1>3, <1>4 DEF WalkInv

LEMMA StartStep ==
  ASSUME WalkInv, NEW i \in 0 .. page_count, reconstruct_overflow(i), data' = data
  PROVE  WalkInv'
<1>1. /\ chain_status = "idle" /\ visited = << >> /\ bytes = << >> /\ visited' = visited
      /\ bytes' = bytes /\ current' = i
      /\ chain_status' = IF i \in Walked THEN "walking" ELSE "BAD_START"
  BY DEF WalkInv, reconstruct_overflow
<1>2. Walked' = Walked /\ FileOK'
  BY SameFile DEF WalkInv
<1>3. Refused' = 0
  BY <1>1 DEF Refused
<1>4. StopExplained'
  BY <1>1, <1>2 DEF StopExplained
<1>5. (visited = << >> /\ bytes = << >> =>
         /\ visited \in Seq(Nat) /\ bytes \in Seq(Symbols)
         /\ Path(visited) /\ Len(bytes) <= max_bytes
         /\ Refused = 0 => bytes = FlattenSeq(Slices(Taken)))'
  BY EmptyWalk, PTL
<1> QED
  BY <1>1, <1>2, <1>3, <1>4, <1>5 DEF WalkInv

(* A stop that takes no page.                                              *)
LEMMA HaltStep ==
  ASSUME WalkInv, chain_status = "walking", data' = data, UNCHANGED << visited, bytes, current >>,
         \/ chain_status' = "CYCLE" /\ current \in Seen
         \/ chain_status' = "PAGE_LIMIT" /\ current \notin Seen /\ Len(visited) >= max_pages
  PROVE  WalkInv'
<1>1. PICK v, b : v = visited /\ b = bytes
  OBVIOUS
<1>2. /\ visited' = v /\ bytes' = b /\ Refused = 0 /\ Refused' = 0
      /\ v \in Seq(Nat) /\ b \in Seq(Symbols) /\ Path(v) /\ Len(b) <= max_bytes
      /\ b = FlattenSeq(Slices(SubSeq(v, 1, Len(v) - 0)))
      /\ current \in Walked /\ (v # << >> => current = Link(v[Len(v)]))
  BY <1>1 DEF WalkInv, Refused, Taken
<1>3. /\ FileOK' /\ Walked' = Walked /\ Path(v)' /\ \A u : Slices(u)' = Slices(u)
      /\ \A i : Link(i)' = Link(i)
  BY <1>2, SameFile DEF WalkInv
<1>4. Path(visited)' /\ Taken' = SubSeq(v, 1, Len(v) - 0)
  <2>1. Path(v)' <=> Path(visited)'
    BY <1>2 DEF Path
  <2> QED
    BY <1>2, <1>3, <2>1 DEF Taken
<1>5. Slices(Taken)' = Slices(SubSeq(v, 1, Len(v) - 0))
  <2>1. PICK u : u = SubSeq(v, 1, Len(v) - 0)
    OBVIOUS
  <2>2. Slices(Taken)' = Slices(u)'
    BY <1>4, <2>1 DEF Slices
  <2> QED
    BY <1>3, <2>1, <2>2
<1>6. Seen = ToSet(v) /\ Seen' = ToSet(v) /\ Len(v) \in Nat /\ Len(v) <= max_pages
  BY <1>1, <1>2 DEF Seen, Path
<1>7. CASE chain_status' = "CYCLE" /\ current \in Seen
  <2>1. v # << >>
    BY <1>6, <1>7 DEF ToSet
  <2>2. Link(v[Len(v)])' \in Seen'
    BY <1>2, <1>3, <1>6, <1>7, <2>1
  <2>3. Link(visited[Len(visited)])' = Link(v[Len(v)])'
    BY <1>2 DEF Link
  <2>4. StopExplained'
    BY <1>7, <2>2, <2>3 DEF StopExplained
  <2> QED
    BY <1>2, <1>3, <1>4, <1>5, <1>7, <2>4 DEF WalkInv
<1>8. CASE chain_status' = "PAGE_LIMIT" /\ current \notin Seen /\ Len(visited) >= max_pages
  <2>1. Len(v) = max_pages
    BY <1>1, <1>6, <1>8, OverflowAssumption
  <2>2. v # << >> => Link(v[Len(v)])' \in Walked' \ Seen'
    BY <1>2, <1>3, <1>6, <1>8
  <2>3. Link(visited[Len(visited)])' = Link(v[Len(v)])'
    BY <1>2 DEF Link
  <2>4. StopExplained'
    BY <1>2, <1>8, <2>1, <2>2, <2>3 DEF StopExplained
  <2> QED
    BY <1>2, <1>3, <1>4, <1>5, <1>8, <2>4 DEF WalkInv
<1> QED
  BY <1>7, <1>8

(* What a visited page means for the walk, whether or not it is taken.     *)
Visited(v, c) ==
  /\ v \in Seq(Nat) /\ Path(v) /\ c \in Walked /\ c \notin ToSet(v) /\ Len(v) < max_pages
  /\ visited = v /\ visited' = Append(v, c) /\ current = c
  /\ Path(Append(v, c)) /\ Grown(v, c)
  /\ bytes \in Seq(Symbols) /\ bytes = FlattenSeq(Slices(v)) /\ Len(bytes) <= max_bytes

LEMMA VisitOn ==
  ASSUME WalkInv, Visit, data' = data
  PROVE  /\ \E v, c : Visited(v, c)
         /\ FileOK' /\ Walked' = Walked /\ \A u : Slices(u)' = Slices(u)
         /\ \A i : Link(i)' = Link(i) /\ Payload(i)' = Payload(i)
         /\ Path(visited)' /\ visited' \in Seq(Nat)
<1>1. PICK v, c : v = visited /\ c = current
  OBVIOUS
<1>2. /\ chain_status = "walking" /\ c \notin ToSet(v) /\ Len(v) < max_pages
      /\ visited' = Append(v, c) /\ Refused = 0
  BY <1>1 DEF Visit, Seen, Refused
<1>3. /\ v \in Seq(Nat) /\ Path(v) /\ c \in Walked /\ (v # << >> => c = Link(v[Len(v)]))
      /\ bytes \in Seq(Symbols) /\ bytes = FlattenSeq(Slices(Taken)) /\ Len(bytes) <= max_bytes
  BY <1>1, <1>2 DEF WalkInv
<1>4. Taken = v
  BY <1>1, <1>2, <1>3 DEF Taken
<1>5. Path(Append(v, c)) /\ Grown(v, c)
  BY <1>2, <1>3, PathOn
<1>6. Visited(v, c)
  BY <1>1, <1>2, <1>3, <1>4, <1>5 DEF Visited
<1>7. /\ FileOK' /\ Walked' = Walked /\ \A u : Slices(u)' = Slices(u)
      /\ \A i : Link(i)' = Link(i) /\ Payload(i)' = Payload(i)
      /\ \A u : Path(u)' <=> Path(u)
  BY SameFile DEF WalkInv
<1>8. Path(visited)' /\ visited' \in Seq(Nat)
  <2>1. PICK w : w = Append(v, c)
    OBVIOUS
  <2>2. Path(w)' <=> Path(visited)'
    BY <1>2, <2>1 DEF Path
  <2>3. Path(w)'
    BY <1>5, <1>7, <2>1
  <2> QED
    BY <1>2, <1>5, <2>2, <2>3 DEF Grown
<1> QED
  BY <1>6, <1>7, <1>8

LEMMA LengthLimitStep ==
  ASSUME WalkInv, length_limit, data' = data
  PROVE  WalkInv'
<1>1. Visit /\ ~Fits /\ chain_status' = "LENGTH_LIMIT" /\ bytes' = bytes
  BY DEF length_limit, Stop
<1>2. PICK v, c : Visited(v, c)
  BY <1>1, VisitOn
<1>3. /\ FileOK' /\ \A u : Slices(u)' = Slices(u) /\ \A i : Payload(i)' = Payload(i)
      /\ Path(visited)' /\ visited' \in Seq(Nat)
  BY <1>1, VisitOn
<1>4. Refused' = 1 /\ Taken' = v
  <2>1. Refused' = 1
    BY <1>1 DEF Refused
  <2>2. Len(visited') - 1 = Len(v) /\ visited' = Append(v, c)
    BY <1>2 DEF Visited, Grown
  <2>3. Taken' = SubSeq(Append(v, c), 1, Len(v))
    BY <2>1, <2>2 DEF Taken
  <2> QED
    BY <1>2, <2>1, <2>3 DEF Visited, Grown
<1>5. bytes' \in Seq(Symbols) /\ bytes' = FlattenSeq(Slices(Taken)') /\ Len(bytes') <= max_bytes
  <2>1. Slices(Taken)' = Slices(v)'
    BY <1>4 DEF Slices
  <2> QED
    BY <1>1, <1>2, <1>3, <2>1 DEF Visited
<1>6. StopExplained'
  <2>1. visited'[Len(visited')] = c /\ visited' # << >>
    BY <1>2 DEF Visited, Grown
  <2>2. Payload(visited[Len(visited)])' = Payload(c)'
    BY <2>1 DEF Payload
  <2>3. Len(bytes) \in Nat /\ Len(Payload(c)) \in Nat
    BY <1>2, PayloadSlice DEF Visited, WalkInv
  <2>4. Len(bytes) + Len(Payload(c)) > max_bytes
    BY <1>1, <1>2, <2>3, OverflowAssumption DEF Visited, Fits
  <2> QED
    BY <1>1, <1>3, <2>2, <2>4 DEF StopExplained
<1> QED
  BY <1>1, <1>3, <1>5, <1>6 DEF WalkInv

LEMMA FollowStep ==
  ASSUME WalkInv, follow, data' = data
  PROVE  WalkInv'
<1>1. /\ Visit /\ Fits /\ bytes' = bytes \o Payload(current)
      /\ LET nxt == Link(current)
         IN  \/ nxt = kNoOverflow /\ Stop("COMPLETE")
             \/ nxt # kNoOverflow /\ nxt \notin Walked /\ Stop("DANGLING_PAGE")
             \/ nxt # kNoOverflow /\ nxt \in Walked /\ current' = nxt /\ UNCHANGED chain_status
  BY DEF follow, Link
<1>2. PICK v, c : Visited(v, c)
  BY <1>1, VisitOn
<1>3. /\ FileOK' /\ Walked' = Walked /\ \A u : Slices(u)' = Slices(u) /\ \A i : Link(i)' = Link(i)
      /\ Path(visited)' /\ visited' \in Seq(Nat)
  BY <1>1, VisitOn
<1>4. chain_status = "walking" /\ Refused' = 0
  BY <1>1 DEF Visit, Stop, Refused
<1>5. /\ visited' = Append(v, c) /\ current = c
      /\ visited'[Len(visited')] = c /\ visited' # << >> /\ visited' \in Seq(Nat)
  BY <1>2 DEF Visited, Grown
<1>6. Taken' = Append(v, c)
  BY <1>4, <1>5 DEF Taken
<1>7. /\ bytes' \in Seq(Symbols) /\ Len(bytes') <= max_bytes
      /\ bytes' = FlattenSeq(Slices(Append(v, c)))
  <2>1. bytes \in Seq(Symbols) /\ Payload(c) \in Seq(Symbols)
    BY <1>2, PayloadSlice DEF Visited, WalkInv
  <2>2. bytes' = bytes \o Payload(c) /\ Len(bytes) + Len(Payload(c)) <= max_bytes
    BY <1>1, <1>5 DEF Fits
  <2>3. bytes' \in Seq(Symbols) /\ Len(bytes') = Len(bytes) + Len(Payload(c))
    BY <2>1, <2>2
  <2>4. FlattenSeq(Slices(Append(v, c))) = FlattenSeq(Slices(v)) \o Payload(c)
    BY <1>2, SlicesOn DEF Visited, Path, WalkInv
  <2> QED
    BY <1>2, <2>2, <2>3, <2>4 DEF Visited
<1>8. bytes' = FlattenSeq(Slices(Taken)')
  <2>1. PICK w : w = Append(v, c)
    OBVIOUS
  <2>2. Slices(Taken)' = Slices(w)'
    BY <1>6, <2>1 DEF Slices
  <2> QED
    BY <1>3, <1>7, <2>1, <2>2
<1>9. Link(visited[Len(visited)])' = Link(c)
  <2>1. Link(visited[Len(visited)])' = Link(c)'
    BY <1>5 DEF Link
  <2> QED
    BY <1>3, <2>1
<1>10. CASE Link(c) = kNoOverflow /\ Stop("COMPLETE")
  <2>1. chain_status' = "COMPLETE"
    BY <1>10 DEF Stop
  <2>2. StopExplained'
    BY <1>9, <1>10, <2>1 DEF StopExplained
  <2> QED
    BY <1>3, <1>7, <1>8, <2>1, <2>2 DEF WalkInv
<1>11. CASE Link(c) # kNoOverflow /\ Link(c) \notin Walked /\ Stop("DANGLING_PAGE")
  <2>1. chain_status' = "DANGLING_PAGE"
    BY <1>11 DEF Stop
  <2>2. StopExplained'
    BY <1>3, <1>9, <1>11, <2>1 DEF StopExplained
  <2> QED
    BY <1>3, <1>7, <1>8, <2>1, <2>2 DEF WalkInv
<1>12. CASE Link(c) \in Walked /\ current' = Link(c) /\ UNCHANGED chain_status
  <2>1. chain_status' = "walking"
    BY <1>4, <1>12
  <2>2. StopExplained'
    BY <2>1 DEF StopExplained
  <2> QED
    BY <1>3, <1>7, <1>8, <1>9, <1>12, <2>1, <2>2 DEF WalkInv
<1> QED
  BY <1>1, <1>5, <1>10, <1>11, <1>12

LEMMA WalkStutter ==
  ASSUME WalkInv, UNCHANGED << data, walk >>
  PROVE  WalkInv'
<1>1. /\ data' = data /\ visited' = visited /\ bytes' = bytes /\ current' = current
      /\ chain_status' = chain_status
  BY DEF walk
<1>2. PICK v, u : v = visited /\ u = Taken
  OBVIOUS
<1>3. /\ FileOK' /\ Walked' = Walked /\ (\A i : Link(i)' = Link(i) /\ Payload(i)' = Payload(i))
      /\ Path(v)' /\ Slices(u)' = Slices(u)
  BY <1>1, <1>2, SameFile DEF WalkInv
<1>4. Path(visited)' /\ Slices(Taken)' = Slices(Taken)
  <2>1. Path(visited)' <=> Path(v)'
    BY <1>1, <1>2 DEF Path
  <2>2. Taken' = u
    BY <1>1, <1>2 DEF Taken, Refused
  <2>3. Slices(Taken)' = Slices(u)'
    BY <2>2 DEF Slices
  <2> QED
    BY <1>2, <1>3, <2>1, <2>3
<1>5. PICK l : l = visited[Len(visited)]
  OBVIOUS
<1>6. /\ Link(visited[Len(visited)])' = Link(visited[Len(visited)])
      /\ Payload(visited[Len(visited)])' = Payload(visited[Len(visited)])
  <2>1. Link(visited[Len(visited)])' = Link(l)' /\ Payload(visited[Len(visited)])' = Payload(l)'
    BY <1>1, <1>5 DEF Link, Payload
  <2> QED
    BY <1>3, <1>5, <2>1
<1>7. Seen' = Seen
  BY <1>1 DEF Seen
<1>8. StopExplained'
  BY <1>1, <1>3, <1>6, <1>7 DEF WalkInv, StopExplained
<1> QED
  BY <1>1, <1>3, <1>4, <1>6, <1>8 DEF WalkInv

-----------------------------------------------------------------------------
(* Index pages.  key_compare is a strict total order of the keys.          *)
KeyLessAt(a, b, n) ==
  /\ n \in 0 .. Len(a) /\ n < Len(b)
  /\ \A i \in 1 .. n : a[i] = b[i]
  /\ n = Len(a) \/ a[n + 1] < b[n + 1]

LEMMA KeyLessIs ==
  ASSUME NEW a, NEW b
  PROVE  key_less(a, b) <=> \E n : KeyLessAt(a, b, n)
BY DEF key_less, KeyLessAt

LEMMA KeyLessIrreflexive ==
  ASSUME NEW a \in Seq(Nat)
  PROVE  ~key_less(a, a)
<1> SUFFICES ASSUME NEW n, KeyLessAt(a, a, n) PROVE FALSE
  BY KeyLessIs
<1>1. n \in Nat /\ n < Len(a) /\ n # Len(a) /\ a[n + 1] < a[n + 1] /\ a[n + 1] \in Nat
  BY DEF KeyLessAt
<1> QED
  BY <1>1

LEMMA KeyLessTransitive ==
  ASSUME NEW a \in Seq(Nat), NEW b \in Seq(Nat), NEW c \in Seq(Nat),
         key_less(a, b), key_less(b, c)
  PROVE  key_less(a, c)
<1>1. PICK n : KeyLessAt(a, b, n)
  BY KeyLessIs
<1>2. PICK m : KeyLessAt(b, c, m)
  BY KeyLessIs
<1>3. /\ Len(a) \in Nat /\ Len(b) \in Nat /\ Len(c) \in Nat
      /\ \A i \in 1 .. Len(a) : a[i] \in Nat
      /\ \A i \in 1 .. Len(b) : b[i] \in Nat
      /\ \A i \in 1 .. Len(c) : c[i] \in Nat
  OBVIOUS
<1>4. n \in Nat /\ n <= Len(a) /\ n < Len(b) /\ m \in Nat /\ m <= Len(b) /\ m < Len(c)
  <2>1. n \in 0 .. Len(a) /\ n < Len(b)
    BY <1>1 DEF KeyLessAt
  <2>2. m \in 0 .. Len(b) /\ m < Len(c)
    BY <1>2 DEF KeyLessAt
  <2> QED
    BY <1>3, <2>1, <2>2
<1>5. CASE n < m
  <2>1. b[n + 1] = c[n + 1]
    <3>1. n + 1 \in 1 .. m
      BY <1>4, <1>5
    <3> QED
      BY <1>2, <3>1 DEF KeyLessAt
  <2>2. \A i \in 1 .. n : a[i] = c[i]
    <3>1. \A i \in 1 .. n : i \in 1 .. m
      BY <1>4, <1>5
    <3> QED
      BY <1>1, <1>2, <3>1 DEF KeyLessAt
  <2>3. n \in 0 .. Len(a) /\ n < Len(c)
    BY <1>3, <1>4, <1>5
  <2>4. n = Len(a) \/ a[n + 1] < c[n + 1]
    BY <1>1, <2>1 DEF KeyLessAt
  <2>5. KeyLessAt(a, c, n)
    BY <2>2, <2>3, <2>4 DEF KeyLessAt
  <2> QED
    BY <2>5, KeyLessIs
<1>6. CASE n = m
  <2>1. b[n + 1] < c[n + 1] /\ n + 1 \in 1 .. Len(b) /\ n + 1 \in 1 .. Len(c)
    BY <1>2, <1>3, <1>4, <1>6 DEF KeyLessAt
  <2>2. n = Len(a) \/ a[n + 1] < c[n + 1]
    <3>1. CASE n = Len(a)
      BY <3>1
    <3>2. CASE n # Len(a)
      <4>1. n + 1 \in 1 .. Len(a) /\ a[n + 1] < b[n + 1]
        BY <1>1, <1>3, <1>4, <3>2 DEF KeyLessAt
      <4>2. PICK x, y, z : x = a[n + 1] /\ y = b[n + 1] /\ z = c[n + 1]
        OBVIOUS
      <4>3. x \in Nat /\ y \in Nat /\ z \in Nat
        BY <1>3, <2>1, <4>1, <4>2
      <4>4. x < y /\ y < z
        BY <2>1, <4>1, <4>2
      <4>5. x < z
        BY <4>3, <4>4
      <4> QED
        BY <4>2, <4>5
    <3> QED
      BY <3>1, <3>2
  <2>3. n \in 0 .. Len(a) /\ n < Len(c)
    BY <1>3, <1>4, <1>6
  <2>4. \A i \in 1 .. n : a[i] = c[i]
    BY <1>1, <1>2, <1>6 DEF KeyLessAt
  <2>5. KeyLessAt(a, c, n)
    BY <2>2, <2>3, <2>4 DEF KeyLessAt
  <2> QED
    BY <2>5, KeyLessIs
<1>7. CASE m < n
  <2>1. a[m + 1] = b[m + 1] /\ b[m + 1] < c[m + 1]
    <3>1. m + 1 \in 1 .. n /\ m # Len(b)
      BY <1>3, <1>4, <1>7
    <3> QED
      BY <1>1, <1>2, <3>1 DEF KeyLessAt
  <2>2. m \in 0 .. Len(a) /\ m < Len(c)
    BY <1>3, <1>4, <1>7
  <2>3. \A i \in 1 .. m : a[i] = c[i]
    <3>1. \A i \in 1 .. m : i \in 1 .. n
      BY <1>4, <1>7
    <3> QED
      BY <1>1, <1>2, <3>1 DEF KeyLessAt
  <2>4. a[m + 1] < c[m + 1]
    BY <2>1
  <2>5. KeyLessAt(a, c, m)
    BY <2>2, <2>3, <2>4 DEF KeyLessAt
  <2> QED
    BY <2>5, KeyLessIs
<1> QED
  BY <1>4, <1>5, <1>6, <1>7

LEMMA KeyLessTotal ==
  ASSUME NEW a \in Seq(Nat), NEW b \in Seq(Nat)
  PROVE  a = b \/ key_less(a, b) \/ key_less(b, a)
<1> DEFINE T == {n \in Nat : n < Len(a) /\ n < Len(b) /\ a[n + 1] # b[n + 1]}
<1>1. Len(a) \in Nat /\ Len(b) \in Nat
  OBVIOUS
<1>2. CASE T # {}
  <2>1. PICK n \in T : \A k \in T : n <= k
    BY <1>2, LeastNat
  <2>2. \A i \in 1 .. n : a[i] = b[i]
    <3>1. SUFFICES ASSUME NEW i \in 1 .. n, a[i] # b[i] PROVE FALSE
      OBVIOUS
    <3>2. i - 1 \in T
      <4>1. n \in Nat /\ n < Len(a) /\ n < Len(b)
        BY <2>1
      <4>2. PICK la, lb : la = Len(a) /\ lb = Len(b)
        OBVIOUS
      <4>3. la \in Nat /\ lb \in Nat /\ n < la /\ n < lb
        BY <1>1, <4>1, <4>2
      <4> HIDE DEF T
      <4>4. i - 1 \in Nat /\ (i - 1) + 1 = i /\ i - 1 < la /\ i - 1 < lb
        BY <4>1, <4>3
      <4> QED
        BY <3>1, <4>2, <4>4 DEF T
    <3> QED
      BY <2>1, <3>2
  <2>3. /\ n + 1 \in 1 .. Len(a) /\ n + 1 \in 1 .. Len(b) /\ a[n + 1] # b[n + 1]
        /\ n \in 0 .. Len(a) /\ n \in 0 .. Len(b) /\ n < Len(a) /\ n < Len(b)
    BY <1>1, <2>1
  <2>4. a[n + 1] < b[n + 1] \/ b[n + 1] < a[n + 1]
    BY <2>3
  <2>5. KeyLessAt(a, b, n) \/ KeyLessAt(b, a, n)
    BY <2>2, <2>3, <2>4 DEF KeyLessAt
  <2> QED
    BY <2>5, KeyLessIs
<1>3. CASE T = {}
  <2>1. \A i \in 1 .. Len(a) : i <= Len(b) => a[i] = b[i]
    <3>1. SUFFICES ASSUME NEW i \in 1 .. Len(a), i <= Len(b), a[i] # b[i] PROVE FALSE
      OBVIOUS
    <3>2. i - 1 \in T
      BY <1>1, <3>1
    <3> QED
      BY <1>3, <3>2
  <2>2. CASE Len(a) < Len(b)
    <3>1. KeyLessAt(a, b, Len(a))
      BY <1>1, <2>1, <2>2 DEF KeyLessAt
    <3> QED
      BY <3>1, KeyLessIs
  <2>3. CASE Len(b) < Len(a)
    <3>1. \A i \in 1 .. Len(b) : i \in 1 .. Len(a) /\ b[i] = a[i]
      BY <1>1, <2>1, <2>3
    <3>2. KeyLessAt(b, a, Len(b))
      BY <1>1, <2>3, <3>1 DEF KeyLessAt
    <3> QED
      BY <3>2, KeyLessIs
  <2>4. CASE Len(a) = Len(b)
    <3>1. \A i \in 1 .. Len(a) : a[i] = b[i]
      BY <1>1, <2>1, <2>4
    <3>2. a = b
      BY <2>4, <3>1
    <3> QED
      BY <3>2
  <2> QED
    BY <1>1, <2>2, <2>3, <2>4
<1> QED
  BY <1>2, <1>3

(* Entries with keys; one of them goes ahead of another in the sort.       *)
Keyed(es) == es \in Seq(Symbols) /\ \A p \in 1 .. Len(es) : es[p][2] \in Seq(Nat)

Ahead(es, j, i) == key_less(es[j][2], es[i][2]) \/ (es[j][2] = es[i][2] /\ j < i)

LEMMA AheadOrder ==
  ASSUME NEW es, Keyed(es)
  PROVE  /\ \A i \in 1 .. Len(es) : ~Ahead(es, i, i)
         /\ \A i, j, k \in 1 .. Len(es) : Ahead(es, i, j) /\ Ahead(es, j, k) => Ahead(es, i, k)
         /\ \A i, j \in 1 .. Len(es) : i = j \/ Ahead(es, i, j) \/ Ahead(es, j, i)
<1>1. Len(es) \in Nat /\ \A p \in 1 .. Len(es) : es[p][2] \in Seq(Nat) /\ p \in Nat
  BY DEF Keyed
<1>2. \A i \in 1 .. Len(es) : ~Ahead(es, i, i)
  BY <1>1, KeyLessIrreflexive DEF Ahead
<1>3. ASSUME NEW i \in 1 .. Len(es), NEW j \in 1 .. Len(es), NEW k \in 1 .. Len(es),
             Ahead(es, i, j), Ahead(es, j, k)
      PROVE  Ahead(es, i, k)
  <2>1. PICK a, b, c : a = es[i][2] /\ b = es[j][2] /\ c = es[k][2]
    OBVIOUS
  <2>2. a \in Seq(Nat) /\ b \in Seq(Nat) /\ c \in Seq(Nat)
    BY <1>1, <2>1
  <2>3. key_less(a, b) /\ key_less(b, c) => key_less(a, c)
    BY <2>2, KeyLessTransitive
  <2>4. (key_less(a, b) \/ (a = b /\ i < j)) /\ (key_less(b, c) \/ (b = c /\ j < k))
    BY <1>3, <2>1 DEF Ahead
  <2>5. i < j /\ j < k => i < k
    BY <1>1
  <2>6. key_less(a, c) \/ (a = c /\ i < k)
    BY <2>3, <2>4, <2>5
  <2> QED
    BY <2>1, <2>6 DEF Ahead
<1>4. ASSUME NEW i \in 1 .. Len(es), NEW j \in 1 .. Len(es)
      PROVE  i = j \/ Ahead(es, i, j) \/ Ahead(es, j, i)
  <2>1. es[i][2] = es[j][2] \/ key_less(es[i][2], es[j][2]) \/ key_less(es[j][2], es[i][2])
    BY <1>1, KeyLessTotal
  <2>2. i = j \/ i < j \/ j < i
    BY <1>1
  <2> QED
    BY <2>1, <2>2 DEF Ahead
<1> QED
  BY <1>2, <1>3, <1>4

(* stable_sort: the places are a permutation that puts Ahead first.        *)
InFront(es, i) == {j \in DOMAIN es : Ahead(es, j, i)}

Place(es, i) == 1 + Cardinality(InFront(es, i))

SortedBy(es, g) ==
  /\ g \in [1 .. Len(es) -> 1 .. Len(es)]
  /\ \A i \in 1 .. Len(es) : \E p \in 1 .. Len(es) : g[p] = i
  /\ \A p, q \in 1 .. Len(es) : p < q => Ahead(es, g[p], g[q])

LEMMA PlaceOrder ==
  ASSUME NEW es, Keyed(es)
  PROVE  /\ \A i \in 1 .. Len(es) : Place(es, i) \in 1 .. Len(es)
         /\ \A i, j \in 1 .. Len(es) : Ahead(es, j, i) => Place(es, j) < Place(es, i)
<1> DEFINE D == 1 .. Len(es)
<1>1. Len(es) \in Nat /\ DOMAIN es = D
  BY DEF Keyed
<1>2. IsFiniteSet(D) /\ Cardinality(D) = Len(es)
  <2>1. PICK n : n = Len(es)
    OBVIOUS
  <2>2. 1 \in Int /\ n \in Int /\ n \in Nat
    BY <1>1, <2>1
  <2>3. IsFiniteSet(1 .. n) /\ Cardinality(1 .. n) = IF 1 > n THEN 0 ELSE n - 1 + 1
    BY <2>2, FS_Interval
  <2>4. (IF 1 > n THEN 0 ELSE n - 1 + 1) = n
    BY <2>2
  <2> QED
    BY <2>1, <2>3, <2>4, Zenon
<1>3. ASSUME NEW i \in D
      PROVE  /\ InFront(es, i) \in SUBSET D /\ i \notin InFront(es, i)
             /\ IsFiniteSet(InFront(es, i)) /\ Cardinality(InFront(es, i)) \in Nat
             /\ Cardinality(InFront(es, i)) < Len(es)
  <2>1. InFront(es, i) \in SUBSET D /\ i \notin InFront(es, i)
    BY <1>1, AheadOrder DEF InFront
  <2>2. PICK A : A = InFront(es, i)
    OBVIOUS
  <2>3. A \in SUBSET D /\ A # D
    BY <2>1, <2>2
  <2> HIDE DEF D
  <2>4. IsFiniteSet(A) /\ Cardinality(A) <= Cardinality(D) /\ Cardinality(A) # Cardinality(D)
    BY <1>2, <2>3, FS_Subset
  <2>5. Cardinality(A) \in Nat
    BY <2>4, FS_CardinalityType
  <2>6. Cardinality(A) < Len(es)
    BY <1>1, <1>2, <2>4, <2>5
  <2> QED
    BY <2>1, <2>2, <2>4, <2>5, <2>6
<1>4. ASSUME NEW i \in D PROVE Place(es, i) \in D
  BY <1>1, <1>3 DEF Place
<1>5. ASSUME NEW i \in D, NEW j \in D, Ahead(es, j, i) PROVE Place(es, j) < Place(es, i)
  <2>1. PICK A, B : A = InFront(es, j) /\ B = InFront(es, i)
    OBVIOUS
  <2>2. A \in SUBSET B
    BY <1>1, <1>5, <2>1, AheadOrder DEF InFront
  <2>3. j \in B /\ j \notin A
    BY <1>1, <1>3, <1>5, <2>1 DEF InFront
  <2>4. IsFiniteSet(B) /\ Cardinality(A) \in Nat /\ Cardinality(B) \in Nat
    BY <1>3, <2>1
  <2>5. Cardinality(A) <= Cardinality(B) /\ Cardinality(A) # Cardinality(B)
    BY <2>2, <2>3, <2>4, FS_Subset
  <2> QED
    BY <2>1, <2>4, <2>5 DEF Place
<1> QED
  BY <1>4, <1>5

LEMMA SortExists ==
  ASSUME NEW es, Keyed(es)
  PROVE  \E g : SortedBy(es, g) /\ stable_sort(es) = [p \in 1 .. Len(es) |-> es[g[p]]]
<1> DEFINE D == 1 .. Len(es)
           f == [i \in D |-> Place(es, i)]
           g == [p \in D |-> CHOOSE i \in D : Place(es, i) = p]
<1>1. Len(es) \in Nat /\ DOMAIN es = D
  BY DEF Keyed
<1>2. /\ \A i \in D : Place(es, i) \in D
      /\ \A i, j \in D : Ahead(es, j, i) => Place(es, j) < Place(es, i)
  BY PlaceOrder
<1>3. \A i, j \in D : Place(es, i) = Place(es, j) => i = j
  <2>1. SUFFICES ASSUME NEW i \in D, NEW j \in D, Place(es, i) = Place(es, j), i # j PROVE FALSE
    OBVIOUS
  <2>2. Ahead(es, i, j) \/ Ahead(es, j, i)
    BY <2>1, AheadOrder
  <2>3. Place(es, i) \in Nat /\ (Place(es, i) < Place(es, j) \/ Place(es, j) < Place(es, i))
    BY <1>2, <2>2
  <2> QED
    BY <2>1, <2>3
<1>4. f \in Injection(D, D)
  <2>1. f \in [D -> D] /\ \A a, b \in D : f[a] = f[b] => a = b
    BY <1>2, <1>3
  <2> HIDE DEF f, D
  <2> QED
    BY <2>1 DEF Injection, IsInjective
<1>5. IsFiniteSet(D)
  BY <1>1, FS_Interval
<1>6. f \in Surjection(D, D)
  <2> HIDE DEF f, D
  <2> QED
    BY <1>4, <1>5, FS_Injection
<1>7. \A p \in D : \E i \in D : Place(es, i) = p
  <2>1. \A p \in D : \E i \in D : f[i] = p
    <3> HIDE DEF f, D
    <3> QED
      BY <1>6 DEF Surjection
  <2> QED
    BY <2>1
<1>8. \A p \in D : g[p] \in D /\ Place(es, g[p]) = p
  BY <1>7
<1>9. stable_sort(es) = [p \in D |-> es[g[p]]]
  <2>1. stable_sort(es) = [p \in DOMAIN es |-> es[CHOOSE i \in DOMAIN es : Place(es, i) = p]]
    BY DEF stable_sort, Place, InFront, Ahead
  <2>2. \A p \in D : g[p] = CHOOSE i \in DOMAIN es : Place(es, i) = p
    BY <1>1
  <2> HIDE DEF g, D
  <2> QED
    BY <1>1, <2>1, <2>2
<1>10. g \in [D -> D]
  BY <1>8
<1>11. \A i \in D : \E p \in D : g[p] = i
  <2>1. SUFFICES ASSUME NEW i \in D PROVE g[Place(es, i)] = i
    BY <1>2
  <2> HIDE DEF g
  <2> QED
    BY <1>2, <1>3, <1>8
<1>12. ASSUME NEW p \in D, NEW q \in D, p < q PROVE Ahead(es, g[p], g[q])
  <2> HIDE DEF g
  <2>1. g[p] \in D /\ g[q] \in D /\ Place(es, g[p]) = p /\ Place(es, g[q]) = q
    BY <1>8
  <2>2. p \in Nat /\ q \in Nat /\ p # q /\ ~(q < p)
    BY <1>12
  <2>3. g[p] # g[q]
    BY <2>1, <2>2
  <2>4. ~Ahead(es, g[q], g[p])
    BY <1>2, <2>1, <2>2
  <2> QED
    BY <2>1, <2>3, <2>4, AheadOrder
<1>13. SortedBy(es, g)
  <2> HIDE DEF g
  <2> QED
    BY <1>10, <1>11, <1>12 DEF SortedBy
<1> HIDE DEF g
<1> QED
  BY <1>9, <1>13

(* A set of positions without holes below is an initial interval.          *)
LEMMA InitialInterval ==
  ASSUME NEW n \in Nat, NEW P \in SUBSET (1 .. n),
         \A p \in P, q \in 1 .. n : q < p => q \in P
  PROVE  \E b \in 0 .. n : P = 1 .. b
<1> DEFINE T == {k \in Nat : k + 1 \notin P}
<1>1. n \in T
  OBVIOUS
<1>2. PICK b \in T : \A k \in T : b <= k
  BY <1>1, LeastNat
<1>3. b \in 0 .. n
  BY <1>1, <1>2
<1>4. \A i \in 1 .. b : i \in P
  <2>1. SUFFICES ASSUME NEW i \in 1 .. b, i \notin P PROVE FALSE
    OBVIOUS
  <2>2. i - 1 \in T
    BY <2>1
  <2> QED
    BY <1>2, <2>2
<1>5. \A p \in P : p \in 1 .. b
  <2>1. SUFFICES ASSUME NEW p \in P, p > b PROVE FALSE
    BY <1>2
  <2>2. b + 1 \in 1 .. n /\ (b + 1 = p \/ b + 1 < p) /\ b + 1 \notin P
    BY <1>2, <1>3, <2>1
  <2> QED
    BY <2>2
<1> QED
  BY <1>3, <1>4, <1>5

(* A page's entries after the sort: g tells where each was written.        *)
Indexed(es, ks, g) ==
  /\ Keyed(es) /\ SortedBy(es, g)
  /\ ks = [p \in 1 .. Len(es) |-> es[g[p]]]

LEMMA IndexedSorted ==
  ASSUME NEW es, NEW ks, NEW g, Indexed(es, ks, g)
  PROVE  /\ Keyed(ks) /\ Len(ks) = Len(es) /\ Len(es) \in Nat
         /\ \A p \in 1 .. Len(ks) : ks[p] = es[g[p]] /\ g[p] \in 1 .. Len(es)
         /\ \A p, q \in 1 .. Len(ks) : p < q => ~key_less(ks[q][2], ks[p][2])
<1>1. Len(es) \in Nat /\ es \in Seq(Symbols) /\ \A p \in 1 .. Len(es) : es[p] \in Symbols /\ es[p][2] \in Seq(Nat)
  BY DEF Indexed, Keyed
<1>2. \A p \in 1 .. Len(es) : g[p] \in 1 .. Len(es) /\ ks[p] = es[g[p]]
  BY DEF Indexed, SortedBy
<1>3. ks \in Seq(Symbols) /\ Len(ks) = Len(es)
  <2>1. ks = [p \in 1 .. Len(es) |-> ks[p]] /\ \A p \in 1 .. Len(es) : ks[p] \in Symbols
    BY <1>1, <1>2 DEF Indexed
  <2>2. ks \in [1 .. Len(es) -> Symbols]
    BY <2>1
  <2> QED
    BY <1>1, <2>2
<1>4. Keyed(ks)
  BY <1>1, <1>2, <1>3 DEF Keyed
<1>5. ASSUME NEW p \in 1 .. Len(ks), NEW q \in 1 .. Len(ks), p < q
      PROVE  ~key_less(ks[q][2], ks[p][2])
  <2>1. Ahead(es, g[p], g[q])
    BY <1>3, <1>5 DEF Indexed, SortedBy
  <2>2. PICK a, b : a = ks[p][2] /\ b = ks[q][2]
    OBVIOUS
  <2>3. a \in Seq(Nat) /\ b \in Seq(Nat) /\ (key_less(a, b) \/ a = b)
    BY <1>1, <1>2, <1>3, <2>1, <2>2 DEF Ahead
  <2>4. ~key_less(b, a)
    BY <2>3, KeyLessIrreflexive, KeyLessTransitive
  <2> QED
    BY <2>2, <2>4
<1> QED
  BY <1>1, <1>2, <1>3, <1>4, <1>5

(* The binary search.  With the entries below the key in 1 .. b, a window  *)
(* ends at b, or at the border that is nearest to it.                      *)
Nearest(b, lo, hi) == IF lo >= hi THEN lo ELSE IF b < lo THEN lo ELSE IF hi < b THEN hi ELSE b

Window(es) == (0 .. Len(es)) \X (0 .. Len(es))

Searches(es, key, f) ==
  f = [w \in Window(es) |->
         LET mid == w[1] + (w[2] - w[1]) \div 2
         IN  IF w[1] >= w[2] THEN w[1]
             ELSE f[IF key_less(es[mid + 1][2], key) THEN << mid + 1, w[2] >>
                                                     ELSE << w[1], mid >>]]

Halved(n, b, lo, hi, mid) ==
  /\ mid \in lo .. (hi - 1) /\ mid + 1 \in 1 .. n /\ mid \in 0 .. n
  /\ mid + 1 <= b => Nearest(b, mid + 1, hi) = Nearest(b, lo, hi)
  /\ ~(mid + 1 <= b) => Nearest(b, lo, mid) = Nearest(b, lo, hi)

LEMMA Halving ==
  ASSUME NEW n \in Nat, NEW b \in 0 .. n, NEW lo \in 0 .. n, NEW hi \in 0 .. n, lo < hi,
         NEW mid, mid = lo + (hi - lo) \div 2
  PROVE  Halved(n, b, lo, hi, mid)
<1>1. PICK h : h = (hi - lo) \div 2
  OBVIOUS
<1>2. h \in Nat /\ h < hi - lo /\ mid = lo + h
  BY <1>1
<1>3. mid \in lo .. (hi - 1) /\ mid + 1 \in 1 .. n /\ mid \in 0 .. n
  BY <1>2
<1> QED
  BY <1>3 DEF Halved, Nearest

Halves(es, key, f, lo, hi, mid) ==
  f[<< lo, hi >>] = IF lo >= hi THEN lo
                    ELSE f[IF key_less(es[mid + 1][2], key) THEN << mid + 1, hi >>
                                                            ELSE << lo, mid >>]

LEMMA SearchesAt ==
  ASSUME NEW es, NEW key, NEW f, Searches(es, key, f),
         NEW lo \in 0 .. Len(es), NEW hi \in 0 .. Len(es)
  PROVE  Halves(es, key, f, lo, hi, lo + (hi - lo) \div 2)
<1>1. PICK h : h = [w \in Window(es) |->
         LET mid == w[1] + (w[2] - w[1]) \div 2
         IN  IF w[1] >= w[2] THEN w[1]
             ELSE f[IF key_less(es[mid + 1][2], key) THEN << mid + 1, w[2] >>
                                                     ELSE << w[1], mid >>]]
  OBVIOUS
<1>2. f = h
  BY <1>1, Zenon DEF Searches
<1>3. << lo, hi >> \in Window(es)
  BY DEF Window
<1>4. PICK w : w = << lo, hi >>
  OBVIOUS
<1>5. w \in Window(es) /\ w[1] = lo /\ w[2] = hi
  BY <1>3, <1>4
<1>6. h[w] = IF lo >= hi THEN lo
             ELSE f[IF key_less(es[(lo + (hi - lo) \div 2) + 1][2], key)
                      THEN << (lo + (hi - lo) \div 2) + 1, hi >>
                      ELSE << lo, lo + (hi - lo) \div 2 >>]
  BY <1>1, <1>5
<1> QED
  BY <1>2, <1>4, <1>6, Zenon DEF Halves

Below(es, key, b) == b \in 0 .. Len(es) /\ \A p \in 1 .. Len(es) : key_less(es[p][2], key) <=> p <= b

LEMMA SearchExists ==
  ASSUME NEW es, Len(es) \in Nat, NEW key, NEW b, Below(es, key, b)
  PROVE  \E f : Searches(es, key, f)
<1> DEFINE f == [w \in Window(es) |-> Nearest(b, w[1], w[2])]
<1>1. b \in 0 .. Len(es)
  BY DEF Below
<1>2. ASSUME NEW w \in Window(es)
      PROVE  f[w] = LET mid == w[1] + (w[2] - w[1]) \div 2
                    IN  IF w[1] >= w[2] THEN w[1]
                        ELSE f[IF key_less(es[mid + 1][2], key) THEN << mid + 1, w[2] >>
                                                                ELSE << w[1], mid >>]
  <2>1. PICK lo, hi, mid : lo = w[1] /\ hi = w[2] /\ mid = lo + (hi - lo) \div 2
    OBVIOUS
  <2>2. lo \in 0 .. Len(es) /\ hi \in 0 .. Len(es) /\ f[w] = Nearest(b, lo, hi)
    BY <2>1 DEF Window
  <2>3. CASE lo >= hi
    <3>1. Nearest(b, lo, hi) = lo
      BY <2>3 DEF Nearest
    <3> HIDE DEF f
    <3> QED
      BY <2>1, <2>2, <2>3, <3>1
  <2>4. CASE ~(lo >= hi)
    <3>1. lo < hi
      BY <2>2, <2>4
    <3>2. /\ mid \in lo .. (hi - 1) /\ mid + 1 \in 1 .. Len(es) /\ mid \in 0 .. Len(es)
          /\ mid + 1 <= b => Nearest(b, mid + 1, hi) = Nearest(b, lo, hi)
          /\ ~(mid + 1 <= b) => Nearest(b, lo, mid) = Nearest(b, lo, hi)
      <4>1. Halved(Len(es), b, lo, hi, mid)
        BY <1>1, <2>1, <2>2, <3>1, Halving
      <4> QED
        BY <4>1 DEF Halved
    <3>3. key_less(es[mid + 1][2], key) <=> mid + 1 <= b
      BY <3>2 DEF Below
    <3>4. f[<< mid + 1, hi >>] = Nearest(b, mid + 1, hi) /\ f[<< lo, mid >>] = Nearest(b, lo, mid)
      BY <2>2, <3>2 DEF Window
    <3> HIDE DEF f
    <3> QED
      BY <2>1, <2>2, <2>4, <3>2, <3>3, <3>4
  <2> QED
    BY <2>3, <2>4
<1>3. f = [w \in Window(es) |-> f[w]]
  OBVIOUS
<1> HIDE DEF f
<1>4. Searches(es, key, f)
  BY <1>2, <1>3 DEF Searches
<1> QED
  BY <1>4

LEMMA SearchExact ==
  ASSUME NEW es, Len(es) \in Nat, NEW key, NEW b, Below(es, key, b), NEW f, Searches(es, key, f)
  PROVE  f[<< 0, Len(es) >>] = b
<1> DEFINE N == 0 .. Len(es)
           S == {d \in Nat : \A lo, hi \in N : hi - lo <= d => f[<< lo, hi >>] = Nearest(b, lo, hi)}
<1>1. b \in N
  BY DEF Below
<1>2. 0 \in S
  <2>1. SUFFICES ASSUME NEW lo \in N, NEW hi \in N, hi - lo <= 0
                 PROVE  f[<< lo, hi >>] = Nearest(b, lo, hi)
    OBVIOUS
  <2>2. lo >= hi
    BY <2>1
  <2>3. f[<< lo, hi >>] = lo
    <3>1. PICK mid : mid = lo + (hi - lo) \div 2
      OBVIOUS
    <3>2. Halves(es, key, f, lo, hi, mid)
      BY <3>1, SearchesAt
    <3> HIDE DEF N, S
    <3> QED
      BY <2>2, <3>2 DEF Halves
  <2> QED
    BY <2>2, <2>3 DEF Nearest
<1>3. ASSUME NEW d \in Nat, d \in S PROVE d + 1 \in S
  <2>1. SUFFICES ASSUME NEW lo \in N, NEW hi \in N, hi - lo <= d + 1
                 PROVE  f[<< lo, hi >>] = Nearest(b, lo, hi)
    OBVIOUS
  <2>2. \A l, h \in N : h - l <= d => f[<< l, h >>] = Nearest(b, l, h)
    BY <1>3
  <2>3. CASE hi - lo <= d
    BY <2>2, <2>3
  <2>4. CASE ~(hi - lo <= d)
    <3>1. lo < hi /\ ~(lo >= hi)
      BY <2>4
    <3>2. PICK mid : mid = lo + (hi - lo) \div 2
      OBVIOUS
    <3>3. /\ mid \in lo .. (hi - 1) /\ mid + 1 \in 1 .. Len(es) /\ mid \in 0 .. Len(es)
          /\ mid + 1 <= b => Nearest(b, mid + 1, hi) = Nearest(b, lo, hi)
          /\ ~(mid + 1 <= b) => Nearest(b, lo, mid) = Nearest(b, lo, hi)
      <4>1. Halved(Len(es), b, lo, hi, mid)
        BY <1>1, <3>1, <3>2, Halving
      <4> QED
        BY <4>1 DEF Halved
    <3>4. Halves(es, key, f, lo, hi, mid)
      BY <3>2, SearchesAt
    <3>5. key_less(es[mid + 1][2], key) <=> mid + 1 <= b
      BY <3>3 DEF Below
    <3>6. CASE mid + 1 <= b
      <4>1. f[<< lo, hi >>] = f[<< mid + 1, hi >>]
        BY <3>1, <3>4, <3>5, <3>6 DEF Halves
      <4>2. mid + 1 \in N /\ hi - (mid + 1) <= d
        BY <2>1, <3>3
      <4> QED
        BY <2>2, <3>3, <3>6, <4>1, <4>2
    <3>7. CASE ~(mid + 1 <= b)
      <4>1. f[<< lo, hi >>] = f[<< lo, mid >>]
        BY <3>1, <3>4, <3>5, <3>7 DEF Halves
      <4>2. mid \in N /\ mid - lo <= d
        BY <2>1, <3>3
      <4> QED
        BY <2>2, <3>3, <3>7, <4>1, <4>2
    <3> QED
      BY <3>6, <3>7
  <2> QED
    BY <2>3, <2>4
<1> HIDE DEF S
<1>4. Len(es) \in S
  BY <1>2, <1>3, SetInduction
<1>5. f[<< 0, Len(es) >>] = Nearest(b, 0, Len(es))
  BY <1>4 DEF S
<1>6. Nearest(b, 0, Len(es)) = b
  BY <1>1 DEF Nearest
<1> QED
  BY <1>5, <1>6

LEMMA LookupIs ==
  ASSUME NEW es, Len(es) \in Nat, NEW key, NEW b, Below(es, key, b)
  PROVE  lookup(es, key) = IF b < Len(es) /\ es[b + 1][2] = key THEN es[b + 1] ELSE "nullptr"
<1>1. PICK f : f = CHOOSE h : Searches(es, key, h)
  OBVIOUS
<1>2. Searches(es, key, f)
  BY <1>1, SearchExists
<1>3. f[<< 0, Len(es) >>] = b
  BY <1>2, SearchExact
<1>4. lookup(es, key) = IF f[<< 0, Len(es) >>] < Len(es) /\ es[f[<< 0, Len(es) >>] + 1][2] = key
                          THEN es[f[<< 0, Len(es) >>] + 1] ELSE "nullptr"
  BY <1>1 DEF lookup, Searches, Window
<1> QED
  BY <1>3, <1>4

LEMMA BelowExists ==
  ASSUME NEW es, NEW ks, NEW g, Indexed(es, ks, g), NEW key \in Seq(Nat)
  PROVE  \E b : Below(ks, key, b)
<1>1. /\ Keyed(ks) /\ Len(ks) \in Nat
      /\ \A p, q \in 1 .. Len(ks) : p < q => ~key_less(ks[q][2], ks[p][2])
  BY IndexedSorted
<1> DEFINE P == {p \in 1 .. Len(ks) : key_less(ks[p][2], key)}
<1>2. ASSUME NEW p \in P, NEW q \in 1 .. Len(ks), q < p PROVE q \in P
  <2>1. ~key_less(ks[p][2], ks[q][2]) /\ key_less(ks[p][2], key)
    BY <1>1, <1>2
  <2>2. ks[p][2] \in Seq(Nat) /\ ks[q][2] \in Seq(Nat)
    BY <1>1 DEF Keyed
  <2>3. ks[q][2] = ks[p][2] \/ key_less(ks[q][2], ks[p][2])
    BY <2>1, <2>2, KeyLessTotal
  <2>4. key_less(ks[q][2], key)
    BY <2>1, <2>2, <2>3, KeyLessTransitive
  <2> QED
    BY <2>4
<1>3. P \in SUBSET (1 .. Len(ks))
  OBVIOUS
<1>4. PICK b \in 0 .. Len(ks) : P = 1 .. b
  <2> HIDE DEF P
  <2> QED
    BY <1>1, <1>2, <1>3, InitialInterval
<1>5. \A p \in 1 .. Len(ks) : key_less(ks[p][2], key) <=> p \in 1 .. b
  BY <1>4
<1>6. \A p \in 1 .. Len(ks) : p \in 1 .. b <=> p <= b
  BY <1>1
<1> QED
  BY <1>5, <1>6 DEF Below

Hits(es, key) == {p \in DOMAIN es : es[p][2] = key}

LEMMA LookupFinds ==
  ASSUME NEW es, NEW ks, NEW g, Indexed(es, ks, g), NEW key \in Seq(Nat)
  PROVE  \/ Hits(es, key) = {} /\ lookup(ks, key) = "nullptr"
         \/ \E p \in Hits(es, key) : /\ \A q \in Hits(es, key) : p <= q
                                     /\ lookup(ks, key) = es[p]
<1>1. /\ Len(ks) = Len(es) /\ Len(es) \in Nat /\ DOMAIN es = 1 .. Len(es)
      /\ \A p \in 1 .. Len(ks) : ks[p] = es[g[p]] /\ g[p] \in 1 .. Len(es)
      /\ \A i \in 1 .. Len(es) : \E p \in 1 .. Len(es) : g[p] = i
      /\ \A p, q \in 1 .. Len(es) : p < q => Ahead(es, g[p], g[q])
  <2>1. es \in Seq(Symbols)
    BY DEF Indexed, Keyed
  <2>2. DOMAIN es = 1 .. Len(es) /\ Len(es) \in Nat
    BY <2>1
  <2>3. Len(ks) = Len(es) /\ \A p \in 1 .. Len(ks) : ks[p] = es[g[p]] /\ g[p] \in 1 .. Len(es)
    BY IndexedSorted
  <2>4. /\ \A i \in 1 .. Len(es) : \E p \in 1 .. Len(es) : g[p] = i
        /\ \A p, q \in 1 .. Len(es) : p < q => Ahead(es, g[p], g[q])
    BY DEF Indexed, SortedBy
  <2> QED
    BY <2>2, <2>3, <2>4
<1>2. PICK b : Below(ks, key, b)
  BY BelowExists
<1>3. b \in 0 .. Len(es) /\ \A p \in 1 .. Len(es) : key_less(es[g[p]][2], key) <=> p <= b
  BY <1>1, <1>2 DEF Below
<1>4. lookup(ks, key) = IF b < Len(ks) /\ ks[b + 1][2] = key THEN ks[b + 1] ELSE "nullptr"
  BY <1>1, <1>2, LookupIs
<1>5. ~key_less(key, key)
  BY KeyLessIrreflexive
<1>6. ASSUME NEW i \in Hits(es, key)
      PROVE  /\ b < Len(es) /\ es[g[b + 1]][2] = key
             /\ g[b + 1] <= i /\ g[b + 1] \in Hits(es, key)
  <2>1. i \in 1 .. Len(es) /\ es[i][2] = key
    BY <1>1 DEF Hits
  <2>2. PICK q \in 1 .. Len(es) : g[q] = i
    BY <1>1, <2>1
  <2>3. ~(q <= b)
    BY <1>3, <1>5, <2>1, <2>2
  <2>4. b < Len(es) /\ b + 1 \in 1 .. Len(es) /\ (q = b + 1 \/ b + 1 < q)
    <3>1. b \in 0 .. Len(es) /\ Len(es) \in Nat
      BY <1>1, <1>3
    <3> QED
      BY <2>3, <3>1
  <2>5. ~key_less(es[g[b + 1]][2], key)
    <3>1. ~(b + 1 <= b)
      BY <1>3
    <3> QED
      BY <1>3, <2>4, <3>1
  <2>6. CASE q = b + 1
    <3>1. g[b + 1] = i /\ i <= i
      BY <2>1, <2>2, <2>6
    <3> QED
      BY <2>1, <2>4, <3>1
  <2>7. CASE b + 1 < q
    <3>1. Ahead(es, g[b + 1], i)
      BY <1>1, <2>2, <2>4, <2>7
    <3>2. es[g[b + 1]][2] = key /\ g[b + 1] < i
      BY <2>1, <2>5, <3>1 DEF Ahead
    <3>3. g[b + 1] \in 1 .. Len(es)
      BY <1>1, <2>4
    <3>4. g[b + 1] <= i
      BY <2>1, <3>2, <3>3
    <3> QED
      BY <1>1, <2>4, <3>2, <3>3, <3>4 DEF Hits
  <2> QED
    BY <2>4, <2>6, <2>7
<1>7. CASE Hits(es, key) = {}
  <2>1. ~(b < Len(ks) /\ ks[b + 1][2] = key)
    <3>1. SUFFICES ASSUME b < Len(ks), ks[b + 1][2] = key PROVE FALSE
      OBVIOUS
    <3>2. b + 1 \in 1 .. Len(ks)
      BY <1>1, <1>3, <3>1
    <3>3. g[b + 1] \in Hits(es, key)
      BY <1>1, <3>1, <3>2 DEF Hits
    <3> QED
      BY <1>7, <3>3
  <2> QED
    BY <1>4, <1>7, <2>1
<1>8. CASE Hits(es, key) # {}
  <2>1. PICK i : i \in Hits(es, key)
    BY <1>8
  <2>2. b < Len(es) /\ es[g[b + 1]][2] = key /\ g[b + 1] \in Hits(es, key)
    BY <1>6, <2>1
  <2>3. b + 1 \in 1 .. Len(ks) /\ ks[b + 1] = es[g[b + 1]]
    BY <1>1, <1>3, <2>2
  <2>4. lookup(ks, key) = es[g[b + 1]]
    BY <1>1, <1>4, <2>2, <2>3
  <2>5. \A q \in Hits(es, key) : g[b + 1] <= q
    BY <1>6
  <2> QED
    BY <2>2, <2>4, <2>5
<1> QED
  BY <1>7, <1>8

(* The scan of a window.  Before position a the entries are skipped; from  *)
(* there on each is taken.                                                 *)
Collects(es, lo, f) ==
  f = [n \in 0 .. Len(es) |->
         CASE n = 0 -> << >>
           [] n # 0 /\ key_less(es[n][2], lo) -> f[n - 1]
           [] OTHER -> Append(f[n - 1], es[n])]

CollectsOn(es, lo, f, n) ==
  /\ n = 0 => f[n] = << >>
  /\ n # 0 /\ key_less(es[n][2], lo) => f[n] = f[n - 1]
  /\ n # 0 /\ ~key_less(es[n][2], lo) => f[n] = Append(f[n - 1], es[n])

LEMMA CollectsAt ==
  ASSUME NEW es, NEW lo, NEW f, Collects(es, lo, f), NEW n \in 0 .. Len(es)
  PROVE  CollectsOn(es, lo, f, n)
<1>1. PICK h : h = [m \in 0 .. Len(es) |->
                      CASE m = 0 -> << >>
                        [] m # 0 /\ key_less(es[m][2], lo) -> f[m - 1]
                        [] OTHER -> Append(f[m - 1], es[m])]
  OBVIOUS
<1>2. f = h
  BY <1>1, Zenon DEF Collects
<1>3. CollectsOn(es, lo, f, n) <=>
        /\ n = 0 => h[n] = << >>
        /\ n # 0 /\ key_less(es[n][2], lo) => h[n] = f[n - 1]
        /\ n # 0 /\ ~key_less(es[n][2], lo) => h[n] = Append(f[n - 1], es[n])
  BY <1>2, Zenon DEF CollectsOn
<1>4. h[n] = CASE n = 0 -> << >>
               [] n # 0 /\ key_less(es[n][2], lo) -> f[n - 1]
               [] OTHER -> Append(f[n - 1], es[n])
  BY <1>1
<1>5. /\ n = 0 => h[n] = << >>
      /\ n # 0 /\ key_less(es[n][2], lo) => h[n] = f[n - 1]
      /\ n # 0 /\ ~key_less(es[n][2], lo) => h[n] = Append(f[n - 1], es[n])
  BY <1>4
<1> QED
  BY <1>3, <1>5

Breadth(a, n) == IF n <= a THEN 0 ELSE n - a

Gathered(es, a, n) == [p \in 1 .. Breadth(a, n) |-> es[a + p]]

LEMMA GatheredStep ==
  ASSUME NEW X, NEW es \in Seq(X), NEW a \in 0 .. Len(es)
  PROVE  /\ Gathered(es, a, 0) = << >>
         /\ \A n \in 0 .. Len(es) : Gathered(es, a, n) \in Seq(X) /\ Len(Gathered(es, a, n)) = Breadth(a, n)
         /\ \A n \in 1 .. Len(es) : n <= a => Gathered(es, a, n) = Gathered(es, a, n - 1)
         /\ \A n \in 1 .. Len(es) :
              ~(n <= a) => Gathered(es, a, n) = Append(Gathered(es, a, n - 1), es[n])
<1>1. a \in Nat /\ Len(es) \in Nat
  OBVIOUS
<1>2. Gathered(es, a, 0) = << >>
  BY <1>1 DEF Gathered, Breadth
<1>3. ASSUME NEW n \in 0 .. Len(es)
      PROVE  Gathered(es, a, n) \in Seq(X) /\ Len(Gathered(es, a, n)) = Breadth(a, n)
  <2>1. PICK m : m = Breadth(a, n)
    OBVIOUS
  <2>2. m \in Nat /\ a + m <= IF n <= a THEN a ELSE n
    BY <1>1, <2>1 DEF Breadth
  <2>3. \A p \in 1 .. m : a + p \in 1 .. Len(es)
    BY <1>1, <2>1, <2>2 DEF Breadth
  <2>4. Gathered(es, a, n) = [p \in 1 .. m |-> es[a + p]]
    BY <2>1 DEF Gathered
  <2>5. Gathered(es, a, n) \in [1 .. m -> X]
    BY <2>3, <2>4
  <2> QED
    BY <2>1, <2>2, <2>5
<1>4. ASSUME NEW n \in 1 .. Len(es), n <= a PROVE Gathered(es, a, n) = Gathered(es, a, n - 1)
  <2>1. Breadth(a, n) = 0 /\ Breadth(a, n - 1) = 0
    BY <1>1, <1>4 DEF Breadth
  <2> QED
    BY <2>1 DEF Gathered
<1>5. ASSUME NEW n \in 1 .. Len(es), ~(n <= a)
      PROVE  Gathered(es, a, n) = Append(Gathered(es, a, n - 1), es[n])
  <2>1. PICK m, t : m = Breadth(a, n - 1) /\ t = Gathered(es, a, n - 1)
    OBVIOUS
  <2>2. n - 1 \in 0 .. Len(es)
    BY <1>1
  <2>3. t \in Seq(X) /\ Len(t) = m
    BY <1>3, <2>1, <2>2
  <2>4. m \in Nat /\ Breadth(a, n) = m + 1 /\ a + (m + 1) = n
    BY <1>1, <1>5, <2>1 DEF Breadth
  <2>5. Append(t, es[n]) = [p \in 1 .. (m + 1) |-> IF p = m + 1 THEN es[n] ELSE t[p]]
    <3>1. es[n] \in X
      OBVIOUS
    <3> QED
      BY <2>3, <3>1, AppendIs
  <2>6. \A p \in 1 .. (m + 1) : es[a + p] = IF p = m + 1 THEN es[n] ELSE t[p]
    <3>1. \A p \in 1 .. (m + 1) : p = m + 1 \/ p \in 1 .. m
      BY <2>4
    <3>2. \A p \in 1 .. m : t[p] = es[a + p]
      BY <2>1 DEF Gathered
    <3> QED
      BY <2>4, <3>1, <3>2
  <2>7. Gathered(es, a, n) = [p \in 1 .. (m + 1) |-> es[a + p]]
    BY <2>4 DEF Gathered
  <2> QED
    BY <2>1, <2>5, <2>6, <2>7
<1> QED
  BY <1>2, <1>3, <1>4, <1>5

LEMMA CollectExact ==
  ASSUME NEW X, NEW es \in Seq(X), NEW lo, NEW a, Below(es, lo, a), NEW f, Collects(es, lo, f)
  PROVE  \A n \in 0 .. Len(es) : f[n] = Gathered(es, a, n)
<1> DEFINE S == {n \in Nat : n <= Len(es) => f[n] = Gathered(es, a, n)}
<1>1. Len(es) \in Nat /\ a \in 0 .. Len(es)
  BY DEF Below
<1>2. 0 \in S
  <2>1. CollectsOn(es, lo, f, 0)
    BY <1>1, CollectsAt
  <2>2. f[0] = << >>
    BY <2>1 DEF CollectsOn
  <2>3. Gathered(es, a, 0) = << >>
    BY <1>1, GatheredStep
  <2> QED
    BY <2>2, <2>3
<1>3. ASSUME NEW m \in Nat, m \in S PROVE m + 1 \in S
  <2>1. SUFFICES ASSUME m + 1 <= Len(es) PROVE f[m + 1] = Gathered(es, a, m + 1)
    OBVIOUS
  <2>2. f[m] = Gathered(es, a, m)
    BY <1>1, <1>3, <2>1
  <2>3. PICK n : n = m + 1
    OBVIOUS
  <2>4. n \in 1 .. Len(es) /\ n \in 0 .. Len(es) /\ n # 0 /\ n - 1 = m
    BY <1>1, <2>1, <2>3
  <2>5. CollectsOn(es, lo, f, n)
    BY <2>4, CollectsAt
  <2>6. key_less(es[n][2], lo) <=> n <= a
    BY <2>4 DEF Below
  <2>7. /\ n <= a => Gathered(es, a, n) = Gathered(es, a, m)
        /\ ~(n <= a) => Gathered(es, a, n) = Append(Gathered(es, a, m), es[n])
    BY <1>1, <2>4, GatheredStep
  <2>8. /\ n <= a => f[n] = f[m]
        /\ ~(n <= a) => f[n] = Append(f[m], es[n])
    BY <2>4, <2>5, <2>6 DEF CollectsOn
  <2> QED
    BY <2>2, <2>3, <2>7, <2>8
<1> HIDE DEF S
<1>4. \A n \in Nat : n \in S
  BY <1>2, <1>3, SetInduction
<1> QED
  BY <1>1, <1>4 DEF S

LEMMA CollectExists ==
  ASSUME NEW X, NEW es \in Seq(X), NEW lo, NEW a, Below(es, lo, a)
  PROVE  \E f : Collects(es, lo, f)
<1> DEFINE f == [n \in 0 .. Len(es) |-> Gathered(es, a, n)]
<1>1. Len(es) \in Nat /\ a \in 0 .. Len(es)
  BY DEF Below
<1>2. ASSUME NEW n \in 0 .. Len(es)
      PROVE  f[n] = CASE n = 0 -> << >>
                      [] n # 0 /\ key_less(es[n][2], lo) -> f[n - 1]
                      [] OTHER -> Append(f[n - 1], es[n])
  <2>1. CASE n = 0
    <3>1. f[n] = << >>
      BY <1>1, <2>1, GatheredStep
    <3> QED
      BY <2>1, <3>1
  <2>2. CASE n # 0
    <3>1. n \in 1 .. Len(es) /\ n - 1 \in 0 .. Len(es)
      BY <1>1, <2>2
    <3>2. key_less(es[n][2], lo) <=> n <= a
      BY <3>1 DEF Below
    <3>3. f[n] = Gathered(es, a, n) /\ f[n - 1] = Gathered(es, a, n - 1)
      BY <3>1
    <3>4. /\ n <= a => Gathered(es, a, n) = Gathered(es, a, n - 1)
          /\ ~(n <= a) => Gathered(es, a, n) = Append(Gathered(es, a, n - 1), es[n])
      BY <1>1, <3>1, GatheredStep
    <3> HIDE DEF f
    <3> QED
      BY <2>2, <3>2, <3>3, <3>4
  <2> QED
    BY <2>1, <2>2
<1>3. f = [n \in 0 .. Len(es) |-> f[n]]
  OBVIOUS
<1> HIDE DEF f
<1>4. Collects(es, lo, f)
  BY <1>2, <1>3 DEF Collects
<1> QED
  BY <1>4

(* The scan stops behind the last entry that is not past the upper key.    *)
UpTo(es, hi, c) == c \in 0 .. Len(es) /\ \A p \in 1 .. Len(es) : ~key_less(hi, es[p][2]) <=> p <= c

Past(es, hi) == {p \in DOMAIN es : key_less(hi, es[p][2])}

StopAt(es, hi) ==
  IF Past(es, hi) = {} THEN Len(es) + 1
  ELSE CHOOSE p \in Past(es, hi) : \A q \in Past(es, hi) : p <= q

LEMMA StopExact ==
  ASSUME NEW es, NEW ks, NEW g, Indexed(es, ks, g), NEW hi \in Seq(Nat)
  PROVE  UpTo(ks, hi, StopAt(ks, hi) - 1)
<1>1. /\ Keyed(ks) /\ Len(ks) \in Nat
      /\ \A p, q \in 1 .. Len(ks) : p < q => ~key_less(ks[q][2], ks[p][2])
  BY IndexedSorted
<1>2. DOMAIN ks = 1 .. Len(ks)
  BY <1>1 DEF Keyed
<1>3. PICK L, P : L = Len(ks) /\ P = Past(ks, hi)
  OBVIOUS
<1>4. L \in Nat /\ P \in SUBSET (1 .. L) /\ \A p \in 1 .. L : p \in P <=> key_less(hi, ks[p][2])
  BY <1>1, <1>2, <1>3 DEF Past
<1>5. ASSUME NEW p \in P, NEW q \in 1 .. L, p < q PROVE q \in P
  <2>1. PICK kp, kq : kp = ks[p][2] /\ kq = ks[q][2]
    OBVIOUS
  <2>2. kp \in Seq(Nat) /\ kq \in Seq(Nat)
    BY <1>1, <1>3, <1>4, <2>1 DEF Keyed
  <2>3. key_less(hi, kp) /\ ~key_less(kq, kp)
    BY <1>1, <1>3, <1>4, <1>5, <2>1
  <2>4. kp = kq \/ key_less(kp, kq)
    BY <2>2, <2>3, KeyLessTotal
  <2>5. key_less(hi, kq)
    BY <2>2, <2>3, <2>4, KeyLessTransitive
  <2> QED
    BY <1>4, <2>1, <2>5
<1>6. PICK c : c = StopAt(ks, hi) - 1
  OBVIOUS
<1>7. c \in 0 .. L /\ \A p \in 1 .. L : p \in P <=> ~(p <= c)
  <2>1. CASE P = {}
    <3>1. StopAt(ks, hi) = L + 1
      BY <1>3, <2>1 DEF StopAt
    <3> QED
      BY <1>4, <1>6, <2>1, <3>1
  <2>2. CASE P # {}
    <3>1. \E p \in P : \A q \in P : p <= q
      BY <1>4, <2>2, LeastNat
    <3>2. PICK s : s = StopAt(ks, hi)
      OBVIOUS
    <3>3. s = CHOOSE p \in P : \A q \in P : p <= q
      BY <1>3, <2>2, <3>2 DEF StopAt
    <3>4. s \in P /\ \A q \in P : s <= q
      BY <3>1, <3>3
    <3>5. s \in 1 .. L /\ c = s - 1
      BY <1>4, <1>6, <3>2, <3>4
    <3>6. ASSUME NEW p \in 1 .. L PROVE p \in P <=> ~(p <= c)
      <4>1. ~(p <= c) <=> p = s \/ s < p
        BY <1>4, <3>5
      <4>2. p \in P => p = s \/ s < p
        BY <1>4, <3>4, <3>5
      <4>3. s < p => p \in P
        BY <1>5, <3>4
      <4> QED
        BY <3>4, <4>1, <4>2, <4>3
    <3> QED
      BY <1>4, <3>5, <3>6
  <2> QED
    BY <2>1, <2>2
<1>8. \A p \in 1 .. L : ~key_less(hi, ks[p][2]) <=> p <= c
  BY <1>4, <1>7
<1> QED
  BY <1>3, <1>6, <1>7, <1>8 DEF UpTo

LEMMA RangeIs ==
  ASSUME NEW es, NEW ks, NEW g, Indexed(es, ks, g), NEW lo \in Seq(Nat), NEW hi \in Seq(Nat),
         NEW a, Below(ks, lo, a), NEW c, c = StopAt(ks, hi) - 1
  PROVE  range(ks, lo, hi) = IF key_less(hi, lo) THEN << >> ELSE Gathered(ks, a, c)
<1>1. ks \in Seq(Symbols)
  BY IndexedSorted DEF Keyed
<1>2. c \in 0 .. Len(ks)
  BY StopExact DEF UpTo
<1>3. PICK f : f = CHOOSE h : Collects(ks, lo, h)
  OBVIOUS
<1>4. Collects(ks, lo, f)
  BY <1>1, <1>3, CollectExists
<1>5. f[c] = Gathered(ks, a, c)
  BY <1>1, <1>2, <1>4, CollectExact
<1>6. range(ks, lo, hi) = IF key_less(hi, lo) THEN << >> ELSE f[StopAt(ks, hi) - 1]
  BY <1>3 DEF range, Collects, StopAt, Past
<1> QED
  BY <1>5, <1>6

(* The positions of the entries in the window, and what listing them is.   *)
Between(es, lo, hi) == {p \in DOMAIN es : ~key_less(es[p][2], lo) /\ ~key_less(hi, es[p][2])}

Lists(es, r, B) ==
  /\ Len(r) = Cardinality(B)
  /\ \E g \in [1 .. Len(r) -> B] :
       /\ \A p \in DOMAIN r : r[p] = es[g[p]]
       /\ \A p, q \in DOMAIN r : p < q => Ahead(es, g[p], g[q])

LEMMA RangeLists ==
  ASSUME NEW es, NEW ks, NEW g, Indexed(es, ks, g), NEW lo \in Seq(Nat), NEW hi \in Seq(Nat)
  PROVE  Lists(es, range(ks, lo, hi), Between(es, lo, hi))
<1>1. /\ es \in Seq(Symbols) /\ ks \in Seq(Symbols)
      /\ Len(ks) = Len(es) /\ Len(es) \in Nat /\ DOMAIN es = 1 .. Len(es)
      /\ \A p \in 1 .. Len(es) : ks[p] = es[g[p]] /\ g[p] \in 1 .. Len(es)
      /\ \A p \in 1 .. Len(es) : es[p][2] \in Seq(Nat)
  <2>1. es \in Seq(Symbols) /\ \A p \in 1 .. Len(es) : es[p][2] \in Seq(Nat)
    BY DEF Indexed, Keyed
  <2>2. DOMAIN es = 1 .. Len(es)
    BY <2>1
  <2>3. /\ Keyed(ks) /\ Len(ks) = Len(es) /\ Len(es) \in Nat
        /\ \A p \in 1 .. Len(ks) : ks[p] = es[g[p]] /\ g[p] \in 1 .. Len(es)
    BY IndexedSorted
  <2>4. ks \in Seq(Symbols)
    BY <2>3 DEF Keyed
  <2> QED
    BY <2>1, <2>2, <2>3, <2>4
<1>2. /\ \A i \in 1 .. Len(es) : \E p \in 1 .. Len(es) : g[p] = i
      /\ \A p, q \in 1 .. Len(es) : p < q => Ahead(es, g[p], g[q])
  BY DEF Indexed, SortedBy
<1>3. PICK a : Below(ks, lo, a)
  BY BelowExists
<1>4. PICK c : c = StopAt(ks, hi) - 1
  OBVIOUS
<1>5. UpTo(ks, hi, c)
  BY <1>4, StopExact
<1>6. PICK B, r, L : B = Between(es, lo, hi) /\ r = range(ks, lo, hi) /\ L = Len(es)
  OBVIOUS
<1>7. /\ L \in Nat /\ a \in 0 .. L /\ c \in 0 .. L
      /\ B \in SUBSET (1 .. L)
      /\ \A p \in 1 .. L : g[p] \in B <=> ~(p <= a) /\ p <= c
  <2>1. a \in 0 .. L /\ \A p \in 1 .. L : key_less(ks[p][2], lo) <=> p <= a
    BY <1>1, <1>3, <1>6 DEF Below
  <2>2. c \in 0 .. L /\ \A p \in 1 .. L : ~key_less(hi, ks[p][2]) <=> p <= c
    BY <1>1, <1>5, <1>6 DEF UpTo
  <2>3. B \in SUBSET (1 .. L) /\ L \in Nat
    BY <1>1, <1>6 DEF Between
  <2>4. \A p \in 1 .. L : g[p] \in B <=> ~key_less(ks[p][2], lo) /\ ~key_less(hi, ks[p][2])
    BY <1>1, <1>6 DEF Between
  <2> QED
    BY <2>1, <2>2, <2>3, <2>4
<1>8. r = IF key_less(hi, lo) THEN << >> ELSE Gathered(ks, a, c)
  BY <1>3, <1>4, <1>6, RangeIs
<1>9. CASE key_less(hi, lo)
  <2>1. r = << >> /\ Len(r) = 0 /\ DOMAIN r = {} /\ 1 .. Len(r) = {}
    BY <1>8, <1>9
  <2>2. B = {}
    <3>1. SUFFICES ASSUME NEW p \in B PROVE FALSE
      OBVIOUS
    <3>2. PICK k : k = es[p][2]
      OBVIOUS
    <3>3. k \in Seq(Nat) /\ ~key_less(k, lo) /\ ~key_less(hi, k)
      BY <1>1, <1>6, <3>2 DEF Between
    <3>4. key_less(lo, k) \/ k = lo
      BY <3>3, KeyLessTotal
    <3> QED
      BY <1>9, <3>3, <3>4, KeyLessTransitive
  <2>3. Cardinality(B) = 0
    BY <2>2, FS_EmptySet
  <2>4. [p \in 1 .. Len(r) |-> p] \in [1 .. Len(r) -> B]
    BY <2>1, <2>2
  <2>5. Lists(es, r, B)
    BY <2>1, <2>3, <2>4 DEF Lists
  <2> QED
    BY <1>6, <2>5
<1>10. CASE ~key_less(hi, lo)
  <2>1. PICK m : m = Breadth(a, c)
    OBVIOUS
  <2>2. r = Gathered(ks, a, c)
    BY <1>8, <1>10
  <2>3. Len(r) = m /\ DOMAIN r = 1 .. m /\ \A p \in 1 .. m : r[p] = ks[a + p]
    <3>1. a \in 0 .. Len(ks) /\ c \in 0 .. Len(ks)
      BY <1>1, <1>6, <1>7
    <3>2. Len(r) = m
      BY <1>1, <2>1, <2>2, <3>1, GatheredStep
    <3> QED
      BY <2>1, <2>2, <3>2 DEF Gathered
  <2>4. m \in Nat /\ \A p \in 1 .. m : a + p \in 1 .. L /\ ~(a + p <= a) /\ a + p <= c
    BY <1>7, <2>1 DEF Breadth
  <2>5. PICK G : G = [p \in 1 .. m |-> g[a + p]]
    OBVIOUS
  <2>6. G \in [1 .. m -> B]
    BY <1>7, <2>4, <2>5
  <2>7. \A p \in 1 .. m : r[p] = es[G[p]]
    BY <1>1, <1>6, <2>3, <2>4, <2>5
  <2>8. \A p, q \in 1 .. m : p < q => Ahead(es, G[p], G[q])
    <3>1. SUFFICES ASSUME NEW p \in 1 .. m, NEW q \in 1 .. m, p < q PROVE Ahead(es, G[p], G[q])
      OBVIOUS
    <3>2. a + p \in 1 .. Len(es) /\ a + q \in 1 .. Len(es) /\ a + p < a + q
      <4>1. a + p \in 1 .. L /\ a + q \in 1 .. L
        BY <2>4
      <4>2. a \in Int /\ p \in Int /\ q \in Int
        BY <1>7
      <4>3. a + p < a + q
        BY <3>1, <4>2
      <4> QED
        BY <1>6, <4>1, <4>3
    <3>3. Ahead(es, g[a + p], g[a + q])
      BY <1>2, <3>2
    <3> QED
      BY <2>5, <3>3
  <2>9. Cardinality(B) = m
    <3>1. \A p, q \in 1 .. m : G[p] = G[q] => p = q
      <4>1. SUFFICES ASSUME NEW p \in 1 .. m, NEW q \in 1 .. m, G[p] = G[q], p # q PROVE FALSE
        OBVIOUS
      <4>2. Ahead(es, G[p], G[p])
        <5>1. p < q \/ q < p
          BY <2>4, <4>1
        <5> QED
          BY <2>8, <4>1, <5>1
      <4>3. G[p] \in 1 .. Len(es)
        BY <1>6, <1>7, <2>6
      <4>4. ~Ahead(es, G[p], G[p])
        BY <4>3, AheadOrder DEF Indexed
      <4> QED
        BY <4>2, <4>4
    <3>2. \A i \in B : \E p \in 1 .. m : G[p] = i
      <4>1. SUFFICES ASSUME NEW i \in B PROVE \E p \in 1 .. m : G[p] = i
        OBVIOUS
      <4>2. PICK q \in 1 .. L : g[q] = i
        BY <1>2, <1>6, <1>7
      <4>3. ~(q <= a) /\ q <= c
        BY <1>7, <4>2
      <4>4. q - a \in 1 .. m /\ a + (q - a) = q
        BY <1>7, <2>1, <4>3 DEF Breadth
      <4>5. G[q - a] = i
        BY <2>5, <4>2, <4>4
      <4> QED
        BY <4>4, <4>5
    <3>3. G \in Bijection(1 .. m, B)
      <4>1. G \in Injection(1 .. m, B)
        BY <2>6, <3>1 DEF Injection, IsInjective
      <4>2. G \in Surjection(1 .. m, B)
        BY <2>6, <3>2 DEF Surjection
      <4> QED
        BY <4>1, <4>2 DEF Bijection
    <3>4. ExistsBijection(1 .. m, B)
      BY <3>3 DEF ExistsBijection
    <3>5. IsFiniteSet(1 .. m) /\ Cardinality(1 .. m) = m
      <4>1. 1 \in Int /\ m \in Int
        BY <2>4
      <4> QED
        BY <2>4, <4>1, FS_Interval
    <3> QED
      BY <3>4, <3>5, FS_Bijection
  <2>10. Lists(es, r, B)
    BY <2>3, <2>6, <2>7, <2>8, <2>9 DEF Lists
  <2> QED
    BY <1>6, <2>10
<1> QED
  BY <1>9, <1>10

(* What an index page yields before the sort.                              *)
LEMMA Greatest ==
  ASSUME NEW k \in Nat, NEW S \in SUBSET (0 .. k), 0 \in S
  PROVE  \E n \in S : \A m \in S : m <= n
<1> DEFINE T == {d \in Nat : k - d \in S}
<1>1. T \in SUBSET Nat /\ k \in T
  <2>1. k - k = 0
    OBVIOUS
  <2> QED
    BY <2>1
<1>2. PICK d \in T : \A e \in T : d <= e
  BY <1>1, LeastNat
<1>3. k - d \in S /\ d \in Nat
  BY <1>2
<1>4. ASSUME NEW m \in S PROVE m <= k - d
  <2>1. k - m \in Nat /\ k - (k - m) = m /\ m \in Nat
    BY <1>4
  <2>2. k - m \in T
    BY <2>1
  <2>3. d <= k - m
    BY <1>2, <2>2
  <2> QED
    BY <1>3, <2>1, <2>3
<1> QED
  BY <1>3, <1>4

CutOut(X, s, m, n, len) ==
  /\ SubSeq(s, m, n) \in Seq(X) /\ Len(SubSeq(s, m, n)) = len
  /\ \A j \in 1 .. len : SubSeq(s, m, n)[j] = s[(m + j) - 1]

LEMMA SubSeqOK ==
  ASSUME NEW X, NEW s \in Seq(X), NEW m \in Nat, m > 0, NEW n \in Nat, n <= Len(s),
         NEW len \in Nat, (m + len) - 1 = n
  PROVE  CutOut(X, s, m, n, len)
<1>1. \A i \in m .. n : s[i] \in X
  <2>1. \A i \in m .. n : i \in 1 .. Len(s)
    OBVIOUS
  <2> QED
    BY <2>1
<1>2. len = (n - m) + 1 /\ (m <= n \/ len = 0)
  OBVIOUS
<1> QED
  BY <1>1, <1>2 DEF CutOut

Clean(body) == {n \in 0 .. Smaller(body[1][2], Len(body) - 1) :
                  \A j \in 1 .. n : Is(body[j + 1], "entry")}

LEMMA EntriesKeyed ==
  ASSUME NEW body \in Seq(Symbols), NEW n \in Nat, n < Len(body),
         \A j \in 1 .. n : Is(body[j + 1], "entry")
  PROVE  Keyed(SubSeq(body, 2, 1 + n))
<1>1. PICK w, e : w = SubSeq(body, 2, e) /\ e = 1 + n
  OBVIOUS
<1>2. 2 \in Nat /\ 2 > 0 /\ e \in Nat /\ e <= Len(body) /\ (2 + n) - 1 = e
  BY <1>1
<1>3. CutOut(Symbols, body, 2, e, n)
  BY <1>2, SubSeqOK
<1>4. w \in Seq(Symbols) /\ Len(w) = n /\ \A j \in 1 .. n : w[j] = body[(2 + j) - 1]
  BY <1>1, <1>3 DEF CutOut
<1>5. \A j \in 1 .. n : (2 + j) - 1 = j + 1 /\ j + 1 \in 1 .. Len(body)
  OBVIOUS
<1>6. \A j \in 1 .. n : body[j + 1] \in Symbols
  BY <1>5
<1>7. \A j \in 1 .. n : w[j] = body[j + 1]
  BY <1>4, <1>5
<1>8. \A j \in 1 .. n : w[j][2] \in Seq(Nat)
  BY <1>6, <1>7, SymbolFields
<1>9. Keyed(w)
  BY <1>4, <1>8 DEF Keyed
<1> QED
  BY <1>1, <1>9

LEMMA CleanKeyed ==
  ASSUME NEW body \in Seq(Symbols), Len(body) > 0, Is(body[1], "varint"),
         NEW n, n = CHOOSE k \in Clean(body) : \A m \in Clean(body) : m <= k
  PROVE  Keyed(SubSeq(body, 2, 1 + n))
<1>1. Len(body) \in Nat /\ body[1] \in Symbols
  OBVIOUS
<1>2. body[1][2] \in Nat
  BY <1>1, SymbolFields
<1>3. PICK k, S : k = Smaller(body[1][2], Len(body) - 1) /\ S = Clean(body)
  OBVIOUS
<1>4. k \in Nat /\ k < Len(body)
  BY <1>1, <1>2, <1>3 DEF Smaller
<1>5. S \in SUBSET (0 .. k) /\ \A m \in S : \A j \in 1 .. m : Is(body[j + 1], "entry")
  BY <1>3 DEF Clean
<1>6. 0 \in S
  BY <1>3, <1>4 DEF Clean
<1>7. n \in S
  BY <1>3, <1>4, <1>5, <1>6, Greatest
<1>8. n \in Nat /\ n < Len(body) /\ \A j \in 1 .. n : Is(body[j + 1], "entry")
  <2>1. n \in 0 .. k
    BY <1>5, <1>7
  <2>2. n \in Nat /\ n < Len(body)
    BY <1>1, <1>4, <2>1
  <2> QED
    BY <1>5, <1>7, <2>2
<1> QED
  BY <1>8, EntriesKeyed

LEMMA WrittenKeyed ==
  ASSUME FileOK, NEW i \in Walked
  PROVE  Keyed(Written(i))
<1>1. PICK off, len, body : /\ off = spans[i].file_offset + kPageHeaderSize
                            /\ len = spans[i].length
                            /\ body = Bytes(off, len - kPageHeaderSize)
  OBVIOUS
<1>2. Written(i) =
        IF len <= kPageHeaderSize \/ PageAt(i).type # "INDEX" \/ ~Is(body[1], "varint")
          THEN << >>
          ELSE SubSeq(body, 2, 1 + CHOOSE n \in Clean(body) : \A m \in Clean(body) : m <= n)
  BY <1>1 DEF Written, Clean
<1>3. CASE len <= kPageHeaderSize \/ PageAt(i).type # "INDEX" \/ ~Is(body[1], "varint")
  <2>1. Written(i) = << >>
    BY <1>2, <1>3
  <2>2. << >> \in Seq(Symbols) /\ Len(<< >>) = 0
    OBVIOUS
  <2> QED
    BY <2>1, <2>2 DEF Keyed
<1>4. CASE ~(len <= kPageHeaderSize \/ PageAt(i).type # "INDEX" \/ ~Is(body[1], "varint"))
  <2>1. PICK z : z = Len(data)
    OBVIOUS
  <2>2. /\ data \in Seq(Symbols) /\ z \in Nat /\ PageOff(i) \in Nat
        /\ len \in Nat /\ len > 2 /\ PageOff(i) + len <= z /\ off = PageOff(i) + 2
    BY <1>1, <1>4, <2>1, SpanOK DEF FileOK, kPageHeaderSize
  <2>3. body = SubSeq(data, off + 1, off + (len - 2))
    BY <1>1 DEF Bytes, kPageHeaderSize
  <2>4. off + 1 \in Nat /\ off + (len - 2) \in Nat /\ off + (len - 2) <= z /\ off + 1 <= off + (len - 2)
    BY <2>2
  <2>5. PICK b, e, l : b = off + 1 /\ e = off + (len - 2) /\ l = len - 2
    OBVIOUS
  <2>6. /\ b \in Nat /\ b > 0 /\ e \in Nat /\ e <= Len(data)
        /\ l \in Nat /\ l > 0 /\ (b + l) - 1 = e
    <3>1. off \in Nat
      BY <2>2
    <3>2. b \in Nat /\ b > 0 /\ l \in Nat /\ l > 0
      <4>1. len \in Nat /\ len > 2
        BY <2>2
      <4>2. l \in Nat /\ l > 0
        BY <2>5, <4>1
      <4>3. b \in Nat /\ b > 0
        BY <2>5, <3>1
      <4> QED
        BY <4>2, <4>3
    <3>3. (b + l) - 1 = e
      BY <2>5, <3>1, <3>2
    <3> QED
      BY <2>1, <2>4, <2>5, <3>2, <3>3
  <2>7. CutOut(Symbols, data, b, e, l)
    BY <2>2, <2>6, SubSeqOK
  <2>8. body \in Seq(Symbols) /\ Len(body) = l
    BY <2>3, <2>5, <2>7 DEF CutOut
  <2>9. Len(body) > 0
    BY <2>6, <2>8
  <2>10. PICK n : n = CHOOSE k \in Clean(body) : \A m \in Clean(body) : m <= k
    OBVIOUS
  <2>11. Keyed(SubSeq(body, 2, 1 + n))
    BY <1>4, <2>10, <2>8, <2>9, CleanKeyed
  <2> QED
    BY <1>2, <1>4, <2>10, <2>11
<1> QED
  BY <1>3, <1>4

(* LookupExact of one page.                                                *)
LookupOn(es, ks) ==
  \A key \in IndexKeys :
    \/ {p \in DOMAIN es : es[p][2] = key} = {} /\ lookup(ks, key) = "nullptr"
    \/ \E p \in {p \in DOMAIN es : es[p][2] = key} :
         /\ \A q \in {q \in DOMAIN es : es[q][2] = key} : p <= q
         /\ lookup(ks, key) = es[p]

RangeOn(es, ks) ==
  \A lo, hi \in IndexKeys : Lists(es, range(ks, lo, hi), Between(es, lo, hi))

LEMMA LookupHolds == FileOK => LookupExact(IndexKeys)
<1> SUFFICES ASSUME FileOK, NEW i \in Walked
             PROVE  LookupOn(Written(i), decode_index_page(i)) /\ RangeOn(Written(i), decode_index_page(i))
  BY Zenon DEF LookupExact, LookupOn, RangeOn, Between, Lists, Ahead
<1> SUFFICES ASSUME NEW es, NEW ks, es = Written(i), ks = decode_index_page(i)
             PROVE  LookupOn(es, ks) /\ RangeOn(es, ks)
  BY Zenon
<1>1. Keyed(es)
  BY WrittenKeyed
<1>2. PICK g : SortedBy(es, g) /\ stable_sort(es) = [p \in 1 .. Len(es) |-> es[g[p]]]
  BY <1>1, SortExists
<1>3. Indexed(es, ks, g)
  BY <1>1, <1>2 DEF Indexed, decode_index_page
<1>4. LookupOn(es, ks)
  <2>1. SUFFICES ASSUME NEW key \in IndexKeys
                 PROVE  \/ Hits(es, key) = {} /\ lookup(ks, key) = "nullptr"
                        \/ \E p \in Hits(es, key) : /\ \A q \in Hits(es, key) : p <= q
                                                    /\ lookup(ks, key) = es[p]
    BY Zenon DEF LookupOn, Hits
  <2>2. key \in Seq(Nat)
    BY IndexAssumption
  <2> QED
    BY <1>3, <2>2, LookupFinds
<1>5. RangeOn(es, ks)
  <2>1. SUFFICES ASSUME NEW lo \in IndexKeys, NEW hi \in IndexKeys
                 PROVE  Lists(es, range(ks, lo, hi), Between(es, lo, hi))
    BY DEF RangeOn
  <2>2. lo \in Seq(Nat) /\ hi \in Seq(Nat)
    BY IndexAssumption
  <2> QED
    BY <1>3, <2>2, RangeLists
<1> QED
  BY <1>4, <1>5

-----------------------------------------------------------------------------
(* The three parts together.                                               *)
MinidbInv == ReplayInv /\ CursorInv /\ WalkInv

LEMMA MinidbInit == InitMinidb => MinidbInv
<1> SUFFICES ASSUME InitMinidb PROVE MinidbInv
  OBVIOUS
<1>1. ReplayInv
  BY InitReplayInv DEF InitMinidb
<1>2. CursorInv
  BY CursorInit DEF InitMinidb
<1>3. FileOK
  BY EmptyOK, FilesOK DEF InitMinidb
<1>4. WalkInv
  BY <1>3, WalkInit DEF InitMinidb
<1> QED
  BY <1>1, <1>2, <1>4 DEF MinidbInv

LEMMA MinidbStep ==
  MinidbInv /\ [NextMinidb]_<< vars, storage, cursorvars, part >> => MinidbInv'
<1> SUFFICES ASSUME MinidbInv, [NextMinidb]_<< vars, storage, cursorvars, part >>
             PROVE  MinidbInv'
  OBVIOUS
<1>1. ReplayInv /\ CursorInv /\ WalkInv
  BY DEF MinidbInv
<1>2. [Next]_vars /\ [NextCursor]_cursorvars
  BY DEF NextMinidb, CutFile, StartWalk, Walk, Replay, Scan
<1>3. ReplayInv'
  BY <1>1, <1>2, NextReplayInv
<1>4. CursorInv'
  BY <1>1, <1>2, CursorStep
<1>5. WalkInv'
  <2>1. CASE CutFile
    BY <1>1, <2>1, CutStep DEF CutFile
  <2>2. CASE StartWalk
    BY <1>1, <2>2, StartStep DEF StartWalk
  <2>3. CASE Walk
    <3>1. data' = data /\ (cycle \/ page_limit \/ length_limit \/ follow)
      BY <2>3 DEF Walk, NextWalk
    <3>2. CASE cycle \/ page_limit
      BY <1>1, <3>1, <3>2, HaltStep DEF cycle, page_limit, Stop
    <3>3. CASE length_limit
      BY <1>1, <3>1, <3>3, LengthLimitStep
    <3>4. CASE follow
      BY <1>1, <3>1, <3>4, FollowStep
    <3> QED
      BY <3>1, <3>2, <3>3, <3>4
  <2>4. CASE UNCHANGED << data, walk >>
    BY <1>1, <2>4, WalkStutter
  <2>5. CutFile \/ StartWalk \/ Walk \/ UNCHANGED << data, walk >>
    BY DEF NextMinidb, Replay, Scan, storage
  <2> QED
    BY <2>1, <2>2, <2>3, <2>4, <2>5
<1> QED
  BY <1>3, <1>4, <1>5 DEF MinidbInv

LEMMA MinidbInvariant == SpecMinidb => []MinidbInv
  BY MinidbInit, MinidbStep, PTL DEF SpecMinidb

(* Replay within open(): as above, whatever the pages hold.                *)
THEOREM ReplayExactInMinidb == SpecMinidb => []ReplayExact
<1>1. MinidbInv => ReplayExact
  BY DEF MinidbInv, ReplayInv, StoreExact, CountsExact, EffectiveSet, UndoneSet, ReplayExact
<1> QED
  BY <1>1, MinidbInvariant, PTL

(* However a file is cut and whatever its slots say, open() takes records  *)
(* only from within their own page and the file, and the catalog's count   *)
(* of used slots agrees with what was taken.                               *)
THEOREM SlotsConfinedAlways == SpecMinidb => []SlotsConfined
<1>1. MinidbInv => SlotsConfined
  BY RecordsPlaced, CatalogCounts DEF MinidbInv, WalkInv, SlotsConfined
<1> QED
  BY <1>1, MinidbInvariant, PTL

(* reconstruct_overflow visits a path of links without repetition, within  *)
(* both limits; it returns the concatenated payloads of exactly the pages  *)
(* it took, and its status is the true reason to stop: for every file,     *)
(* every cut of it, every start page and all limits.                       *)
THEOREM ChainExactAlways == SpecMinidb => []ChainExact
<1>1. MinidbInv => ChainExact
  <2> SUFFICES ASSUME WalkInv PROVE ChainExact
    BY DEF MinidbInv
  <2>1. Follows
    BY DEF WalkInv, Follows, Path, Seen, Slices, Slice, Taken
  <2> QED
    BY <2>1 DEF WalkInv, ChainExact
<1> QED
  BY <1>1, MinidbInvariant, PTL

(* A cursor's scan meets the records at or behind its start in order, each *)
(* once and none left out, however next() and seek() alternate.            *)
THEOREM CursorExactAlways == SpecMinidb => []CursorExact
<1>1. MinidbInv => CursorExact
  BY DEF MinidbInv, CursorInv
<1> QED
  BY <1>1, MinidbInvariant, PTL

(* Whatever order an index page's entries are written in and wherever the  *)
(* file is cut, the binary search of lookup() finds the first entry        *)
(* written with its key, and range() lists exactly the entries between its *)
(* keys, sorted and stable; and the cursor's scans are exact.              *)
THEOREM ReadsExactAlways == SpecMinidb => []ReadsExact
<1>1. MinidbInv => ReadsExact
  BY LookupHolds DEF MinidbInv, WalkInv, CursorInv, ReadsExact
<1> QED
  BY <1>1, MinidbInvariant, PTL

-----------------------------------------------------------------------------
(***************************************************************************)
(* Cutting the file.  What is left of it heads what there was, and so do   *)
(* its pages, string table, index entries and records.                     *)
(***************************************************************************)
(* t is what is left of s.                                                 *)
Heads(X, t, s) ==
  /\ t \in Seq(X) /\ s \in Seq(X)
  /\ Len(t) \in Nat /\ Len(s) \in Nat /\ Len(t) <= Len(s)
  /\ \A p \in 1 .. Len(t) : t[p] = s[p]

LEMMA SameCut ==
  ASSUME NEW X, NEW s, NEW t, Heads(X, t, s), NEW m \in Nat, m > 0, NEW n \in Nat, n <= Len(t), m <= n + 1
  PROVE  /\ SubSeq(t, m, n) = SubSeq(s, m, n)
         /\ SubSeq(t, m, n) \in Seq(X)
         /\ Len(SubSeq(t, m, n)) = (n - m) + 1
<1>1. PICK len : len = (n - m) + 1
  OBVIOUS
<1>2. len \in Nat /\ (m + len) - 1 = n
  BY <1>1
<1>3. /\ t \in Seq(X) /\ s \in Seq(X) /\ n <= Len(s)
      /\ \A p \in 1 .. Len(t) : t[p] = s[p]
  BY DEF Heads
<1>4. CutOut(X, t, m, n, len) /\ CutOut(X, s, m, n, len)
  BY <1>2, <1>3, SubSeqOK
<1>5. PICK u, v : u = SubSeq(t, m, n) /\ v = SubSeq(s, m, n)
  OBVIOUS
<1>6. /\ u \in Seq(X) /\ v \in Seq(X) /\ Len(u) = len /\ Len(v) = len
      /\ \A j \in 1 .. len : u[j] = t[(m + j) - 1] /\ v[j] = s[(m + j) - 1]
  BY <1>4, <1>5 DEF CutOut
<1>7. \A j \in 1 .. len : (m + j) - 1 \in 1 .. Len(t)
  <2>1. Len(t) \in Nat
    BY DEF Heads
  <2> QED
    BY <1>2, <2>1
<1>8. \A j \in 1 .. Len(u) : u[j] = v[j]
  BY <1>3, <1>6, <1>7
<1>9. u = v
  BY <1>6, <1>8
<1> QED
  BY <1>1, <1>5, <1>6, <1>9

(* A cut of the same place in both.                                        *)
LEMMA HeadsOfCut ==
  ASSUME NEW X, NEW s, NEW t, Heads(X, t, s), NEW m \in Nat, m > 0,
         NEW n \in Nat, n <= Len(t), NEW l \in Nat, l <= Len(s), n <= l, m <= n + 1
  PROVE  Heads(X, SubSeq(t, m, n), SubSeq(s, m, l))
<1>1. PICK len, all : len = (n - m) + 1 /\ all = (l - m) + 1
  OBVIOUS
<1>2. len \in Nat /\ (m + len) - 1 = n /\ all \in Nat /\ (m + all) - 1 = l /\ len <= all
  BY <1>1
<1>3. /\ t \in Seq(X) /\ s \in Seq(X) /\ Len(t) \in Nat
      /\ \A p \in 1 .. Len(t) : t[p] = s[p]
  BY DEF Heads
<1>4. CutOut(X, t, m, n, len) /\ CutOut(X, s, m, l, all)
  BY <1>2, <1>3, SubSeqOK
<1>5. PICK u, v : u = SubSeq(t, m, n) /\ v = SubSeq(s, m, l)
  OBVIOUS
<1>6. /\ u \in Seq(X) /\ v \in Seq(X) /\ Len(u) = len /\ Len(v) = all
      /\ \A j \in 1 .. len : u[j] = t[(m + j) - 1]
      /\ \A j \in 1 .. all : v[j] = s[(m + j) - 1]
  BY <1>4, <1>5 DEF CutOut
<1>7. \A j \in 1 .. len : (m + j) - 1 \in 1 .. Len(t) /\ j \in 1 .. all
  <2>1. PICK z : z = Len(t)
    OBVIOUS
  <2>2. z \in Nat /\ n <= z
    BY <1>3, <2>1
  <2>3. \A j \in 1 .. len : (m + j) - 1 \in 1 .. z
    BY <1>2, <2>2
  <2>4. \A j \in 1 .. len : j \in 1 .. all
    BY <1>2
  <2> QED
    BY <2>1, <2>3, <2>4
<1>8. \A j \in 1 .. len : u[j] = v[j]
  BY <1>3, <1>6, <1>7
<1>9. Heads(X, u, v)
  BY <1>2, <1>6, <1>8 DEF Heads
<1> QED
  BY <1>5, <1>9

LEMMA PrefixFound ==
  ASSUME NEW X, NEW s, NEW t, Heads(X, t, s)
  PROVE  IsPrefix(t, s)
<1>1. /\ t \in Seq(X) /\ s \in Seq(X) /\ Len(t) \in Nat /\ Len(t) <= Len(s)
  BY DEF Heads
<1>2. SubSeq(t, 1, Len(t)) = SubSeq(s, 1, Len(t))
  BY <1>1, SameCut
<1> QED
  BY <1>1, <1>2 DEF IsPrefix

LEMMA NothingHeads ==
  ASSUME NEW X, NEW s \in Seq(X)
  PROVE  Heads(X, << >>, s)
<1>1. << >> \in Seq(X) /\ Len(<< >>) = 0 /\ Len(s) \in Nat
  OBVIOUS
<1> QED
  BY <1>1 DEF Heads

LEMMA CutHeads ==
  ASSUME FileOK, Cut
  PROVE  Heads(Symbols, data', data) /\ FileOK'
<1>1. /\ data \in Seq(Symbols) /\ Len(data) \in Nat /\ Len(data) # 0
      /\ data' = SubSeq(data, 1, Len(data) - 1)
  BY DEF FileOK, Cut, Front
<1>2. Len(data) - 1 \in 0 .. Len(data)
  BY <1>1
<1>3. /\ data' \in Seq(Symbols) /\ Len(data') = Len(data) - 1
      /\ \A p \in 1 .. (Len(data) - 1) : data'[p] = data[p]
  BY <1>1, <1>2, PrefixAt
<1>4. Heads(Symbols, data', data)
  BY <1>1, <1>3 DEF Heads
<1> QED
  BY <1>4, CutOK

(* The pages still walked, and what is left of them.                       *)
LEMMA CutSpan ==
  ASSUME FileOK, Cut, NEW i \in Walked'
  PROVE  /\ i \in Walked /\ PageOff(i) \in Nat
         /\ spans[i].file_offset = PageOff(i) /\ spans'[i].file_offset = PageOff(i)
         /\ spans[i].length \in 1 .. page_size /\ spans'[i].length \in 1 .. page_size
         /\ spans'[i].length <= spans[i].length
         /\ PageOff(i) + spans[i].length <= Len(data)
         /\ PageOff(i) + spans'[i].length <= Len(data')
<1>1. Len(data') \in Nat /\ Len(data) \in Nat /\ Len(data') <= Len(data)
  BY CutHeads DEF Heads
<1>2. i \in 0 .. (page_count - 1) /\ PageOff(i) < Len(data')
  BY DEF Walked
<1>3. i \in Nat /\ PageOff(i) \in Nat
  BY <1>2, StorageAssumption, PageOffNat
<1>4. i \in Walked
  BY <1>1, <1>2, <1>3 DEF Walked
<1>5. spans'[i].file_offset = PageOff(i) /\ spans'[i].length = Smaller(Len(data') - PageOff(i), page_size)
  BY DEF spans
<1>6. spans[i].file_offset = PageOff(i) /\ spans[i].length = Smaller(Len(data) - PageOff(i), page_size)
  BY <1>4, SpanOK
<1>7. PICK off, z, y : off = PageOff(i) /\ z = Len(data) /\ y = Len(data')
  OBVIOUS
<1>8. /\ off \in Nat /\ z \in Nat /\ y \in Nat /\ y <= z /\ off < y
      /\ page_size \in Nat /\ page_size > 2
  BY <1>1, <1>2, <1>3, <1>7, StorageAssumption DEF kPageHeaderSize
<1>9. /\ Smaller(z - off, page_size) \in 1 .. page_size /\ Smaller(y - off, page_size) \in 1 .. page_size
      /\ Smaller(y - off, page_size) <= Smaller(z - off, page_size)
      /\ off + Smaller(z - off, page_size) <= z /\ off + Smaller(y - off, page_size) <= y
  BY <1>8 DEF Smaller
<1> QED
  BY <1>3, <1>4, <1>5, <1>6, <1>7, <1>9

HeadOf(i) == data[PageOff(i) + 1]

(* A page with a whole header, in terms of the file.                       *)
Shaped(i) ==
  /\ HeadOf(i)[3] \in Nat
  /\ PageAt(i).type = HeadOf(i)[2]
  /\ PageAt(i).slots = [s \in 1 .. Smaller(HeadOf(i)[3], spans[i].length - 2) |->
                          ReadSlot(data[PageOff(i) + (s + 2)])]

(* Stated without hypotheses, the two hold of the next file as well.       *)
PagesShaped == \A i \in Walked : FileOK /\ spans[i].length >= 2 => Shaped(i)

PagesBlank ==
  \A i \in Walked : spans[i].length < 2 => PageAt(i).type = "FREE" /\ PageAt(i).slots = << >>

LEMMA PageShape == PagesShaped
<1> SUFFICES ASSUME FileOK, NEW i \in Walked, spans[i].length >= 2 PROVE Shaped(i)
  BY DEF PagesShaped
<1>1. PICK off, len, head, fit : /\ off = PageOff(i) /\ len = spans[i].length
                                 /\ head = HeadOf(i) /\ fit = Smaller(head[3], len - 2)
  OBVIOUS
<1>2. /\ off \in Nat /\ spans[i].file_offset = off /\ len \in Nat /\ len >= 2 /\ off + len <= Len(data)
      /\ \A n \in 1 .. len : data[off + n] \in Symbols
  <2>1. /\ off \in Nat /\ spans[i].file_offset = off /\ len \in 1 .. page_size /\ off + len <= Len(data)
        /\ \A n \in 1 .. len : data[off + n] \in Symbols
    BY <1>1, SpanOK
  <2>2. len \in Nat /\ len >= 2
    BY <1>1, <2>1, StorageAssumption
  <2> QED
    BY <2>1, <2>2
<1>3. head \in Symbols /\ Is(head, "type")
  <2>1. head = data[off + 1] /\ 1 \in 1 .. len
    BY <1>1, <1>2 DEF HeadOf
  <2>2. head \in Symbols
    BY <1>2, <2>1
  <2>3. Is(data[off + 1], "type")
    BY <1>1 DEF FileOK, Framed, At
  <2> QED
    BY <2>1, <2>2, <2>3
<1>4. head[3] \in Nat
  BY <1>3, SymbolFields
<1>5. fit \in Nat
  <2>1. PICK h : h = head[3]
    OBVIOUS
  <2>2. h \in Nat /\ fit = Smaller(h, len - 2)
    BY <1>1, <1>4, <2>1
  <2>3. len - 2 \in Nat
    BY <1>2
  <2> QED
    BY <2>2, <2>3 DEF Smaller
<1>6. At(off) = head
  BY <1>1 DEF At, HeadOf
<1>7. ~(len < kPageHeaderSize)
  BY <1>2 DEF kPageHeaderSize
<1>8. PageAt(i).type = head[2]
  BY <1>1, <1>2, <1>6, <1>7 DEF PageAt
<1>9. PageAt(i).slots = [s \in 1 .. fit |-> ReadSlot(At(off + kPageHeaderSize + s - 1))]
  BY <1>1, <1>2, <1>6, <1>7 DEF PageAt, kPageHeaderSize
<1>10. \A s \in 1 .. fit : off + kPageHeaderSize + s - 1 + 1 = off + (s + 2)
  BY <1>2, <1>5 DEF kPageHeaderSize
<1>11. \A s \in 1 .. fit : At(off + kPageHeaderSize + s - 1) = data[off + (s + 2)]
  BY <1>10 DEF At
<1>12. PageAt(i).slots = [s \in 1 .. fit |-> ReadSlot(data[off + (s + 2)])]
  BY <1>9, <1>11, Zenon
<1> QED
  BY <1>1, <1>4, <1>8, <1>12 DEF Shaped

LEMMA PageBlank == PagesBlank
BY DEF PagesBlank, PageAt, kPageHeaderSize

LEMMA CutPage ==
  ASSUME FileOK, Cut, NEW i \in Walked'
  PROVE  /\ spans'[i].length >= 2 => PageAt(i)'.type = PageAt(i).type
         /\ spans'[i].length < 2 => PageAt(i)'.type = "FREE"
         /\ \A s \in DOMAIN PageAt(i)'.slots :
              s \in DOMAIN PageAt(i).slots /\ PageAt(i)'.slots[s] = PageAt(i).slots[s]
<1>1. CASE spans'[i].length < 2
  <2>1. PagesBlank'
    BY PageBlank, PTL
  <2>2. PageAt(i)'.type = "FREE" /\ PageAt(i)'.slots = << >>
    BY <1>1, <2>1 DEF PagesBlank
  <2>3. spans'[i].length \in 1 .. page_size /\ page_size \in Nat
    BY CutSpan, StorageAssumption
  <2>4. ~(spans'[i].length >= 2)
    BY <1>1, <2>3
  <2> QED
    BY <2>2, <2>4
<1>2. CASE ~(spans'[i].length < 2)
  <2>1. PICK off, len, old : off = PageOff(i) /\ len = spans'[i].length /\ old = spans[i].length
    OBVIOUS
  <2>2. /\ off \in Nat /\ len \in Nat /\ old \in Nat /\ len >= 2 /\ len <= old
        /\ off + len <= Len(data') /\ i \in Walked /\ Len(data') \in Nat
    BY <1>2, <2>1, CutSpan, CutHeads, StorageAssumption DEF Heads
  <2>3. PagesShaped'
    BY PageShape, PTL
  <2>4. Shaped(i)'
    BY <2>1, <2>2, <2>3, CutHeads DEF PagesShaped
  <2>5. Shaped(i)
    BY <2>1, <2>2, PageShape DEF PagesShaped
  <2>6. \A n \in 1 .. len : data'[off + n] = data[off + n]
    <3>1. \A n \in 1 .. len : off + n \in 1 .. Len(data')
      BY <2>2
    <3> QED
      BY <3>1, CutHeads DEF Heads
  <2>7. PICK head : head = data[off + 1]
    OBVIOUS
  <2>8. data'[off + 1] = head
    BY <2>2, <2>6, <2>7
  <2>9. PICK fit, all : fit = Smaller(head[3], len - 2) /\ all = Smaller(head[3], old - 2)
    OBVIOUS
  <2>10. /\ head[3] \in Nat
         /\ PageAt(i).type = head[2] /\ PageAt(i)'.type = head[2]
         /\ PageAt(i).slots = [s \in 1 .. all |-> ReadSlot(data[off + (s + 2)])]
         /\ PageAt(i)'.slots = [s \in 1 .. fit |-> ReadSlot(data'[off + (s + 2)])]
    <3>1. head[3] \in Nat /\ PageAt(i).type = head[2]
          /\ PageAt(i).slots = [s \in 1 .. all |-> ReadSlot(data[off + (s + 2)])]
      BY <2>1, <2>5, <2>7, <2>9 DEF Shaped, HeadOf
    <3>2. /\ PageAt(i)'.type = head[2]
          /\ PageAt(i)'.slots = [s \in 1 .. fit |-> ReadSlot(data'[off + (s + 2)])]
      BY <2>1, <2>4, <2>8, <2>9 DEF Shaped, HeadOf
    <3> QED
      BY <3>1, <3>2
  <2>11. fit \in Nat /\ all \in Nat /\ fit <= all /\ fit <= len - 2
    <3>1. PICK h : h = head[3]
      OBVIOUS
    <3>2. h \in Nat /\ fit = Smaller(h, len - 2) /\ all = Smaller(h, old - 2)
      BY <2>9, <2>10, <3>1
    <3> QED
      BY <2>2, <3>2 DEF Smaller
  <2>12. \A s \in 1 .. fit : s \in 1 .. all /\ s + 2 \in 1 .. len
    BY <2>2, <2>11
  <2>13. \A s \in 1 .. fit : data'[off + (s + 2)] = data[off + (s + 2)]
    BY <2>6, <2>12
  <2>14. \A s \in DOMAIN PageAt(i)'.slots :
           s \in DOMAIN PageAt(i).slots /\ PageAt(i)'.slots[s] = PageAt(i).slots[s]
    BY <2>10, <2>12, <2>13
  <2> QED
    BY <1>2, <2>10, <2>14
<1> QED
  BY <1>1, <1>2

Placed(k) ==
  /\ k[1] \in Walked /\ PageAt(k[1]).type = "DATA"
  /\ k[2] \in DOMAIN PageAt(k[1]).slots /\ k = << k[1], k[2] >>
  /\ SlotOK(SlotAt(k)) /\ SlotAt(k).in_bounds /\ SlotAt(k).rec_length # 0
  /\ Start(k) + SlotAt(k).rec_length <= Len(data)

RecordsFound == FileOK => \A k \in Resident : Placed(k)

LEMMA RecordFound == RecordsFound
BY ResidentPlace DEF RecordsFound, Placed

(* The records still taken are the same bytes.                             *)
LEMMA CutRecords ==
  ASSUME FileOK, Cut, NEW k \in Resident'
  PROVE  /\ k \in Resident /\ seeded'[k] = seeded[k]
         /\ seeded[k] \in Seq(Symbols) /\ Len(seeded[k]) \in Nat /\ Len(seeded[k]) > 0
<1>1. RecordsFound'
  BY RecordFound, PTL
<1>2. Placed(k)'
  BY <1>1, CutHeads DEF RecordsFound
<1>3. PICK i, s : i = k[1] /\ s = k[2]
  OBVIOUS
<1>4. /\ i \in Walked' /\ PageAt(i)'.type = "DATA"
      /\ s \in DOMAIN PageAt(i)'.slots /\ k = << i, s >>
  BY <1>2, <1>3 DEF Placed
<1>5. i \in Walked /\ PageOff(i) \in Nat
  BY <1>4, CutSpan
<1>6. PageAt(i).type = "DATA"
  <2>1. PICK len : len = spans'[i].length
    OBVIOUS
  <2>2. len \in 1 .. page_size /\ page_size \in Nat
    BY <1>4, <2>1, CutSpan, StorageAssumption
  <2>3. len >= 2 => PageAt(i)'.type = PageAt(i).type
    BY <1>4, <2>1, CutPage
  <2>4. len < 2 => PageAt(i)'.type = "FREE"
    BY <1>4, <2>1, CutPage
  <2>5. len < 2 \/ len >= 2
    BY <2>2
  <2> QED
    BY <1>4, <2>3, <2>4, <2>5
<1>7. s \in DOMAIN PageAt(i).slots /\ PageAt(i)'.slots[s] = PageAt(i).slots[s]
  BY <1>4, CutPage
<1>8. PICK slot : slot = PageAt(i).slots[s]
  OBVIOUS
<1>9. SlotAt(k) = slot /\ SlotAt(k)' = slot
  BY <1>3, <1>7, <1>8 DEF SlotAt
<1>10. PICK o, n, b : o = slot.rec_offset /\ n = slot.rec_length /\ b = PageOff(i) + o
  OBVIOUS
<1>11. /\ SlotOK(slot) /\ slot.in_bounds /\ slot.rec_length # 0
       /\ Start(k)' = b /\ Start(k) = b /\ b + n <= Len(data')
  BY <1>2, <1>3, <1>9, <1>10 DEF Placed, Start
<1>12. o \in Nat /\ n \in Nat /\ n # 0
  BY <1>10, <1>11 DEF SlotOK
<1>13. /\ b \in Nat /\ Len(data) \in Nat /\ Len(data') \in Nat /\ Len(data') <= Len(data)
       /\ Heads(Symbols, data', data)
  BY <1>5, <1>10, <1>12, CutHeads DEF Heads
<1>14. b + n <= Len(data)
  BY <1>11, <1>12, <1>13
<1>15. k \in Resident
  <2>1. k \in Slots
    BY <1>4, <1>5, <1>6, <1>7 DEF Slots
  <2> QED
    BY <2>1, <1>9, <1>10, <1>11, <1>14 DEF Resident
<1>16. Clip(b + n) = b + n /\ Clip(b + n)' = b + n
  BY <1>11, <1>12, <1>13, <1>14 DEF Clip, Smaller
<1>17. seeded[k] = SubSeq(data, b + 1, b + n)
  BY <1>9, <1>10, <1>11, <1>15, <1>16 DEF seeded
<1>18. seeded'[k] = SubSeq(data', b + 1, b + n)
  BY <1>9, <1>10, <1>11, <1>16 DEF seeded
<1>19. PICK m, l : m = b + 1 /\ l = b + n
  OBVIOUS
<1>20. m \in Nat /\ m > 0 /\ l \in Nat /\ l <= Len(data') /\ m <= l + 1
  BY <1>11, <1>12, <1>13, <1>19
<1>21. /\ SubSeq(data', m, l) = SubSeq(data, m, l) /\ SubSeq(data', m, l) \in Seq(Symbols)
       /\ Len(SubSeq(data', m, l)) = (l - m) + 1
  BY <1>13, <1>20, SameCut
<1>22. (l - m) + 1 = n
  BY <1>12, <1>13, <1>19
<1>23. PICK rec : rec = SubSeq(data', m, l)
  OBVIOUS
<1>24. seeded'[k] = rec /\ seeded[k] = rec
  BY <1>17, <1>18, <1>19, <1>21, <1>23
<1>25. rec \in Seq(Symbols) /\ Len(rec) = n /\ n > 0
  BY <1>12, <1>21, <1>22, <1>23
<1> QED
  BY <1>12, <1>15, <1>24, <1>25

(* What follows the header of a page, as far as the file goes.             *)
BodyOf(i) == Bytes(spans[i].file_offset + kPageHeaderSize, spans[i].length - kPageHeaderSize)

LEMMA CutBody ==
  ASSUME FileOK, Cut, NEW i \in Walked', spans'[i].length > 2
  PROVE  /\ Heads(Symbols, BodyOf(i)', BodyOf(i)) /\ Len(BodyOf(i)') > 0
         /\ spans[i].length > 2 /\ PageAt(i)'.type = PageAt(i).type
<1>1. PICK off, len, old : off = PageOff(i) /\ len = spans'[i].length /\ old = spans[i].length
  OBVIOUS
<1>2. /\ off \in Nat /\ len \in Nat /\ old \in Nat /\ len > 2 /\ len <= old
      /\ off + len <= Len(data') /\ off + old <= Len(data)
      /\ spans[i].file_offset = off /\ spans'[i].file_offset = off
  BY <1>1, CutSpan, StorageAssumption
<1>3. PICK m, n, l : m = (off + 2) + 1 /\ n = (off + 2) + (len - 2) /\ l = (off + 2) + (old - 2)
  OBVIOUS
<1>4. BodyOf(i) = SubSeq(data, m, l) /\ BodyOf(i)' = SubSeq(data', m, n)
  BY <1>1, <1>2, <1>3 DEF BodyOf, Bytes, kPageHeaderSize
<1>5. Heads(Symbols, data', data) /\ Len(data') \in Nat /\ Len(data) \in Nat
  BY CutHeads DEF Heads
<1>6. /\ m \in Nat /\ m > 0 /\ n \in Nat /\ n <= Len(data') /\ l \in Nat /\ l <= Len(data)
      /\ n <= l /\ m <= n + 1 /\ m <= n
  BY <1>2, <1>3, <1>5
<1>7. Heads(Symbols, BodyOf(i)', BodyOf(i))
  BY <1>4, <1>5, <1>6, HeadsOfCut
<1>8. Len(SubSeq(data', m, n)) = (n - m) + 1
  BY <1>5, <1>6, SameCut
<1>9. (n - m) + 1 > 0
  BY <1>6
<1>10. len >= 2 /\ old > 2
  BY <1>2
<1>11. PageAt(i)'.type = PageAt(i).type
  BY <1>1, <1>10, CutPage
<1> QED
  BY <1>1, <1>4, <1>7, <1>8, <1>9, <1>10, <1>11

MostClean(body) == CHOOSE n \in Clean(body) : \A m \in Clean(body) : m <= n

LEMMA CleanMost ==
  ASSUME NEW body \in Seq(Symbols), Len(body) > 0, Is(body[1], "varint")
  PROVE  /\ MostClean(body) \in Clean(body) /\ \A m \in Clean(body) : m <= MostClean(body)
         /\ MostClean(body) \in Nat /\ MostClean(body) < Len(body)
<1>1. Len(body) \in Nat /\ body[1] \in Symbols
  OBVIOUS
<1>2. body[1][2] \in Nat
  BY <1>1, SymbolFields
<1>3. PICK k, S : k = Smaller(body[1][2], Len(body) - 1) /\ S = Clean(body)
  OBVIOUS
<1>4. k \in Nat /\ k < Len(body)
  BY <1>1, <1>2, <1>3 DEF Smaller
<1>5. S \in SUBSET (0 .. k)
  BY <1>3 DEF Clean
<1>6. 0 \in S
  BY <1>3, <1>4 DEF Clean
<1>7. MostClean(body) \in S /\ \A m \in S : m <= MostClean(body)
  BY <1>3, <1>4, <1>5, <1>6, Greatest DEF MostClean
<1>8. MostClean(body) \in 0 .. k
  BY <1>5, <1>7
<1> QED
  BY <1>1, <1>3, <1>4, <1>7, <1>8

(* A shorter page has no other clean entries.                              *)
LEMMA CleanHeads ==
  ASSUME NEW s, NEW t, Heads(Symbols, t, s), Len(t) > 0, Is(t[1], "varint")
  PROVE  Heads(Symbols, SubSeq(t, 2, 1 + MostClean(t)), SubSeq(s, 2, 1 + MostClean(s)))
<1>1. /\ t \in Seq(Symbols) /\ s \in Seq(Symbols) /\ Len(t) \in Nat /\ Len(s) \in Nat /\ Len(t) <= Len(s)
      /\ \A p \in 1 .. Len(t) : t[p] = s[p]
  BY DEF Heads
<1>2. t[1] = s[1] /\ Len(s) > 0 /\ t[1] \in Symbols
  BY <1>1
<1>3. t[1][2] \in Nat
  BY <1>2, SymbolFields
<1>4. PICK a, b : a = MostClean(t) /\ b = MostClean(s)
  OBVIOUS
<1>5. /\ a \in Clean(t) /\ a \in Nat /\ a < Len(t)
      /\ b \in Nat /\ b < Len(s) /\ \A m \in Clean(s) : m <= b
  BY <1>1, <1>2, <1>4, CleanMost
<1>6. a \in Clean(s)
  <2>1. PICK c, y, z : c = t[1][2] /\ y = Len(t) /\ z = Len(s)
    OBVIOUS
  <2>2. a \in 0 .. Smaller(c, y - 1) /\ \A j \in 1 .. a : Is(t[j + 1], "entry")
    BY <1>5, <2>1 DEF Clean
  <2>3. a \in 0 .. Smaller(c, z - 1)
    <3>1. c \in Nat /\ y \in Nat /\ z \in Nat /\ y <= z
      BY <1>1, <1>3, <2>1
    <3> QED
      BY <2>2, <3>1 DEF Smaller
  <2>4. \A j \in 1 .. a : j + 1 \in 1 .. Len(t)
    BY <1>1, <1>5
  <2>5. \A j \in 1 .. a : Is(s[j + 1], "entry")
    BY <1>1, <2>2, <2>4
  <2> QED
    BY <1>2, <2>1, <2>3, <2>5 DEF Clean
<1>7. a <= b
  BY <1>5, <1>6
<1>8. PICK n, l : n = 1 + a /\ l = 1 + b
  OBVIOUS
<1>9. n \in Nat /\ n <= Len(t) /\ l \in Nat /\ l <= Len(s) /\ n <= l /\ 2 <= n + 1
  BY <1>1, <1>5, <1>7, <1>8
<1>10. Heads(Symbols, SubSeq(t, 2, n), SubSeq(s, 2, l))
  BY <1>9, HeadsOfCut
<1> QED
  BY <1>4, <1>8, <1>10

LEMMA CutWritten ==
  ASSUME FileOK, Cut, NEW i \in Walked'
  PROVE  IsPrefix(Written(i)', Written(i))
<1>1. Written(i) =
        IF spans[i].length <= kPageHeaderSize \/ PageAt(i).type # "INDEX" \/ ~Is(BodyOf(i)[1], "varint")
          THEN << >> ELSE SubSeq(BodyOf(i), 2, 1 + MostClean(BodyOf(i)))
  BY DEF Written, BodyOf, Clean, MostClean
<1>2. Written(i)' =
        IF spans'[i].length <= kPageHeaderSize \/ PageAt(i)'.type # "INDEX" \/ ~Is(BodyOf(i)'[1], "varint")
          THEN << >> ELSE SubSeq(BodyOf(i)', 2, 1 + MostClean(BodyOf(i)'))
  BY DEF Written, BodyOf, Clean, MostClean
<1>3. i \in Walked /\ spans'[i].length \in Nat /\ spans[i].length \in Nat
  BY CutSpan, StorageAssumption
<1>4. Written(i) \in Seq(Symbols)
  BY <1>3, WrittenKeyed DEF Keyed
<1>5. CASE spans'[i].length <= kPageHeaderSize \/ PageAt(i)'.type # "INDEX" \/ ~Is(BodyOf(i)'[1], "varint")
  <2>1. Written(i)' = << >>
    BY <1>2, <1>5
  <2>2. Heads(Symbols, << >>, Written(i))
    BY <1>4, NothingHeads
  <2> QED
    BY <2>1, <2>2, PrefixFound
<1>6. CASE ~(spans'[i].length <= kPageHeaderSize \/ PageAt(i)'.type # "INDEX" \/ ~Is(BodyOf(i)'[1], "varint"))
  <2>1. PICK s, t : s = BodyOf(i) /\ t = BodyOf(i)'
    OBVIOUS
  <2>2. spans'[i].length > 2
    BY <1>3, <1>6 DEF kPageHeaderSize
  <2>3. /\ Heads(Symbols, t, s) /\ Len(t) > 0 /\ spans[i].length > 2 /\ PageAt(i).type = "INDEX"
        /\ Is(t[1], "varint")
    BY <1>6, <2>1, <2>2, CutBody
  <2>4. Is(s[1], "varint")
    BY <2>3 DEF Heads
  <2>5. Written(i)' = SubSeq(t, 2, 1 + MostClean(t))
    BY <1>2, <1>6, <2>1
  <2>6. Written(i) = SubSeq(s, 2, 1 + MostClean(s))
    <3>1. ~(spans[i].length <= kPageHeaderSize)
      BY <1>3, <2>3 DEF kPageHeaderSize
    <3>2. ~(PageAt(i).type # "INDEX") /\ Is(BodyOf(i)[1], "varint")
      BY <2>1, <2>3, <2>4
    <3>3. Written(i) = SubSeq(BodyOf(i), 2, 1 + MostClean(BodyOf(i)))
      BY <1>1, <3>1, <3>2, Zenon
    <3> QED
      BY <2>1, <3>3
  <2>7. Heads(Symbols, SubSeq(t, 2, 1 + MostClean(t)), SubSeq(s, 2, 1 + MostClean(s)))
    BY <2>3, CleanHeads
  <2> QED
    BY <2>5, <2>6, <2>7, PrefixFound
<1> QED
  BY <1>5, <1>6

-----------------------------------------------------------------------------
(* The string table: f[n] is the place of entry n + 1.                     *)
Reads(b, count, f) ==
  f = [n \in 0 .. count |->
         IF n = 0 THEN 2
         ELSE IF f[n - 1] # 0 /\ LengthPrefixed(b, f[n - 1])
                THEN f[n - 1] + 1 + b[f[n - 1]][2]
                ELSE 0]

LEMMA ReadsAt ==
  ASSUME NEW b, NEW count \in Nat, NEW f, Reads(b, count, f)
  PROVE  /\ DOMAIN f = 0 .. count /\ f[0] = 2
         /\ \A n \in Nat : n + 1 <= count =>
              f[n + 1] = IF f[n] # 0 /\ LengthPrefixed(b, f[n]) THEN f[n] + 1 + b[f[n]][2] ELSE 0
<1> DEFINE h(n) == IF n = 0 THEN 2
                   ELSE IF f[n - 1] # 0 /\ LengthPrefixed(b, f[n - 1])
                          THEN f[n - 1] + 1 + b[f[n - 1]][2]
                          ELSE 0
<1>1. f = [n \in 0 .. count |-> h(n)]
  BY Zenon DEF Reads
<1>2. h(0) = 2
  OBVIOUS
<1>3. ASSUME NEW n \in Nat
      PROVE  h(n + 1) = IF f[n] # 0 /\ LengthPrefixed(b, f[n]) THEN f[n] + 1 + b[f[n]][2] ELSE 0
  <2>1. n + 1 # 0 /\ (n + 1) - 1 = n
    OBVIOUS
  <2>2. h(n + 1) = IF f[(n + 1) - 1] # 0 /\ LengthPrefixed(b, f[(n + 1) - 1])
                     THEN f[(n + 1) - 1] + 1 + b[f[(n + 1) - 1]][2] ELSE 0
    BY <2>1, Zenon
  <2> HIDE DEF h
  <2> QED
    BY <2>1, <2>2, Zenon
<1> HIDE DEF h
<1>4. DOMAIN f = 0 .. count /\ \A n \in 0 .. count : f[n] = h(n)
  BY <1>1, Zenon
<1>5. 0 \in 0 .. count /\ \A n \in Nat : n + 1 <= count => n + 1 \in 0 .. count
  OBVIOUS
<1> QED
  BY <1>2, <1>3, <1>4, <1>5, Zenon

LEMMA ReadsExist ==
  ASSUME NEW b, NEW count \in Nat
  PROVE  \E f : Reads(b, count, f)
<1> DEFINE S == {n \in Nat : \E f : Reads(b, n, f)}
<1>1. 0 \in S
  <2> DEFINE f == [n \in 0 .. 0 |-> 2]
  <2>1. Reads(b, 0, f)
    BY DEF Reads
  <2> HIDE DEF f
  <2> QED
    BY <2>1
<1>2. ASSUME NEW n \in Nat, n \in S PROVE n + 1 \in S
  <2>1. PICK f : Reads(b, n, f)
    BY <1>2
  <2> DEFINE at(m) == IF m = 0 THEN 2
                      ELSE IF f[m - 1] # 0 /\ LengthPrefixed(b, f[m - 1])
                             THEN f[m - 1] + 1 + b[f[m - 1]][2] ELSE 0
             g == [m \in 0 .. (n + 1) |-> at(m)]
  <2>2. f = [m \in 0 .. n |-> at(m)]
    BY <2>1 DEF Reads
  <2>3. \A m \in 0 .. n : f[m] = at(m) /\ g[m] = f[m]
    <3> HIDE DEF at
    <3> QED
      BY <2>2
  <2>4. \A m \in 0 .. (n + 1) : m = 0 \/ g[m - 1] = f[m - 1]
    <3>1. \A m \in 0 .. (n + 1) : m = 0 \/ m - 1 \in 0 .. n
      OBVIOUS
    <3> HIDE DEF g
    <3> QED
      BY <2>3, <3>1
  <2>5. ASSUME NEW m \in 0 .. (n + 1)
        PROVE  at(m) = IF m = 0 THEN 2
                       ELSE IF g[m - 1] # 0 /\ LengthPrefixed(b, g[m - 1])
                              THEN g[m - 1] + 1 + b[g[m - 1]][2] ELSE 0
    <3>1. m = 0 \/ g[m - 1] = f[m - 1]
      BY <2>4
    <3> HIDE DEF g
    <3>2. CASE m = 0
      BY <3>2
    <3>3. CASE m # 0
      BY <3>1, <3>3, Zenon
    <3> QED
      BY <3>2, <3>3
  <2>6. g = [m \in 0 .. (n + 1) |-> at(m)]
    OBVIOUS
  <2> HIDE DEF g, at
  <2>7. Reads(b, n + 1, g)
    BY <2>5, <2>6, Zenon DEF Reads
  <2> QED
    BY <2>7
<1> HIDE DEF S
<1>3. count \in S
  BY <1>1, <1>2, SetInduction
<1> QED
  BY <1>3 DEF S

(* One entry after the other: the places follow each other in the body.    *)
ReadsOn(b, count, f, n) ==
  /\ f[n] \in Nat /\ (f[n] # 0 => f[n] > 1)
  /\ n + 1 <= count /\ f[n + 1] # 0 =>
       /\ f[n] # 0 /\ LengthPrefixed(b, f[n])
       /\ f[n] + 1 <= (f[n + 1] - 1) + 1 /\ f[n + 1] - 1 \in Nat /\ f[n + 1] - 1 <= Len(b)
       /\ f[n + 1] = f[n] + 1 + b[f[n]][2]

LEMMA EntryOn ==
  ASSUME NEW b \in Seq(Symbols), NEW p \in Nat, p > 1, LengthPrefixed(b, p)
  PROVE  /\ b[p][2] \in Nat /\ p \in 1 .. Len(b) /\ p + b[p][2] <= Len(b)
         /\ p + 1 + b[p][2] \in Nat /\ p + 1 + b[p][2] > 1
         /\ (p + 1 + b[p][2]) - 1 \in Nat /\ (p + 1 + b[p][2]) - 1 <= Len(b)
         /\ p + 1 <= ((p + 1 + b[p][2]) - 1) + 1
<1>1. p <= Len(b) /\ Is(b[p], "varint") /\ p + b[p][2] <= Len(b)
  BY DEF LengthPrefixed
<1>2. p \in 1 .. Len(b) /\ Len(b) \in Nat
  BY <1>1
<1>3. b[p] \in Symbols
  BY <1>2
<1>4. PICK x : x = b[p][2]
  OBVIOUS
<1>5. x \in Nat
  BY <1>1, <1>3, <1>4, SymbolFields
<1>6. p + x <= Len(b)
  BY <1>1, <1>4
<1>7. /\ p + 1 + x \in Nat /\ p + 1 + x > 1
      /\ (p + 1 + x) - 1 \in Nat /\ (p + 1 + x) - 1 <= Len(b)
      /\ p + 1 <= ((p + 1 + x) - 1) + 1
  BY <1>2, <1>5, <1>6
<1> QED
  BY <1>2, <1>4, <1>5, <1>6, <1>7

LEMMA ReadsTyped ==
  ASSUME NEW b \in Seq(Symbols), NEW count \in Nat, NEW f, Reads(b, count, f)
  PROVE  \A n \in 0 .. count : ReadsOn(b, count, f, n)
<1> DEFINE S == {n \in Nat : n <= count => ReadsOn(b, count, f, n)}
<1>1. /\ f[0] = 2
      /\ \A n \in Nat : n + 1 <= count =>
           f[n + 1] = IF f[n] # 0 /\ LengthPrefixed(b, f[n]) THEN f[n] + 1 + b[f[n]][2] ELSE 0
  BY ReadsAt
<1>2. ASSUME NEW n \in Nat, f[n] \in Nat, f[n] # 0 => f[n] > 1
      PROVE  /\ ReadsOn(b, count, f, n)
             /\ n + 1 <= count => f[n + 1] \in Nat /\ (f[n + 1] # 0 => f[n + 1] > 1)
  <2>1. CASE n + 1 <= count
    <3>1. f[n + 1] = IF f[n] # 0 /\ LengthPrefixed(b, f[n]) THEN f[n] + 1 + b[f[n]][2] ELSE 0
      BY <1>1, <2>1
    <3>2. CASE f[n] # 0 /\ LengthPrefixed(b, f[n])
      <4>1. PICK p, q : p = f[n] /\ q = f[n + 1]
        OBVIOUS
      <4>2. p \in Nat /\ p > 1 /\ LengthPrefixed(b, p) /\ q = p + 1 + b[p][2]
        BY <1>2, <3>1, <3>2, <4>1
      <4>3. /\ q \in Nat /\ q > 1 /\ q - 1 \in Nat /\ q - 1 <= Len(b) /\ p + 1 <= (q - 1) + 1
        BY <4>2, EntryOn
      <4> QED
        BY <1>2, <3>2, <4>1, <4>2, <4>3 DEF ReadsOn
    <3>3. CASE ~(f[n] # 0 /\ LengthPrefixed(b, f[n]))
      <4>1. f[n + 1] = 0
        BY <3>1, <3>3
      <4> QED
        BY <1>2, <4>1 DEF ReadsOn
    <3> QED
      BY <3>2, <3>3
  <2>2. CASE ~(n + 1 <= count)
    BY <1>2, <2>2 DEF ReadsOn
  <2> QED
    BY <2>1, <2>2
<1>3. 0 \in S
  BY <1>1, <1>2
<1>4. ASSUME NEW n \in Nat, n \in S PROVE n + 1 \in S
  <2>1. SUFFICES ASSUME n + 1 <= count PROVE ReadsOn(b, count, f, n + 1)
    OBVIOUS
  <2>2. n <= count /\ n + 1 \in Nat
    BY <2>1
  <2>3. ReadsOn(b, count, f, n)
    BY <1>4, <2>2
  <2>4. f[n] \in Nat /\ (f[n] # 0 => f[n] > 1)
    BY <2>3 DEF ReadsOn
  <2>5. f[n + 1] \in Nat /\ (f[n + 1] # 0 => f[n + 1] > 1)
    BY <1>2, <2>1, <2>4
  <2> QED
    BY <1>2, <2>2, <2>5
<1> HIDE DEF S
<1>5. \A n \in Nat : n \in S
  BY <1>3, <1>4, SetInduction
<1>6. \A n \in 0 .. count : n \in Nat /\ n <= count
  OBVIOUS
<1> QED
  BY <1>5, <1>6 DEF S

(* What is read of a shorter body is read of the longer one.               *)
LEMMA ReadsHeads ==
  ASSUME NEW s, NEW t, Heads(Symbols, t, s), NEW count \in Nat,
         NEW f, Reads(s, count, f), NEW g, Reads(t, count, g)
  PROVE  \A n \in 0 .. count : g[n] = 0 \/ g[n] = f[n]
<1> DEFINE S == {n \in Nat : n <= count => g[n] = 0 \/ g[n] = f[n]}
<1>1. t \in Seq(Symbols) /\ s \in Seq(Symbols) /\ Len(t) <= Len(s)
      /\ Len(t) \in Nat /\ Len(s) \in Nat /\ \A p \in 1 .. Len(t) : t[p] = s[p]
  BY DEF Heads
<1>2. f[0] = 2 /\ g[0] = 2
  BY ReadsAt
<1>3. 0 \in S
  BY <1>2
<1>4. ASSUME NEW n \in Nat, n \in S PROVE n + 1 \in S
  <2>1. SUFFICES ASSUME n + 1 <= count, g[n + 1] # 0 PROVE g[n + 1] = f[n + 1]
    OBVIOUS
  <2>2. n \in 0 .. count
    BY <2>1
  <2>3. ReadsOn(t, count, g, n)
    BY <1>1, <2>2, ReadsTyped
  <2>4. PICK p : p = g[n]
    OBVIOUS
  <2>5. p \in Nat /\ p > 1 /\ LengthPrefixed(t, p) /\ g[n + 1] = p + 1 + t[p][2]
    BY <2>1, <2>3, <2>4 DEF ReadsOn
  <2>6. f[n] = p /\ p # 0
    BY <1>4, <2>2, <2>4, <2>5
  <2>7. t[p][2] \in Nat /\ p \in 1 .. Len(t) /\ p + t[p][2] <= Len(t)
    BY <1>1, <2>5, EntryOn
  <2>8. s[p] = t[p]
    BY <1>1, <2>7
  <2>9. LengthPrefixed(s, p)
    <3>1. PICK x : x = t[p][2]
      OBVIOUS
    <3>2. x \in Nat /\ p + x <= Len(t) /\ s[p][2] = x
      BY <2>7, <2>8, <3>1
    <3>3. p <= Len(s) /\ p + x <= Len(s)
      BY <1>1, <2>5, <3>2
    <3>4. Is(s[p], "varint")
      BY <2>5, <2>8 DEF LengthPrefixed
    <3> QED
      BY <3>2, <3>3, <3>4 DEF LengthPrefixed
  <2>10. f[n + 1] = IF f[n] # 0 /\ LengthPrefixed(s, f[n]) THEN f[n] + 1 + s[f[n]][2] ELSE 0
    BY <2>1, ReadsAt
  <2>11. f[n + 1] = p + 1 + s[p][2]
    BY <2>6, <2>9, <2>10
  <2> QED
    BY <2>5, <2>8, <2>11
<1> HIDE DEF S
<1>5. \A n \in Nat : n \in S
  BY <1>3, <1>4, SetInduction
<1>6. \A n \in 0 .. count : n \in Nat /\ n <= count
  OBVIOUS
<1> QED
  BY <1>5, <1>6 DEF S

(* The reads that succeed come before those that fail.                     *)
Good(f, count, m) == m \in 0 .. count /\ \A n \in 0 .. count : f[n] # 0 <=> n <= m

LEMMA GoodExists ==
  ASSUME NEW b \in Seq(Symbols), NEW count \in Nat, NEW f, Reads(b, count, f)
  PROVE  \E m : Good(f, count, m)
<1> DEFINE T == {n \in 0 .. count : f[n] # 0}
<1>1. f[0] = 2
  BY ReadsAt
<1>2. 0 \in T /\ T \in SUBSET (0 .. count)
  BY <1>1
<1> HIDE DEF T
<1>3. PICK m \in T : \A n \in T : n <= m
  BY <1>2, Greatest
<1>4. m \in 0 .. count
  BY <1>2, <1>3
<1> DEFINE S == {d \in Nat : d <= m => f[m - d] # 0}
<1>5. 0 \in S
  <2>1. m - 0 = m
    BY <1>4
  <2> QED
    BY <1>3, <2>1 DEF T
<1>6. ASSUME NEW d \in Nat, d \in S PROVE d + 1 \in S
  <2>1. SUFFICES ASSUME d + 1 <= m PROVE f[m - (d + 1)] # 0
    OBVIOUS
  <2>2. PICK n : n = m - (d + 1)
    OBVIOUS
  <2>3. n \in 0 .. count /\ n + 1 = m - d /\ n + 1 <= count /\ d <= m
    BY <1>4, <2>1, <2>2
  <2>4. f[n + 1] # 0
    BY <1>6, <2>3
  <2>5. ReadsOn(b, count, f, n)
    BY <2>3, ReadsTyped
  <2>6. f[n] # 0
    BY <2>3, <2>4, <2>5 DEF ReadsOn
  <2> QED
    BY <2>2, <2>6
<1> HIDE DEF S
<1>7. \A d \in Nat : d \in S
  BY <1>5, <1>6, SetInduction
<1>8. ASSUME NEW n \in 0 .. count, n <= m PROVE f[n] # 0
  <2>1. m - n \in Nat /\ m - n <= m /\ m - (m - n) = n
    BY <1>4, <1>8
  <2> QED
    BY <1>7, <2>1 DEF S
<1>9. ASSUME NEW n \in 0 .. count, f[n] # 0 PROVE n <= m
  BY <1>3, <1>9 DEF T
<1> QED
  BY <1>4, <1>8, <1>9 DEF Good

EntryAt(b, f, n) == SubSeq(b, f[n - 1] + 1, f[n] - 1)

TableWith(b, count, f) == [n \in {n \in 1 .. count : f[n] # 0} |-> EntryAt(b, f, n)]

TableOf(b) == TableWith(b, b[1][2], CHOOSE f : Reads(b, b[1][2], f))

Listed(b, count, f, m, table) ==
  /\ Reads(b, count, f) /\ Good(f, count, m)
  /\ table \in Seq(Seq(Symbols)) /\ Len(table) = m
  /\ \A n \in 1 .. m : table[n] = EntryAt(b, f, n)

LEMMA TableRead ==
  ASSUME NEW b \in Seq(Symbols), NEW count \in Nat, count = b[1][2]
  PROVE  \E f, m : Listed(b, count, f, m, TableOf(b))
<1>1. PICK f : f = CHOOSE h : Reads(b, count, h)
  OBVIOUS
<1>2. Reads(b, count, f)
  BY <1>1, ReadsExist
<1>3. PICK m : Good(f, count, m)
  BY <1>2, GoodExists
<1>4. TableOf(b) = TableWith(b, count, f)
  BY <1>1 DEF TableOf
<1>5. m \in Nat /\ m <= count
  BY <1>3 DEF Good
<1>6. {n \in 1 .. count : f[n] # 0} = 1 .. m
  BY <1>3, <1>5 DEF Good
<1>7. TableOf(b) = [n \in 1 .. m |-> EntryAt(b, f, n)]
  BY <1>4, <1>6, Zenon DEF TableWith
<1>8. ASSUME NEW n \in 1 .. m PROVE EntryAt(b, f, n) \in Seq(Symbols)
  <2>1. n - 1 \in 0 .. count /\ (n - 1) + 1 = n /\ n <= count /\ n \in 0 .. count
    BY <1>5
  <2>2. f[n] # 0
    BY <1>3, <2>1 DEF Good
  <2>3. PICK p, q : p = f[n - 1] /\ q = f[n]
    OBVIOUS
  <2>4. ReadsOn(b, count, f, n - 1)
    BY <1>2, <2>1, ReadsTyped
  <2>5. p \in Nat /\ p > 1 /\ p + 1 <= (q - 1) + 1 /\ q - 1 \in Nat /\ q - 1 <= Len(b)
    BY <2>1, <2>2, <2>3, <2>4 DEF ReadsOn
  <2>6. PICK k, l : k = p + 1 /\ l = q - 1
    OBVIOUS
  <2>7. k \in Nat /\ k > 0 /\ l \in Nat /\ l <= Len(b) /\ k <= l + 1
    BY <2>5, <2>6
  <2>8. Heads(Symbols, b, b)
    BY DEF Heads
  <2>9. SubSeq(b, k, l) \in Seq(Symbols)
    BY <2>7, <2>8, SameCut
  <2> QED
    BY <2>3, <2>6, <2>9 DEF EntryAt
<1>9. PICK table : table = TableOf(b)
  OBVIOUS
<1>10. table \in Seq(Seq(Symbols)) /\ Len(table) = m /\ \A n \in 1 .. m : table[n] = EntryAt(b, f, n)
  BY <1>5, <1>7, <1>8, <1>9
<1> QED
  BY <1>2, <1>3, <1>9, <1>10 DEF Listed

LEMMA TableHeads ==
  ASSUME NEW s, NEW t, Heads(Symbols, t, s), Len(t) > 0, Is(t[1], "varint")
  PROVE  Heads(Seq(Symbols), TableOf(t), TableOf(s))
<1>1. /\ t \in Seq(Symbols) /\ s \in Seq(Symbols) /\ Len(t) \in Nat
      /\ \A p \in 1 .. Len(t) : t[p] = s[p]
  BY DEF Heads
<1>2. PICK count : count = t[1][2]
  OBVIOUS
<1>3. s[1] = t[1] /\ t[1] \in Symbols
  BY <1>1
<1>4. count \in Nat /\ count = s[1][2]
  BY <1>2, <1>3, SymbolFields
<1>5. PICK old, new : old = TableOf(s) /\ new = TableOf(t)
  OBVIOUS
<1>6. PICK f, m : Listed(s, count, f, m, old)
  BY <1>1, <1>4, <1>5, TableRead
<1>7. PICK g, k : Listed(t, count, g, k, new)
  BY <1>1, <1>2, <1>4, <1>5, TableRead
<1>8. /\ Reads(s, count, f) /\ Good(f, count, m) /\ Reads(t, count, g) /\ Good(g, count, k)
      /\ m \in 0 .. count /\ k \in 0 .. count
      /\ old \in Seq(Seq(Symbols)) /\ Len(old) = m /\ \A n \in 1 .. m : old[n] = EntryAt(s, f, n)
      /\ new \in Seq(Seq(Symbols)) /\ Len(new) = k /\ \A n \in 1 .. k : new[n] = EntryAt(t, g, n)
  BY <1>6, <1>7 DEF Listed, Good
<1>9. \A n \in 0 .. count : g[n] = 0 \/ g[n] = f[n]
  BY <1>4, <1>8, ReadsHeads
<1>10. \A n \in 0 .. k : g[n] # 0 /\ g[n] = f[n]
  <2>1. \A n \in 0 .. k : n \in 0 .. count /\ n <= k
    BY <1>4, <1>8
  <2> QED
    BY <1>8, <1>9, <2>1 DEF Good
<1>11. k <= m
  <2>1. k \in 0 .. k
    BY <1>4, <1>8
  <2>2. f[k] # 0
    BY <1>10, <2>1
  <2> QED
    BY <1>8, <2>2 DEF Good
<1>12. ASSUME NEW n \in 1 .. k PROVE new[n] = old[n]
  <2>1. n - 1 \in 0 .. k /\ n \in 0 .. k /\ (n - 1) + 1 = n /\ n - 1 \in 0 .. count /\ n <= count /\ n \in 1 .. m
    <3>1. count \in Nat /\ k \in Nat /\ m \in Nat /\ k <= count /\ k <= m
      BY <1>4, <1>8, <1>11
    <3>2. n \in Nat /\ 1 <= n /\ n <= k
      BY <3>1
    <3> QED
      BY <3>1, <3>2
  <2>2. PICK p, q : p = g[n - 1] /\ q = g[n]
    OBVIOUS
  <2>3. f[n - 1] = p /\ f[n] = q /\ q # 0
    BY <1>10, <2>1, <2>2
  <2>4. ReadsOn(t, count, g, n - 1)
    BY <1>1, <1>4, <1>8, <2>1, ReadsTyped
  <2>5. p \in Nat /\ p > 1 /\ p + 1 <= (q - 1) + 1 /\ q - 1 \in Nat /\ q - 1 <= Len(t)
    BY <2>1, <2>2, <2>3, <2>4 DEF ReadsOn
  <2>6. PICK a, l : a = p + 1 /\ l = q - 1
    OBVIOUS
  <2>7. a \in Nat /\ a > 0 /\ l \in Nat /\ l <= Len(t) /\ a <= l + 1
    BY <2>5, <2>6
  <2>8. SubSeq(t, a, l) = SubSeq(s, a, l)
    BY <2>7, SameCut
  <2>9. EntryAt(t, g, n) = EntryAt(s, f, n)
    BY <2>2, <2>3, <2>6, <2>8 DEF EntryAt
  <2> QED
    BY <1>8, <2>1, <2>9
<1>13. Heads(Seq(Symbols), new, old)
  <2>1. m \in Nat /\ k \in Nat
    BY <1>4, <1>8
  <2> QED
    BY <1>8, <1>11, <1>12, <2>1 DEF Heads
<1> QED
  BY <1>5, <1>13

NoTable ==
  \/ string_table_page \notin Walked
  \/ PageAt(string_table_page).type # "STRINGS"
  \/ spans[string_table_page].length <= kPageHeaderSize
  \/ ~Is(BodyOf(string_table_page)[1], "varint")

LEMMA BodyOK ==
  ASSUME FileOK, NEW i \in Walked, spans[i].length > 2
  PROVE  BodyOf(i) \in Seq(Symbols) /\ Len(BodyOf(i)) > 0
<1>1. PICK off, len, m, l : /\ off = PageOff(i) /\ len = spans[i].length
                            /\ m = (off + 2) + 1 /\ l = (off + 2) + (len - 2)
  OBVIOUS
<1>2. /\ off \in Nat /\ spans[i].file_offset = off /\ len \in Nat /\ len > 2
      /\ off + len <= Len(data) /\ Len(data) \in Nat
  <2>1. /\ off \in Nat /\ spans[i].file_offset = off /\ len \in 1 .. page_size
        /\ off + len <= Len(data) /\ Len(data) \in Nat
    BY <1>1, SpanOK
  <2>2. len \in Nat /\ len > 2
    BY <1>1, <2>1, StorageAssumption
  <2> QED
    BY <2>1, <2>2
<1>3. BodyOf(i) = SubSeq(data, m, l)
  <2>1. spans[i].file_offset + kPageHeaderSize = off + 2 /\ spans[i].length - kPageHeaderSize = len - 2
    BY <1>1, <1>2 DEF kPageHeaderSize
  <2>2. BodyOf(i) = Bytes(off + 2, len - 2)
    BY <2>1 DEF BodyOf
  <2> QED
    BY <1>1, <2>2 DEF Bytes
<1>4. m \in Nat /\ m > 0 /\ l \in Nat /\ l <= Len(data) /\ m <= l + 1 /\ m <= l
  <2>1. m = (off + 2) + 1 /\ l = (off + 2) + (len - 2)
    BY <1>1
  <2>2. PICK z : z = Len(data)
    OBVIOUS
  <2>3. off \in Nat /\ len \in Nat /\ len > 2 /\ off + len <= z /\ z \in Nat
    BY <1>2, <2>2
  <2>4. m \in Nat /\ m > 0 /\ l \in Nat /\ l <= z
    BY <2>1, <2>3
  <2>5. m <= l + 1 /\ m <= l
    BY <2>1, <2>3
  <2> QED
    BY <2>2, <2>4, <2>5
<1>5. Heads(Symbols, data, data)
  BY DEF FileOK, Heads
<1>6. SubSeq(data, m, l) \in Seq(Symbols) /\ Len(SubSeq(data, m, l)) = (l - m) + 1
  BY <1>4, <1>5, SameCut
<1>7. (l - m) + 1 > 0
  BY <1>4
<1> QED
  BY <1>3, <1>6, <1>7

TableDefined == string_table = IF NoTable THEN << >> ELSE TableOf(BodyOf(string_table_page))

LEMMA TableIs == TableDefined
BY DEF TableDefined, string_table, NoTable, TableOf, TableWith, EntryAt, Reads, BodyOf

LEMMA CutTable ==
  ASSUME FileOK, Cut
  PROVE  Heads(Seq(Symbols), string_table', string_table)
<1>1. PICK i : i = string_table_page
  OBVIOUS
<1>2. TableDefined /\ TableDefined'
  <2>1. TableDefined
    BY TableIs
  <2>2. TableDefined'
    BY TableIs, PTL
  <2> QED
    BY <2>1, <2>2
<1>3. CASE NoTable'
  <2>1. string_table' = << >>
    BY <1>2, <1>3 DEF TableDefined
  <2>2. string_table \in Seq(Seq(Symbols))
    <3>1. CASE NoTable
      <4>1. string_table = << >>
        BY <1>2, <3>1 DEF TableDefined
      <4> QED
        BY <4>1
    <3>2. CASE ~NoTable
      <4>1. PICK b, len : b = BodyOf(i) /\ len = spans[i].length
        OBVIOUS
      <4>2. i \in Walked /\ ~(len <= kPageHeaderSize) /\ Is(b[1], "varint")
        BY <1>1, <3>2, <4>1 DEF NoTable
      <4>3. len > 2
        <5>1. len \in Nat
          BY <4>1, <4>2, SpanOK, StorageAssumption
        <5> QED
          BY <4>2, <5>1 DEF kPageHeaderSize
      <4>4. b \in Seq(Symbols) /\ Len(b) > 0
        BY <4>1, <4>2, <4>3, BodyOK
      <4>5. b[1] \in Symbols
        BY <4>4
      <4>6. b[1][2] \in Nat
        BY <4>2, <4>5, SymbolFields
      <4>7. \E f, k : Listed(b, b[1][2], f, k, TableOf(b))
        BY <4>4, <4>6, TableRead
      <4>8. TableOf(b) \in Seq(Seq(Symbols))
        BY <4>7 DEF Listed
      <4> QED
        BY <1>1, <1>2, <3>2, <4>1, <4>8 DEF TableDefined
    <3> QED
      BY <3>1, <3>2
  <2> QED
    BY <2>1, <2>2, NothingHeads
<1>4. CASE ~NoTable'
  <2>1. PICK s, t, len : s = BodyOf(i) /\ t = BodyOf(i)' /\ len = spans'[i].length
    OBVIOUS
  <2>2. i \in Walked' /\ PageAt(i)'.type = "STRINGS" /\ ~(len <= kPageHeaderSize) /\ Is(t[1], "varint")
    BY <1>1, <1>4, <2>1 DEF NoTable
  <2>3. len > 2
    <3>1. len \in Nat
      BY <2>1, <2>2, CutSpan, StorageAssumption
    <3> QED
      BY <2>2, <3>1 DEF kPageHeaderSize
  <2>4. /\ Heads(Symbols, t, s) /\ Len(t) > 0 /\ spans[i].length > 2 /\ PageAt(i).type = "STRINGS"
    BY <2>1, <2>2, <2>3, CutBody
  <2>5. i \in Walked /\ spans[i].length \in Nat
    BY <2>2, CutSpan, StorageAssumption
  <2>6. ~(spans[i].length <= kPageHeaderSize)
    BY <2>4, <2>5 DEF kPageHeaderSize
  <2>7. Is(s[1], "varint")
    BY <2>2, <2>4 DEF Heads
  <2>8. ~NoTable
    BY <1>1, <2>1, <2>4, <2>5, <2>6, <2>7 DEF NoTable
  <2>9. string_table = TableOf(s) /\ string_table' = TableOf(t)
    BY <1>1, <1>2, <1>4, <2>1, <2>8 DEF TableDefined
  <2>10. Heads(Seq(Symbols), TableOf(t), TableOf(s))
    BY <2>2, <2>4, TableHeads
  <2> QED
    BY <2>9, <2>10
<1> QED
  BY <1>3, <1>4

(* What a field is with the whole string table and with a shorter one.     *)
Alike(u, v) ==
  /\ u.next \in Nat /\ v.next = u.next
  /\ \/ v.value = u.value
     \/ /\ u.value[1] = "STRING_REF" /\ v.value[1] = u.value[1]
        /\ v.value[2] = << FALSE, << >> >>

LEMMA PairAlike ==
  ASSUME NEW n \in Nat, NEW t, NEW y, NEW z, t = "STRING_REF", z = y \/ z = << FALSE, << >> >>
  PROVE  Alike([next |-> n, value |-> << t, y >>], [next |-> n, value |-> << t, z >>])
<1>1. PICK a, c : a = << t, y >> /\ c = << t, z >>
  OBVIOUS
<1>2. a[1] = t /\ c[1] = t /\ c[2] = z
  BY <1>1
<1>3. c = a \/ (a[1] = "STRING_REF" /\ c[1] = a[1] /\ c[2] = << FALSE, << >> >>)
  BY <1>1, <1>2
<1>4. Alike([next |-> n, value |-> a], [next |-> n, value |-> c])
  BY <1>3 DEF Alike
<1> QED
  BY <1>1, <1>4

Resolve(x, table) ==
  IF x < Len(table) THEN << TRUE, table[x + 1] >> ELSE << FALSE, << >> >>

LEMMA ResolveAlike ==
  ASSUME NEW x \in Nat, NEW X, NEW old, NEW new, Heads(X, new, old)
  PROVE  Resolve(x, new) = Resolve(x, old) \/ Resolve(x, new) = << FALSE, << >> >>
<1>1. /\ Len(new) \in Nat /\ Len(old) \in Nat /\ Len(new) <= Len(old)
      /\ \A p \in 1 .. Len(new) : new[p] = old[p]
  BY DEF Heads
<1>2. CASE x < Len(new)
  <2>1. x < Len(old) /\ x + 1 \in 1 .. Len(new)
    BY <1>1, <1>2
  <2>2. new[x + 1] = old[x + 1]
    BY <1>1, <2>1
  <2> QED
    BY <1>2, <2>1, <2>2 DEF Resolve
<1>3. CASE ~(x < Len(new))
  BY <1>3 DEF Resolve
<1> QED
  BY <1>2, <1>3

LEMMA FieldAlike ==
  ASSUME NEW b \in Seq(Symbols), NEW p \in Nat, p > 0,
         NEW X, NEW old, NEW new, Heads(X, new, old)
  PROVE  Alike(FieldAt(b, p, old), FieldAt(b, p, new))
<1> DEFINE number == p < Len(b) /\ Is(b[p + 1], "varint")
           fixed == b[p][2] \in Scalars /\ number
           ref == b[p][2] = "STRING_REF" /\ number
           text == b[p][2] \in {"INLINE_STRING", "BLOB"} /\ LengthPrefixed(b, p + 1)
<1>1. Len(b) \in Nat /\ p + 1 \in Nat /\ p + 2 \in Nat /\ p + 1 > 1
  OBVIOUS
<1>2. CASE p > Len(b) \/ ~Is(b[p], "tag")
  <2>1. /\ FieldAt(b, p, old) = [next |-> 0, value |-> << >>]
        /\ FieldAt(b, p, new) = [next |-> 0, value |-> << >>]
    BY <1>2 DEF FieldAt
  <2> QED
    BY <2>1 DEF Alike
<1>3. CASE ~(p > Len(b) \/ ~Is(b[p], "tag")) /\ b[p][2] = "NULL"
  <2>1. /\ FieldAt(b, p, old) = [next |-> p + 1, value |-> << b[p][2], "null" >>]
        /\ FieldAt(b, p, new) = [next |-> p + 1, value |-> << b[p][2], "null" >>]
    BY <1>3 DEF FieldAt, Scalars
  <2> QED
    BY <1>1, <2>1 DEF Alike
<1>4. CASE ~(p > Len(b) \/ ~Is(b[p], "tag")) /\ fixed
  <2>1. /\ FieldAt(b, p, old) = [next |-> p + 2, value |-> << b[p][2], b[p + 1][2] >>]
        /\ FieldAt(b, p, new) = [next |-> p + 2, value |-> << b[p][2], b[p + 1][2] >>]
    BY <1>4 DEF FieldAt, Scalars
  <2> QED
    BY <1>1, <2>1 DEF Alike
<1>5. CASE ~(p > Len(b) \/ ~Is(b[p], "tag")) /\ ref
  <2>1. PICK x : x = b[p + 1][2]
    OBVIOUS
  <2>2. /\ FieldAt(b, p, old) = [next |-> p + 2, value |-> << b[p][2], Resolve(x, old) >>]
        /\ FieldAt(b, p, new) = [next |-> p + 2, value |-> << b[p][2], Resolve(x, new) >>]
    BY <1>5, <2>1 DEF FieldAt, Scalars, Resolve
  <2>3. x \in Nat
    <3>1. p + 1 \in 1 .. Len(b)
      BY <1>1, <1>5
    <3>2. b[p + 1] \in Symbols
      BY <3>1
    <3> QED
      BY <1>5, <2>1, <3>2, SymbolFields
  <2>4. Resolve(x, new) = Resolve(x, old) \/ Resolve(x, new) = << FALSE, << >> >>
    BY <2>3, ResolveAlike
  <2>5. PICK t, y, z : t = b[p][2] /\ y = Resolve(x, old) /\ z = Resolve(x, new)
    OBVIOUS
  <2>6. t = "STRING_REF" /\ (z = y \/ z = << FALSE, << >> >>)
    BY <1>5, <2>4, <2>5
  <2>7. Alike([next |-> p + 2, value |-> << t, y >>], [next |-> p + 2, value |-> << t, z >>])
    BY <1>1, <2>6, PairAlike
  <2> QED
    BY <2>2, <2>5, <2>7
<1>6. CASE ~(p > Len(b) \/ ~Is(b[p], "tag")) /\ text
  <2>1. PICK x : x = b[p + 1][2]
    OBVIOUS
  <2>2. PICK v : v = << b[p][2], SubSeq(b, p + 2, p + 1 + x) >>
    OBVIOUS
  <2>3. /\ FieldAt(b, p, old) = [next |-> p + 2 + x, value |-> v]
        /\ FieldAt(b, p, new) = [next |-> p + 2 + x, value |-> v]
    BY <1>6, <2>1, <2>2 DEF FieldAt, Scalars
  <2>4. x \in Nat
    BY <1>1, <1>6, <2>1, EntryOn
  <2>5. p + 2 + x \in Nat
    BY <2>4
  <2> QED
    BY <2>3, <2>5 DEF Alike
<1>7. CASE ~(p > Len(b) \/ ~Is(b[p], "tag")) /\ b[p][2] # "NULL" /\ ~fixed /\ ~ref /\ ~text
  <2>1. /\ FieldAt(b, p, old) = [next |-> 0, value |-> << >>]
        /\ FieldAt(b, p, new) = [next |-> 0, value |-> << >>]
    BY <1>7 DEF FieldAt
  <2> QED
    BY <2>1 DEF Alike
<1> HIDE DEF fixed, ref, text
<1> QED
  BY <1>2, <1>3, <1>4, <1>5, <1>6, <1>7

(* The fields one after the other: f[n] is what follows the n-th.          *)
Decodes(b, table, count, f) ==
  f = [n \in 0 .. count |->
         CASE n = 0 -> [next |-> 2, value |-> << >>]
           [] n # 0 /\ f[n - 1].next = 0 -> f[n - 1]
           [] OTHER -> FieldAt(b, f[n - 1].next, table)]

LEMMA DecodesAt ==
  ASSUME NEW b, NEW table, NEW count \in Nat, NEW f, Decodes(b, table, count, f)
  PROVE  /\ DOMAIN f = 0 .. count /\ f[0] = [next |-> 2, value |-> << >>]
         /\ \A n \in Nat : n + 1 <= count =>
              f[n + 1] = IF f[n].next = 0 THEN f[n] ELSE FieldAt(b, f[n].next, table)
<1> DEFINE h(n) == CASE n = 0 -> [next |-> 2, value |-> << >>]
                     [] n # 0 /\ f[n - 1].next = 0 -> f[n - 1]
                     [] OTHER -> FieldAt(b, f[n - 1].next, table)
<1>1. f = [n \in 0 .. count |-> h(n)]
  BY Zenon DEF Decodes
<1>2. h(0) = [next |-> 2, value |-> << >>]
  OBVIOUS
<1>3. ASSUME NEW n \in Nat
      PROVE  h(n + 1) = IF f[n].next = 0 THEN f[n] ELSE FieldAt(b, f[n].next, table)
  <2>1. PICK m, u : m = n + 1 /\ u = f[m - 1]
    OBVIOUS
  <2>2. m # 0 /\ u = f[n]
    BY <2>1
  <2>3. h(m) = IF u.next = 0 THEN u ELSE FieldAt(b, u.next, table)
    BY <2>1, <2>2
  <2> HIDE DEF h
  <2> QED
    BY <2>1, <2>2, <2>3, Zenon
<1> HIDE DEF h
<1>4. DOMAIN f = 0 .. count /\ \A n \in 0 .. count : f[n] = h(n)
  BY <1>1, Zenon
<1>5. 0 \in 0 .. count /\ \A n \in Nat : n + 1 <= count => n + 1 \in 0 .. count
  OBVIOUS
<1> QED
  BY <1>2, <1>3, <1>4, <1>5, Zenon

LEMMA DecodesExist ==
  ASSUME NEW b, NEW table, NEW count \in Nat
  PROVE  \E f : Decodes(b, table, count, f)
<1> DEFINE S == {n \in Nat : \E f : Decodes(b, table, n, f)}
<1>1. 0 \in S
  <2> DEFINE f == [n \in 0 .. 0 |-> [next |-> 2, value |-> << >>]]
  <2>1. Decodes(b, table, 0, f)
    BY DEF Decodes
  <2> HIDE DEF f
  <2> QED
    BY <2>1
<1>2. ASSUME NEW n \in Nat, n \in S PROVE n + 1 \in S
  <2>1. PICK f : Decodes(b, table, n, f)
    BY <1>2
  <2> DEFINE at(u, m) == CASE m = 0 -> [next |-> 2, value |-> << >>]
                           [] m # 0 /\ u.next = 0 -> u
                           [] OTHER -> FieldAt(b, u.next, table)
             g == [m \in 0 .. (n + 1) |-> at(f[m - 1], m)]
  <2>2. f = [m \in 0 .. n |-> at(f[m - 1], m)]
    BY <2>1 DEF Decodes
  <2>3. \A m \in 0 .. n : g[m] = f[m]
    <3> HIDE DEF at
    <3>1. \A m \in 0 .. n : m \in 0 .. (n + 1)
      OBVIOUS
    <3> QED
      BY <2>2, <3>1
  <2>4. ASSUME NEW m \in 0 .. (n + 1) PROVE at(f[m - 1], m) = at(g[m - 1], m)
    <3>1. CASE m = 0
      BY <3>1
    <3>2. CASE m # 0
      <4>1. m - 1 \in 0 .. n
        BY <3>2
      <4>2. g[m - 1] = f[m - 1]
        BY <2>3, <4>1
      <4> HIDE DEF g, at
      <4> QED
        BY <4>2, Zenon
    <3> QED
      BY <3>1, <3>2
  <2>5. g = [m \in 0 .. (n + 1) |-> at(f[m - 1], m)]
    OBVIOUS
  <2> HIDE DEF g
  <2>6. g = [m \in 0 .. (n + 1) |-> at(g[m - 1], m)]
    <3> HIDE DEF at
    <3> QED
      BY <2>4, <2>5
  <2>7. Decodes(b, table, n + 1, g)
    BY <2>6, Zenon DEF Decodes
  <2> QED
    BY <2>7
<1> HIDE DEF S
<1>3. count \in S
  BY <1>1, <1>2, SetInduction
<1> QED
  BY <1>3 DEF S

LEMMA FieldsAlike ==
  ASSUME NEW b \in Seq(Symbols), NEW X, NEW old, NEW new, Heads(X, new, old), NEW count \in Nat,
         NEW f, Decodes(b, old, count, f), NEW g, Decodes(b, new, count, g)
  PROVE  \A n \in 0 .. count : Alike(f[n], g[n])
<1> DEFINE S == {n \in Nat : n <= count => Alike(f[n], g[n])}
<1>1. 0 \in S
  <2>1. f[0] = [next |-> 2, value |-> << >>] /\ g[0] = [next |-> 2, value |-> << >>]
    BY DecodesAt
  <2>2. Alike(f[0], g[0])
    BY <2>1 DEF Alike
  <2> QED
    BY <2>2
<1>2. ASSUME NEW n \in Nat, n \in S PROVE n + 1 \in S
  <2>1. SUFFICES ASSUME n + 1 <= count PROVE Alike(f[n + 1], g[n + 1])
    OBVIOUS
  <2>2. PICK u, v, p : u = f[n] /\ v = g[n] /\ p = u.next
    OBVIOUS
  <2>3. n <= count
    BY <2>1
  <2>4. Alike(u, v)
    BY <1>2, <2>2, <2>3
  <2>5. p \in Nat /\ v.next = p
    BY <2>2, <2>4 DEF Alike
  <2>6. f[n + 1] = IF p = 0 THEN u ELSE FieldAt(b, p, old)
    <3>1. f[n + 1] = IF f[n].next = 0 THEN f[n] ELSE FieldAt(b, f[n].next, old)
      BY <2>1, DecodesAt
    <3> QED
      BY <2>2, <3>1, Zenon
  <2>7. g[n + 1] = IF p = 0 THEN v ELSE FieldAt(b, p, new)
    <3>1. g[n + 1] = IF g[n].next = 0 THEN g[n] ELSE FieldAt(b, g[n].next, new)
      BY <2>1, DecodesAt
    <3> QED
      BY <2>2, <2>5, <3>1, Zenon
  <2>8. CASE p = 0
    BY <2>4, <2>6, <2>7, <2>8
  <2>9. CASE p # 0
    <3>1. p > 0
      BY <2>5, <2>9
    <3>2. Alike(FieldAt(b, p, old), FieldAt(b, p, new))
      BY <2>5, <3>1, FieldAlike
    <3> QED
      BY <2>6, <2>7, <2>9, <3>2
  <2> QED
    BY <2>8, <2>9
<1> HIDE DEF S
<1>3. \A n \in Nat : n \in S
  BY <1>1, <1>2, SetInduction
<1>4. \A n \in 0 .. count : n \in Nat /\ n <= count
  OBVIOUS
<1> QED
  BY <1>3, <1>4 DEF S

FieldsOf(b, table) == CHOOSE f : Decodes(b, table, b[1][2], f)

LEMMA RecordIs ==
  ASSUME NEW b, NEW table
  PROVE  decode_record(b, table) =
           IF ~Is(b[1], "varint") \/ FieldsOf(b, table)[b[1][2]].next = 0
             THEN [thrown |-> TRUE, fields |-> << >>]
             ELSE [thrown |-> FALSE,
                   fields |-> [n \in 1 .. b[1][2] |-> FieldsOf(b, table)[n].value]]
BY DEF decode_record, FieldsOf, Decodes

RecordsAlike(r, q) ==
  /\ q.thrown = r.thrown
  /\ ~r.thrown => SameButUnresolved(r.fields, q.fields)

LEMMA RecordAlike ==
  ASSUME NEW b \in Seq(Symbols), Len(b) > 0, NEW X, NEW old, NEW new, Heads(X, new, old)
  PROVE  RecordsAlike(decode_record(b, old), decode_record(b, new))
<1>1. PICK count, f, g : count = b[1][2] /\ f = FieldsOf(b, old) /\ g = FieldsOf(b, new)
  OBVIOUS
<1>2. PICK r, q : r = decode_record(b, old) /\ q = decode_record(b, new)
  OBVIOUS
<1>3. r = IF ~Is(b[1], "varint") \/ f[count].next = 0
            THEN [thrown |-> TRUE, fields |-> << >>]
            ELSE [thrown |-> FALSE, fields |-> [n \in 1 .. count |-> f[n].value]]
  BY <1>1, <1>2, RecordIs
<1>4. q = IF ~Is(b[1], "varint") \/ g[count].next = 0
            THEN [thrown |-> TRUE, fields |-> << >>]
            ELSE [thrown |-> FALSE, fields |-> [n \in 1 .. count |-> g[n].value]]
  BY <1>1, <1>2, RecordIs
<1>5. CASE ~Is(b[1], "varint")
  <2>1. r.thrown = TRUE /\ q.thrown = TRUE
    BY <1>3, <1>4, <1>5
  <2>2. RecordsAlike(r, q)
    BY <2>1 DEF RecordsAlike
  <2> QED
    BY <1>2, <2>2
<1>6. CASE Is(b[1], "varint")
  <2>1. count \in Nat
    <3>1. b[1] \in Symbols
      OBVIOUS
    <3> QED
      BY <1>1, <1>6, <3>1, SymbolFields
  <2>2. Decodes(b, old, count, f) /\ Decodes(b, new, count, g)
    BY <1>1, <2>1, DecodesExist DEF FieldsOf
  <2>3. \A n \in 0 .. count : Alike(f[n], g[n])
    BY <2>1, <2>2, FieldsAlike
  <2>4. g[count].next = f[count].next
    <3>1. count \in 0 .. count
      BY <2>1
    <3> QED
      BY <2>3, <3>1 DEF Alike
  <2>5. CASE f[count].next = 0
    <3>1. r.thrown = TRUE /\ q.thrown = TRUE
      BY <1>3, <1>4, <2>4, <2>5
    <3>2. RecordsAlike(r, q)
      BY <3>1 DEF RecordsAlike
    <3> QED
      BY <1>2, <3>2
  <2>6. CASE f[count].next # 0
    <3> DEFINE u == [n \in 1 .. count |-> f[n].value]
               v == [n \in 1 .. count |-> g[n].value]
    <3>1. r = [thrown |-> FALSE, fields |-> u] /\ q = [thrown |-> FALSE, fields |-> v]
      BY <1>3, <1>4, <1>6, <2>4, <2>6, Zenon
    <3>2. DOMAIN u = 1 .. count /\ DOMAIN v = 1 .. count
      OBVIOUS
    <3>3. \A n \in 1 .. count :
            v[n] = u[n] \/ (u[n][1] = "STRING_REF" /\ v[n][1] = u[n][1] /\ v[n][2] = << FALSE, << >> >>)
      <4>1. \A n \in 1 .. count : n \in 0 .. count /\ u[n] = f[n].value /\ v[n] = g[n].value
        BY <2>1
      <4> HIDE DEF u, v
      <4> QED
        BY <2>3, <4>1 DEF Alike
    <3> HIDE DEF u, v
    <3>4. SameButUnresolved(u, v)
      BY <3>2, <3>3 DEF SameButUnresolved
    <3>5. r.thrown = FALSE /\ q.thrown = FALSE /\ r.fields = u /\ q.fields = v
      BY <3>1
    <3>6. RecordsAlike(r, q)
      BY <3>4, <3>5 DEF RecordsAlike
    <3> QED
      BY <1>2, <3>6
  <2> QED
    BY <2>5, <2>6
<1> QED
  BY <1>5, <1>6

-----------------------------------------------------------------------------
(* A step that cuts the file.                                              *)
LEMMA CutDegrades ==
  ASSUME FileOK, Cut
  PROVE  Degrades
<1>1. Walked' \subseteq Walked
  BY CutSpan
<1>2. \A i \in Walked' : IsPrefix(Written(i)', Written(i))
  BY CutWritten
<1>3. Heads(Seq(Symbols), string_table', string_table)
  BY CutTable
<1>4. IsPrefix(string_table', string_table)
  BY <1>3, PrefixFound
<1>5. PICK old, new, store, left : old = decoded /\ new = decoded' /\ store = seeded /\ left = seeded'
  OBVIOUS
<1>6. DOMAIN store = Resident /\ DOMAIN left = Resident'
  BY <1>5 DEF seeded
<1>7. \A k \in DOMAIN left : /\ k \in DOMAIN store /\ left[k] = store[k]
                             /\ store[k] \in Seq(Symbols) /\ Len(store[k]) > 0
  BY <1>5, <1>6, CutRecords
<1>8. old = [k \in DOMAIN store |-> decode_record(store[k], string_table)]
  BY <1>5 DEF decoded
<1>9. new = [k \in DOMAIN left |-> decode_record(left[k], string_table')]
  BY <1>5 DEF decoded
<1>10. \A k \in DOMAIN left : RecordsAlike(old[k], new[k])
  <2>1. SUFFICES ASSUME NEW k \in DOMAIN left PROVE RecordsAlike(old[k], new[k])
    OBVIOUS
  <2>2. PICK b : b = store[k]
    OBVIOUS
  <2>3. b \in Seq(Symbols) /\ Len(b) > 0 /\ k \in DOMAIN store /\ left[k] = b
    BY <1>7, <2>2
  <2>4. RecordsAlike(decode_record(b, string_table), decode_record(b, string_table'))
    BY <1>3, <2>3, RecordAlike
  <2>5. old[k] = decode_record(b, string_table)
    BY <1>8, <2>2, <2>3
  <2>6. new[k] = decode_record(b, string_table')
    BY <1>9, <2>3
  <2> QED
    BY <2>4, <2>5, <2>6
<1>11. DOMAIN old = DOMAIN store /\ DOMAIN new = DOMAIN left
  BY <1>8, <1>9
<1>12. ASSUME ~Throws(old)
       PROVE  ~Throws(new) /\ \A k \in DOMAIN new : SameButUnresolved(old[k].fields, new[k].fields)
  <2>1. \A k \in DOMAIN new : ~old[k].thrown
    BY <1>7, <1>11, <1>12 DEF Throws
  <2>2. \A k \in DOMAIN new : RecordsAlike(old[k], new[k])
    BY <1>10, <1>11
  <2> QED
    BY <2>1, <2>2 DEF RecordsAlike, Throws
<1>13. DOMAIN left \subseteq DOMAIN store /\ \A k \in DOMAIN left : left[k] = store[k]
  BY <1>7
<1>14. old \in {decoded} /\ new \in {decoded'} /\ store \in {seeded} /\ left \in {seeded'}
  BY <1>5
<1> QED
  BY <1>1, <1>2, <1>4, <1>12, <1>13, <1>14, Zenon DEF Degrades

LEMMA StepDegrades == MinidbInv /\ [NextMinidb]_<< vars, storage, cursorvars, part >> => (data' # data => Degrades)
<1> SUFFICES ASSUME MinidbInv, [NextMinidb]_<< vars, storage, cursorvars, part >>, data' # data
             PROVE  Degrades
  OBVIOUS
<1>1. FileOK
  BY DEF MinidbInv, WalkInv
<1>2. Cut
  BY DEF NextMinidb, CutFile, StartWalk, Walk, Replay, Scan, storage, vars
<1> QED
  BY <1>1, <1>2, CutDegrades

(* Cutting the file makes pages, strings, index entries and records        *)
(* disappear as wholes: what is left keeps its place and value, a          *)
(* STRING_REF may become unresolved, and a file that opened still opens    *)
(* (parse_pages, parse_string_table, seed_from_pages, decode_record,       *)
(* decode_index_page).                                                     *)
THEOREM TruncationOnlyLosesAlways == SpecMinidb => TruncationOnlyLoses
<1>1. MinidbInv /\ [NextMinidb]_<< vars, storage, cursorvars, part >> => [data' # data => Degrades]_data
  BY StepDegrades
<1> QED
  BY <1>1, MinidbInvariant, PTL DEF SpecMinidb, TruncationOnlyLoses
=============================================================================
