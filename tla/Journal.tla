------------------------------ MODULE Journal ------------------------------
(***************************************************************************)
(* Journal replay of minidb (journal.cpp, replay_journal): the last stage  *)
(* of open().  The durable store, seeded from the DATA pages, is mutated   *)
(* by a journal of arbitrary, possibly corrupt, entries.                   *)
(*                                                                         *)
(* One action per journal entry; the entry is chosen when it is read, so   *)
(* that the behaviours are the replays of all journals.  The history       *)
(* variable `log' keeps the entries read.  Record bytes are opaque values, *)
(* some of which decode_record rejects; a key that is not in the store     *)
(* maps to Absent, which is also what a tombstone writes.                  *)
(***************************************************************************)
EXTENDS Integers, Sequences, FiniteSets

CONSTANTS
  Keys,        \* the (page, slot) locators
  Values,      \* record bytes
  BadValues,   \* the record bytes that decode_record throws on
  Absent,      \* no record
  MaxEntries   \* bound on the length of the journal

ASSUME JournalAssumption ==
  /\ Absent \notin Values
  /\ BadValues \subseteq Values
  /\ MaxEntries \in Nat

VARIABLES
  committed,        \* the durable store
  in_txn,           \* a transaction is open
  staged,           \* the ops buffered inside it
  committed_ops,    \* Database::committed_ops
  rolled_back_ops,  \* Database::rolled_back_ops
  status,           \* "replay", then "done" or "failed" (open() threw)
  cause,            \* what ended the replay
  log,              \* the entries read so far
  seed              \* the store the replay started from

vars == << committed, in_txn, staged, committed_ops, rolled_back_ops,
           status, cause, log, seed >>

Cells    == Values \cup {Absent}
Store    == [Keys -> Cells]
StagedOp == [key : Keys, bytes : Cells]

Controls == {"BEGIN", "COMMIT", "ROLLBACK"}

Data(k, v) == [op |-> "DATA", key |-> k, bytes |-> v]
Control(c) == [op |-> c, key |-> Absent, bytes |-> Absent]

(***************************************************************************)
(* apply_committed for every op of a sequence in order: of several ops on  *)
(* one key the last one wins.                                              *)
(***************************************************************************)
LastOn(ops, k) ==
  CHOOSE i \in DOMAIN ops :
    ops[i].key = k /\ \A j \in DOMAIN ops : ops[j].key = k => j <= i

ApplyAll(st, ops) ==
  [k \in Keys |-> IF \E i \in DOMAIN ops : ops[i].key = k
                    THEN ops[LastOn(ops, k)].bytes
                    ELSE st[k]]

-----------------------------------------------------------------------------
Init ==
  /\ seed \in Store
  /\ committed = seed
  /\ in_txn = FALSE
  /\ staged = << >>
  /\ committed_ops = 0
  /\ rolled_back_ops = 0
  /\ status = "replay"
  /\ cause = "none"
  /\ log = << >>

(* An entry is read in full.                                               *)
Read(e) ==
  /\ status = "replay"
  /\ Len(log) < MaxEntries
  /\ log' = Append(log, e)
  /\ UNCHANGED << status, cause, seed >>

(* Mutation of begin: the ops of a dangling transaction stay staged.       *)
begin_unclean ==
  /\ Read(Control("BEGIN"))
  /\ in_txn' = TRUE
  /\ UNCHANGED << committed, staged, committed_ops, rolled_back_ops >>

(* A BEGIN inside an open transaction discards it.                         *)
begin ==
  /\ Read(Control("BEGIN"))
  /\ staged' = << >>
  /\ in_txn' = TRUE
  /\ UNCHANGED << committed, committed_ops, rolled_back_ops >>

(* route, inside a transaction.                                            *)
stage(k, v) ==
  /\ Read(Data(k, v))
  /\ in_txn
  /\ staged' = Append(staged, [key |-> k, bytes |-> v])
  /\ UNCHANGED << committed, in_txn, committed_ops, rolled_back_ops >>

(* route, outside any transaction: auto-commit.                            *)
auto_commit(k, v) ==
  /\ Read(Data(k, v))
  /\ ~in_txn
  /\ committed' = [committed EXCEPT ![k] = v]
  /\ committed_ops' = committed_ops + 1
  /\ UNCHANGED << in_txn, staged, rolled_back_ops >>

commit ==
  /\ Read(Control("COMMIT"))
  /\ in_txn
  /\ committed' = ApplyAll(committed, staged)
  /\ committed_ops' = committed_ops + Len(staged)
  /\ staged' = << >>
  /\ in_txn' = FALSE
  /\ UNCHANGED rolled_back_ops

rollback ==
  /\ Read(Control("ROLLBACK"))
  /\ in_txn
  /\ rolled_back_ops' = rolled_back_ops + Len(staged)
  /\ staged' = << >>
  /\ in_txn' = FALSE
  /\ UNCHANGED << committed, committed_ops >>

(* A COMMIT or ROLLBACK with no open transaction is a no-op.               *)
stray(c) ==
  /\ Read(Control(c))
  /\ ~in_txn
  /\ UNCHANGED << committed, in_txn, staged, committed_ops, rolled_back_ops >>

(* The code after the loop: an open transaction is rolled back (in_txn     *)
(* itself is left set), then every committed record is decoded, and one    *)
(* that cannot be makes open() throw.                                      *)
Finish(why) ==
  /\ status = "replay"
  /\ cause' = why
  /\ rolled_back_ops' = rolled_back_ops + (IF in_txn THEN Len(staged) ELSE 0)
  /\ staged' = << >>
  /\ status' = IF \E k \in Keys : committed[k] \in BadValues
                 THEN "failed" ELSE "done"
  /\ UNCHANGED << committed, in_txn, committed_ops, log, seed >>

end_of_file == Finish("eof")

(* An unknown op stops the replay and keeps what was committed.            *)
unknown_op == Finish("unknown_op")

(* An entry cut short: read_key, read_varint or require throws.            *)
short_read ==
  /\ status = "replay"
  /\ status' = "failed"
  /\ cause' = "short_read"
  /\ UNCHANGED << committed, in_txn, staged, committed_ops, rolled_back_ops,
                  log, seed >>

(* INSERT and UPDATE write record bytes, DELETE writes a tombstone.        *)
Next ==
  \/ begin
  \/ \E k \in Keys, v \in Cells : stage(k, v) \/ auto_commit(k, v)
  \/ commit
  \/ rollback
  \/ \E c \in {"COMMIT", "ROLLBACK"} : stray(c)
  \/ end_of_file
  \/ unknown_op
  \/ short_read

Spec == Init /\ [][Next]_vars

-----------------------------------------------------------------------------
TypeOK ==
  /\ committed \in Store
  /\ seed \in Store
  /\ in_txn \in BOOLEAN
  /\ staged \in Seq(StagedOp)
  /\ committed_ops \in Nat
  /\ rolled_back_ops \in Nat
  /\ status \in {"replay", "done", "failed"}
  /\ cause \in {"none", "eof", "unknown_op", "short_read"}
  /\ log \in Seq([op : Controls \cup {"DATA"}, key : Keys \cup {Absent},
                  bytes : Cells])

(***************************************************************************)
(* The reference: which entries of a journal count.  A data entry belongs  *)
(* to a transaction if the nearest control entry before it is a BEGIN; it  *)
(* is effective if it belongs to none, or if the nearest control entry     *)
(* after it is a COMMIT.                                                   *)
(***************************************************************************)
IsControl(i) == log[i].op \in Controls

NearestBefore(i, b) ==
  b < i /\ IsControl(b) /\ \A j \in DOMAIN log : b < j /\ j < i => ~IsControl(j)

NearestAfter(i, c) ==
  i < c /\ IsControl(c) /\ \A j \in DOMAIN log : i < j /\ j < c => ~IsControl(j)

InTransaction(i) ==
  \E b \in DOMAIN log : NearestBefore(i, b) /\ log[b].op = "BEGIN"

ClosedBy(i, what) ==
  \E c \in DOMAIN log : NearestAfter(i, c) /\ log[c].op = what

Effective(i) ==
  ~IsControl(i) /\ (InTransaction(i) => ClosedBy(i, "COMMIT"))

EffectiveOn(k) == {i \in DOMAIN log : Effective(i) /\ log[i].key = k}

(* Undone by a ROLLBACK or, once the replay is over, by the missing end of *)
(* the transaction.  (Entries dropped by a nested BEGIN are in neither.)   *)
Undone(i) ==
  /\ ~IsControl(i)
  /\ InTransaction(i)
  /\ \/ ClosedBy(i, "ROLLBACK")
     \/ cause \in {"eof", "unknown_op"} /\ \A c \in DOMAIN log : ~NearestAfter(i, c)

(***************************************************************************)
(* Replay computes what the journal says, at every point of every journal: *)
(* each key holds what its last effective entry wrote, or its seed.  So a  *)
(* transaction shows completely or not at all, and never before COMMIT.    *)
(* The counters surfaced in the summary agree: committed_ops counts the    *)
(* effective entries, rolled_back_ops those that were undone.              *)
(***************************************************************************)
ReplayExact ==
  /\ \A k \in Keys :
       \/ EffectiveOn(k) = {} /\ committed[k] = seed[k]
       \/ \E i \in EffectiveOn(k) :
            /\ \A j \in EffectiveOn(k) : j <= i
            /\ committed[k] = log[i].bytes
  /\ committed_ops = Cardinality({i \in DOMAIN log : Effective(i)})
  /\ rolled_back_ops = Cardinality({i \in DOMAIN log : Undone(i)})

(***************************************************************************)
(* "A corrupt journal tail must not discard a valid prefix" (journal.cpp)  *)
(* and "Only stage 1 may throw on a near-valid input; the rest degrade     *)
(* gracefully" (minidb.cpp): when decodable records were committed, open() *)
(* returns them.                                                           *)
(***************************************************************************)
ValidPrefixKept ==
  status = "failed" =>
    \/ committed_ops = 0
    \/ \E k \in Keys : committed[k] \in BadValues
=============================================================================
