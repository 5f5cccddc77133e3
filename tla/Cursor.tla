------------------------------- MODULE Cursor -------------------------------
(***************************************************************************)
(* The record cursor of minidb (cursor.hpp, cursor.cpp).                   *)
(*                                                                         *)
(* Database::records is a map from (page, slot); a cursor keeps an         *)
(* iterator into it and whether it has been moved at all.  Field access    *)
(* and rendering only read the record under the iterator.                  *)
(***************************************************************************)
EXTENDS Integers, Sequences

CONSTANTS
  Locators,   \* (page, slot) pairs that may hold a record
  MaxMoves    \* bound on the calls of next() and seek()

ASSUME CursorAssumption == Locators \subseteq Nat \X Nat /\ MaxMoves \in Nat

VARIABLES
  rows,      \* the keys of Database::records
  it,        \* it_: a set of at most one key, empty at end()
  started,   \* started_
  from,      \* ghost: where the scan began, a set of at most one locator
  seen,      \* ghost: the keys met since then
  moves      \* ghost: number of calls

cursorvars == << rows, it, started, from, seen, moves >>

(* std::pair's order.                                                      *)
Before(a, b) == a[1] < b[1] \/ (a[1] = b[1] /\ a[2] < b[2])

(* The least key of a set, as a set of at most one.                        *)
Least(keys) == {k \in keys : \A j \in keys : ~Before(j, k)}

InitCursor ==
  /\ rows \in SUBSET Locators
  /\ it = {} /\ started = FALSE
  /\ from = {} /\ seen = << >> /\ moves = 0

valid == started /\ it # {}

(* What the caller sees after the call.                                    *)
Moved(list) == seen' = IF it' = {} THEN list ELSE Append(list, CHOOSE k \in it' : TRUE)

Move == moves < MaxMoves /\ moves' = moves + 1 /\ UNCHANGED rows

cursor_next_first ==
  /\ Move /\ ~started
  /\ it' = Least(rows)
  /\ started' = TRUE
  /\ from' = {} /\ Moved(<< >>)

(* Mutation of cursor_next: an exhausted cursor starts over.               *)
cursor_next_cyclic ==
  /\ Move /\ started
  /\ it' = Least({k \in rows : \A j \in it : Before(j, k)})
  /\ UNCHANGED << started, from >> /\ Moved(seen)

(* An exhausted cursor stays put.                                          *)
cursor_next ==
  /\ Move /\ started
  /\ it' = IF it = {} THEN {} ELSE Least({k \in rows : \A j \in it : Before(j, k)})
  /\ UNCHANGED << started, from >> /\ Moved(seen)

(* lower_bound: the first key that is not before the one sought.           *)
cursor_seek(k) ==
  /\ Move
  /\ it' = Least({j \in rows : ~Before(j, k)})
  /\ started' = TRUE
  /\ from' = {k} /\ Moved(<< >>)

NextCursor ==
  \/ cursor_next_first
  \/ cursor_next
  \/ \E k \in Locators : cursor_seek(k)

-----------------------------------------------------------------------------
(***************************************************************************)
(* A scan, from the beginning or from a seek, meets the keys at or behind  *)
(* its start in ascending order, each once, and leaves none out: when it   *)
(* ends it has met all of them, and it stays ended.                        *)
(***************************************************************************)
CursorExact ==
  LET due == {k \in rows : \A f \in from : ~Before(k, f)}
      met == {seen[i] : i \in DOMAIN seen}
  IN  /\ \A i, j \in DOMAIN seen : i < j => Before(seen[i], seen[j])
      /\ met \subseteq due
      /\ \A k \in due \ met : \A m \in met : Before(m, k)
      /\ valid => it = {seen[Len(seen)]}
      /\ started /\ ~valid => met = due
=============================================================================
