---------------------------- MODULE Reassembler ----------------------------
(***************************************************************************)
(* Message reassembly of streamcodec (reassembler.hpp, reassembler.cpp):   *)
(* fragments of several messages of several streams, in any order, are     *)
(* placed into per-message buffers; a RESET discards a stream's partials.  *)
(*                                                                         *)
(* The partials live in a vector `store_' and are found through a map      *)
(* `index_'; both are kept here (slots count from 1), because keeping them *)
(* in step across swap-and-pop and compaction is what can go wrong.  What  *)
(* a frame does to one partial is in Fragments.                            *)
(***************************************************************************)
EXTENDS Fragments, FiniteSets

VARIABLES
  store,     \* store_: the sequence of partial messages
  index,     \* index_: key -> slot, a function on the keys it holds
  resets,    \* RESETs seen per stream (StreamStats.resets)
  out,       \* the message the last call emitted, if any
  fault      \* store_ was accessed beyond its end: nothing is promised

vars == << store, index, resets, out, fault >>

KeyOf(p) == << p.stream_id, p.msg_id >>

-----------------------------------------------------------------------------
(* The slot store.                                                         *)

(* slot_for: find the key, or append a fresh partial for it.               *)
slot_for(st, ix, key) ==
  IF key \in DOMAIN ix
    THEN [store |-> st, index |-> ix, slot |-> ix[key]]
    ELSE [store |-> Append(st, Fresh(key)),
          index |-> [k \in DOMAIN ix \cup {key} |->
                       IF k = key THEN Len(st) + 1 ELSE ix[k]],
          slot  |-> Len(st) + 1]

(* Mutations of remove_slot: the slot is not retired; the moved key is not *)
(* repointed; the moved partial arrives empty.                             *)
remove_slot_forgotten(st, ix, i, key) == [store |-> st, index |-> ix]

remove_slot_unpointed(st, ix, i, key) ==
  [store |-> [j \in 1 .. (Len(st) - 1) |-> IF j = i THEN st[Len(st)] ELSE st[j]],
   index |-> [k \in DOMAIN ix \ {key} |-> ix[k]]]

remove_slot_hollow(st, ix, i, key) ==
  LET last  == Len(st)
      left  == DOMAIN ix \ {key}
      moved == KeyOf(st[last])
  IN  [store |-> [j \in 1 .. (last - 1) |-> IF j = i THEN Fresh(moved) ELSE st[j]],
       index |-> IF i = last
                   THEN [k \in left |-> ix[k]]
                   ELSE [k \in left \cup {moved} |->
                           IF k = moved THEN i ELSE ix[k]]]

(* remove_slot: swap-and-pop, repointing the key that was moved.           *)
remove_slot(st, ix, i, key) ==
  LET last  == Len(st)
      left  == DOMAIN ix \ {key}
      moved == KeyOf(st[last])
  IN  [store |-> [j \in 1 .. (last - 1) |-> IF j = i THEN st[last] ELSE st[j]],
       index |-> IF i = last
                   THEN [k \in left |-> ix[k]]
                   ELSE [k \in left \cup {moved} |->
                           IF k = moved THEN i ELSE ix[k]]]

(* The slots that a RESET of the stream empties.                           *)
Holes(st, stream) == {i \in DOMAIN st : st[i].stream_id = stream}

(* The survivors, in order, moved down into the holes.                     *)
Compacted(st, holes) ==
  [j \in 1 .. (Len(st) - Cardinality(holes)) |->
     st[CHOOSE i \in DOMAIN st \ holes :
          i - Cardinality({h \in holes : h < i}) = j]]

(* Entries past the first hole slide down by one.                          *)
Slid(ix, st, holes) ==
  [k \in DOMAIN ix \ {KeyOf(st[h]) : h \in holes} |->
     IF \E h \in holes : h < ix[k] THEN ix[k] - 1 ELSE ix[k]]

-----------------------------------------------------------------------------
Init ==
  /\ store = << >>
  /\ index = [k \in {} |-> 0]
  /\ resets = [s \in Streams |-> 0]
  /\ out = NoMessage
  /\ fault = FALSE

accept_data(f) ==
  LET key == FrameKey(f)
      at  == slot_for(store, index, key)
      p   == WithFragment(at.store[at.slot], f, resets[f.stream_id])
      rem == remove_slot([at.store EXCEPT ![at.slot] = p], at.index, at.slot, key)
  IN  /\ ~fault
      /\ fault' = (at.slot \notin DOMAIN at.store)
      /\ IF fault'
           THEN UNCHANGED << store, index, out >>
           ELSE IF is_complete(p)
             THEN /\ store' = rem.store
                  /\ index' = rem.index
                  /\ out' = Emitted(p, f)
             ELSE /\ store' = [at.store EXCEPT ![at.slot] = p]
                  /\ index' = at.index
                  /\ out' = NoMessage
      /\ UNCHANGED resets

(* Mutation of reset_stream: the stream's partials survive.                *)
reset_stream_noted_only(s) ==
  /\ ~fault
  /\ resets[s] < MaxResets
  /\ resets' = [resets EXCEPT ![s] = @ + 1]
  /\ out' = NoMessage
  /\ UNCHANGED << store, index, fault >>

(* The decoder notes the RESET in the stream's statistics as well.         *)
reset_stream(s) ==
  LET holes == Holes(store, s) IN
  /\ ~fault
  /\ resets[s] < MaxResets
  /\ resets' = [resets EXCEPT ![s] = @ + 1]
  /\ store' = Compacted(store, holes)
  /\ index' = Slid(index, store, holes)
  /\ out' = NoMessage
  /\ UNCHANGED fault

Next ==
  \/ \E f \in Frames : accept_data(f)
  \/ \E s \in Streams : reset_stream(s)

Spec == Init /\ [][Next]_vars

(***************************************************************************)
(* The executions in which every RESET finds at most one message of its    *)
(* stream in flight.                                                       *)
(***************************************************************************)
OneHole(s) == Cardinality(Holes(store, s)) <= 1

OneHoleNext ==
  \/ \E f \in Frames : accept_data(f)
  \/ \E s \in Streams : OneHole(s) /\ reset_stream(s)

OneHoleSpec == Init /\ [][OneHoleNext]_vars

-----------------------------------------------------------------------------
TypeOK ==
  /\ store \in Seq(PartialMessage)
  /\ DOMAIN index \subseteq Keys
  /\ \A k \in DOMAIN index : index[k] \in Nat
  /\ resets \in [Streams -> 0 .. MaxResets]
  /\ out \in Message \cup {NoMessage}
  /\ fault \in BOOLEAN

(***************************************************************************)
(* "keep the map and the store in agreement" (reset_stream): every key     *)
(* maps to the slot that holds its partial, and every slot is reachable    *)
(* through its key.                                                        *)
(***************************************************************************)
IndexAgrees ==
  /\ \A k \in DOMAIN index :
       index[k] \in DOMAIN store /\ KeyOf(store[index[k]]) = k
  /\ \A i \in DOMAIN store :
       KeyOf(store[i]) \in DOMAIN index /\ index[KeyOf(store[i])] = i

(***************************************************************************)
(* The slot store is transparent: seen through the index, the reassembler  *)
(* behaves as the plain map of ReassemblyMap, so that swap-and-pop and     *)
(* compaction never lose, duplicate or exchange a message in flight.       *)
(***************************************************************************)
Held == [k \in DOMAIN index |-> store[index[k]]]

Map == INSTANCE ReassemblyMap WITH partials <- Held

RefinesMap == Map!Spec

(***************************************************************************)
(* The promises of ReassemblyMap, for the partials seen through the index: *)
(* each holds exactly the bytes it claims to hold.                         *)
(***************************************************************************)
CoverageExact == Map!CoverageExact

(***************************************************************************)
(* An emitted message consists of its own bytes only, each at its offset:  *)
(* no fill, no byte of another message, none from before a RESET.          *)
(***************************************************************************)
EmittedWhole == Map!EmittedWhole

(***************************************************************************)
(* A message that is_complete() accepts is never left in flight.           *)
(***************************************************************************)
NothingCompleteHeld == Map!NothingCompleteHeld

(***************************************************************************)
(* "When FIN is seen and the filled ranges cover [0, total_len) the        *)
(* message is complete" (reassembler.hpp): no partial that has its FIN and *)
(* all its bytes is left in flight.                                        *)
(***************************************************************************)
CoveredIsComplete ==
  \A i \in DOMAIN store :
    ~( /\ store[i].have_fin
       /\ 0 .. (store[i].total_len - 1) \subseteq store[i].ranges )
=============================================================================
