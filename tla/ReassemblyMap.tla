--------------------------- MODULE ReassemblyMap ---------------------------
(***************************************************************************)
(* What the reassembler promises, without its slot store: a map from the   *)
(* keys of the messages in flight to their partials.  A DATA frame touches *)
(* its own key only, a RESET removes the keys of its stream and no other.  *)
(* Reassembler implements this specification.                              *)
(***************************************************************************)
EXTENDS Fragments

VARIABLES
  partials,  \* key -> PartialMessage, for the keys in flight
  resets,    \* RESETs seen per stream (StreamStats.resets)
  out        \* the message the last call emitted, if any

vars == << partials, resets, out >>

Init ==
  /\ partials = [k \in {} |-> Fresh(k)]
  /\ resets = [s \in Streams |-> 0]
  /\ out = NoMessage

(* The partial of the frame's key with the frame placed.                   *)
Updated(f) ==
  LET key == FrameKey(f) IN
  WithFragment(IF key \in DOMAIN partials THEN partials[key] ELSE Fresh(key),
               f, resets[f.stream_id])

Fill(f) ==
  /\ ~is_complete(Updated(f))
  /\ partials' = [k \in DOMAIN partials \cup {FrameKey(f)} |->
                    IF k = FrameKey(f) THEN Updated(f) ELSE partials[k]]
  /\ out' = NoMessage
  /\ UNCHANGED resets

Emit(f) ==
  /\ is_complete(Updated(f))
  /\ partials' = [k \in DOMAIN partials \ {FrameKey(f)} |-> partials[k]]
  /\ out' = Emitted(Updated(f), f)
  /\ UNCHANGED resets

Reset(s) ==
  /\ resets[s] < MaxResets
  /\ resets' = [resets EXCEPT ![s] = @ + 1]
  /\ partials' = [k \in {k \in DOMAIN partials : k[1] # s} |-> partials[k]]
  /\ out' = NoMessage

Next ==
  \/ \E f \in Frames : Fill(f) \/ Emit(f)
  \/ \E s \in Streams : Reset(s)

Spec == Init /\ [][Next]_vars

-----------------------------------------------------------------------------
TypeOK ==
  /\ DOMAIN partials \subseteq Keys
  /\ \A k \in DOMAIN partials :
       /\ partials[k] \in PartialMessage
       /\ partials[k].stream_id = k[1] /\ partials[k].msg_id = k[2]
  /\ resets \in [Streams -> 0 .. MaxResets]
  /\ out \in Message \cup {NoMessage}

(***************************************************************************)
(* At all times every message in flight holds exactly the bytes it claims  *)
(* to hold (add_range, resize and copy_n agree in accept_data).            *)
(***************************************************************************)
CoverageExact ==
  \A k \in DOMAIN partials : HoldsWhatItClaims(partials[k], resets[k[1]])

(***************************************************************************)
(* An emitted message consists of its own bytes only, each at its offset:  *)
(* no fill, no byte of another message, none from before a RESET.          *)
(***************************************************************************)
EmittedWhole ==
  out # NoMessage =>
    \A j \in 0 .. (Len(out.data) - 1) :
      out.data[j + 1] = << out.stream_id, out.msg_id, resets[out.stream_id], j >>

(***************************************************************************)
(* A message that is_complete() accepts is never left in flight.           *)
(***************************************************************************)
NothingCompleteHeld ==
  \A k \in DOMAIN partials : ~is_complete(partials[k])
=============================================================================
