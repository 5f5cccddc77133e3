------------------------------ MODULE FlowLink ------------------------------
(***************************************************************************)
(* A FlowController at work: the sender of one stream, `link', asks it for *)
(* permission, a receiver with a buffer of Capacity bytes advertises its   *)
(* room and confirms what arrived.  Window updates and acks travel over a  *)
(* network that loses, repeats and reorders them.  The other streams of    *)
(* the controller are fed arbitrary inputs meanwhile.                      *)
(*                                                                         *)
(* The receiver and the network are the environment that control.hpp       *)
(* describes ("raised by a window-update of the form (ack_point + window)",*)
(* "reordered or duplicated control/ack inputs").                          *)
(***************************************************************************)
EXTENDS FlowControl

CONSTANTS
  link,        \* the stream under observation
  Capacity,    \* the receiver's buffer, in bytes
  Total        \* bytes the sender wants to send

ASSUME FlowLinkAssumption ==
  /\ link \in Streams
  /\ Capacity \in Nat \ {0}
  /\ Total \in Nat
  /\ Total <= MaxU64 /\ Capacity <= MaxU64

VARIABLES
  received,      \* bytes that reached the receiver
  consumed,      \* bytes its application took out of the buffer
  updates,       \* window updates sent, each deliverable any number of times
  acks           \* acks sent, likewise

network  == << received, consumed, updates, acks >>
linkVars == << flow, known, network >>

sent == flow[link].sent

LinkInit ==
  /\ Init
  /\ received = 0
  /\ consumed = 0
  /\ updates = {}
  /\ acks = {}

Send(n) ==
  /\ sent < Total
  /\ n <= Total - sent
  /\ try_send(link, n)
  /\ UNCHANGED network

Receive ==
  /\ received < sent
  /\ received' = received + 1
  /\ UNCHANGED << flow, known, consumed, updates, acks >>

Consume ==
  /\ consumed < received
  /\ consumed' = consumed + 1
  /\ UNCHANGED << flow, known, received, updates, acks >>

(* The room left in the buffer, anchored at what has arrived.              *)
Room == [ack_point |-> received, window |-> Capacity - (received - consumed)]

Advertise ==
  /\ Room \notin updates
  /\ updates' = updates \cup {Room}
  /\ UNCHANGED << flow, known, received, consumed, acks >>

Confirm ==
  /\ received \notin acks
  /\ acks' = acks \cup {received}
  /\ UNCHANGED << flow, known, received, consumed, updates >>

DeliverUpdate(u) ==
  on_window_update(link, u.ack_point, u.window) /\ UNCHANGED network

DeliverAck(a) ==
  on_ack(link, a) /\ UNCHANGED network

(* Any input whatever on another stream of the same controller.            *)
Elsewhere(st) == Input(st) /\ UNCHANGED network

LinkNext ==
  \/ \E n \in 1 .. Total : Send(n)
  \/ Receive
  \/ Consume
  \/ Advertise
  \/ Confirm
  \/ \E u \in updates : DeliverUpdate(u)
  \/ \E a \in acks : DeliverAck(a)
  \/ \E st \in Streams \ {link} : Elsewhere(st)

(* Both ends keep working, and an update that would be news gets through   *)
(* in the end: the network may lose any finite number of copies.           *)
News == \E u \in updates :
          /\ u.ack_point + u.window > flow[link].advertised
          /\ DeliverUpdate(u)

FairSpec ==
  /\ LinkInit /\ [][LinkNext]_linkVars
  /\ WF_linkVars(\E n \in 1 .. Total : Send(n) /\ Available(flow[link]) > 0)
  /\ WF_linkVars(Receive) /\ WF_linkVars(Consume) /\ WF_linkVars(Advertise)
  /\ WF_linkVars(News)

-----------------------------------------------------------------------------
LinkTypeOK ==
  /\ TypeOK
  /\ received \in 0 .. Total
  /\ consumed \in 0 .. Total

(***************************************************************************)
(* The receiver's buffer never overflows, whatever stale or repeated       *)
(* updates reach the sender.                                               *)
(***************************************************************************)
NoOverrun == sent - consumed <= Capacity

(***************************************************************************)
(* The sender never believes a byte confirmed that has not arrived.        *)
(***************************************************************************)
AckedArrived == flow[link].acked <= received

(***************************************************************************)
(* The window never closes for good: all bytes get through.                *)
(***************************************************************************)
AllConsumed == <>(consumed = Total)

(***************************************************************************)
(* What the two ends believe of each other is safe: no overrun, no byte    *)
(* counted as confirmed that is still under way (control.hpp), and no      *)
(* counter beyond its range, as close to the largest u64 as it comes.      *)
(***************************************************************************)
LinkSafe == NoOverrun /\ AckedArrived /\ LinkTypeOK
=============================================================================
