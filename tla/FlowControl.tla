---------------------------- MODULE FlowControl ----------------------------
(***************************************************************************)
(* The per-stream send window of streamcodec (control.hpp, control.cpp).   *)
(*                                                                         *)
(* FlowController keeps, for every stream it has heard of, three           *)
(* cumulative byte counters and a cached `blocked' flag:                   *)
(*   advertised  the send ceiling granted so far                           *)
(*   sent        bytes admitted for sending                                *)
(*   acked       bytes confirmed                                           *)
(* All three are u64 in the code; MaxU64 stands for UINT64_MAX, so that    *)
(* saturation and wrap-around are part of the model.                       *)
(***************************************************************************)
EXTENDS Integers

CONSTANTS
  Streams,   \* the stream ids in use
  MaxU64,    \* the largest value of the counters (UINT64_MAX)
  Amounts    \* the byte counts that inputs carry

ASSUME FlowAssumption ==
  /\ MaxU64 \in Nat
  /\ Amounts \subseteq 0 .. MaxU64

VARIABLES
  flow,      \* the FlowState of every stream (zero while it is unknown)
  known      \* the streams that have an entry in streams_

vars == << flow, known >>

U64 == 0 .. MaxU64

FlowState ==
  [advertised : U64, sent : U64, acked : U64, blocked : BOOLEAN]

Larger(a, b)  == IF a >= b THEN a ELSE b
Smaller(a, b) == IF a <= b THEN a ELSE b

(* FlowController::refresh: recompute the cached flag.                     *)
Refresh(s) == [s EXCEPT !.blocked = s.sent >= s.advertised]

(* Remaining send credit, FlowState::available.                            *)
Available(s) == IF s.advertised >= s.sent THEN s.advertised - s.sent ELSE 0

(* ack_point + window, guarded against u64 overflow.                       *)
Ceiling(ack_point, window) ==
  IF window > MaxU64 - ack_point THEN MaxU64 ELSE ack_point + window

(* Mutations of AfterWindowUpdate: the cached flag is not refreshed; the   *)
(* window is added to the ceiling instead of anchored at ack_point; a      *)
(* blocked stream ignores updates.                                         *)
AfterWindowUpdate_unrefreshed(s, ack_point, window) ==
  [s EXCEPT !.advertised = Larger(@, Ceiling(ack_point, window))]

AfterWindowUpdate_additive(s, ack_point, window) ==
  Refresh([s EXCEPT !.advertised = Ceiling(@, window)])

AfterWindowUpdate_deaf(s, ack_point, window) ==
  IF s.blocked THEN s
  ELSE Refresh([s EXCEPT !.advertised = Larger(@, Ceiling(ack_point, window))])

AfterWindowUpdate(s, ack_point, window) ==
  Refresh([s EXCEPT !.advertised = Larger(@, Ceiling(ack_point, window))])

(* Mutations of AfterAck: no clamp to what was sent; a stale ack moves     *)
(* `acked' back.                                                           *)
AfterAck_unclamped(s, acked_bytes) ==
  Refresh([s EXCEPT !.acked = Larger(@, acked_bytes)])

AfterAck_stale(s, acked_bytes) ==
  Refresh([s EXCEPT !.acked = Smaller(acked_bytes, s.sent)])

AfterAck(s, acked_bytes) ==
  Refresh([s EXCEPT !.acked = Smaller(Larger(@, acked_bytes), s.sent)])

Admitted(s, n) == Smaller(n, Available(s))

(* `sent += admit' on a u64.                                               *)
AfterSend(s, n) ==
  Refresh([s EXCEPT !.sent = (@ + Admitted(s, n)) % (MaxU64 + 1)])

(* blocked(): an unknown stream has nothing advertised, hence is blocked.  *)
Blocked(st) == st \notin known \/ flow[st].blocked

-----------------------------------------------------------------------------
Init ==
  /\ flow = [st \in Streams |->
               [advertised |-> 0, sent |-> 0, acked |-> 0, blocked |-> FALSE]]
  /\ known = {}

(* Every handler starts with streams_[stream_id], which creates the entry. *)
Touch(st, s) ==
  /\ flow' = [flow EXCEPT ![st] = s]
  /\ known' = known \cup {st}

on_window_update(st, ack_point, window) ==
  Touch(st, AfterWindowUpdate(flow[st], ack_point, window))

on_ack(st, acked_bytes) ==
  Touch(st, AfterAck(flow[st], acked_bytes))

try_send(st, n) ==
  Touch(st, AfterSend(flow[st], n))

(* Any input at all on a stream.                                           *)
Input(st) ==
  \/ \E a, w \in Amounts : on_window_update(st, a, w)
  \/ \E a \in Amounts : on_ack(st, a)
  \/ \E n \in Amounts : try_send(st, n)

Next == \E st \in Streams : Input(st)

Spec == Init /\ [][Next]_vars

-----------------------------------------------------------------------------
TypeOK ==
  /\ flow \in [Streams -> FlowState]
  /\ known \subseteq Streams

(***************************************************************************)
(* The counters stay ordered whatever the order, staleness or duplication  *)
(* of the inputs: nothing is confirmed that was not sent, and nothing is   *)
(* sent beyond the ceiling.  In particular `sent += admit' never wraps.    *)
(***************************************************************************)
WindowOrdered ==
  \A st \in Streams :
    /\ flow[st].acked <= flow[st].sent
    /\ flow[st].sent <= flow[st].advertised

(***************************************************************************)
(* The cached flag is never stale: blocked() answers TRUE exactly when     *)
(* try_send would admit nothing, for unknown streams too.                  *)
(***************************************************************************)
BlockedExact ==
  \A st \in Streams : Blocked(st) <=> Available(flow[st]) = 0

(***************************************************************************)
(* No input ever moves a counter of any stream backwards: window ceilings  *)
(* only rise, acks only advance, sent bytes are never taken back.          *)
(***************************************************************************)
CountersMonotone ==
  [][\A st \in Streams :
       /\ flow'[st].advertised >= flow[st].advertised
       /\ flow'[st].sent >= flow[st].sent
       /\ flow'[st].acked >= flow[st].acked]_vars
=============================================================================
