-------------------------- MODULE FlowLink_proofs --------------------------
(***************************************************************************)
(* The window arithmetic of FlowController, proved for every width of the  *)
(* counters and every set of streams, and the safety of a flow-controlled  *)
(* link, for every buffer size, every amount of data and every interplay   *)
(* of lost, repeated and reordered control messages.                       *)
(***************************************************************************)
EXTENDS FlowLink, TLAPS

-----------------------------------------------------------------------------
(* FlowControl.                                                            *)

(* The conjunction is inductive; none of its parts but TypeOK is: the      *)
(* cached flag is exact only while sent <= advertised, and `sent += admit' *)
(* stays a u64 only below the ceiling.                                     *)
FlagFresh ==
  \A st \in Streams :
    /\ st \in known => (flow[st].blocked <=> flow[st].sent >= flow[st].advertised)
    /\ st \notin known => flow[st].advertised = 0 /\ flow[st].sent = 0

FlowInv == TypeOK /\ WindowOrdered /\ FlagFresh

-----------------------------------------------------------------------------
(* What each input does to the FlowState of its stream.                    *)
StateOrdered(s) == s.acked <= s.sent /\ s.sent <= s.advertised

GoodStep(s, t) ==
  /\ t \in FlowState
  /\ StateOrdered(t)
  /\ t.blocked <=> t.sent >= t.advertised
  /\ t.advertised >= s.advertised
  /\ t.sent >= s.sent
  /\ t.acked >= s.acked

(* refresh() touches the flag only.                                        *)
LEMMA RefreshFields ==
  ASSUME NEW s \in FlowState
  PROVE  /\ Refresh(s) \in FlowState
         /\ Refresh(s).advertised = s.advertised
         /\ Refresh(s).sent = s.sent
         /\ Refresh(s).acked = s.acked
         /\ Refresh(s).blocked <=> s.sent >= s.advertised
<1> DEFINE b == s.sent >= s.advertised
<1>1. b \in BOOLEAN
  BY DEF FlowState, U64
<1>2. Refresh(s) = [s EXCEPT !.blocked = b]
  BY DEF Refresh
<1> HIDE DEF b
<1>3. /\ [s EXCEPT !.blocked = b] \in FlowState
      /\ [s EXCEPT !.blocked = b].advertised = s.advertised
      /\ [s EXCEPT !.blocked = b].sent = s.sent
      /\ [s EXCEPT !.blocked = b].acked = s.acked
      /\ [s EXCEPT !.blocked = b].blocked = b
  BY <1>1 DEF FlowState
<1> QED
  BY <1>1, <1>2, <1>3 DEF b

(* on_window_update keeps the counters ordered, in range and monotone,     *)
(* also when ack_point + window exceeds the u64 range.                     *)
LEMMA WindowUpdateGood ==
  ASSUME NEW s \in FlowState, StateOrdered(s), NEW a \in U64, NEW w \in U64
  PROVE  GoodStep(s, AfterWindowUpdate(s, a, w))
<1> DEFINE c == Larger(s.advertised, Ceiling(a, w))
           t == [s EXCEPT !.advertised = c]
<1>1. c \in U64 /\ c >= s.advertised
  BY FlowAssumption DEF Larger, Ceiling, FlowState, U64
<1>2. t \in FlowState /\ t.advertised = c /\ t.sent = s.sent /\ t.acked = s.acked
  BY <1>1 DEF FlowState
<1>3. AfterWindowUpdate(s, a, w) = Refresh(t)
  BY DEF AfterWindowUpdate
<1> HIDE DEF c, t
<1> QED
  BY <1>1, <1>2, <1>3, RefreshFields, FlowAssumption
  DEF GoodStep, StateOrdered, FlowState, U64

(* on_ack keeps the counters ordered, in range and monotone, also for an   *)
(* ack of bytes that were never sent.                                      *)
LEMMA AckGood ==
  ASSUME NEW s \in FlowState, StateOrdered(s), NEW a \in U64
  PROVE  GoodStep(s, AfterAck(s, a))
<1> DEFINE c == Smaller(Larger(s.acked, a), s.sent)
           t == [s EXCEPT !.acked = c]
<1>1. c \in U64 /\ c >= s.acked /\ c <= s.sent
  BY FlowAssumption DEF Larger, Smaller, StateOrdered, FlowState, U64
<1>2. t \in FlowState /\ t.acked = c /\ t.sent = s.sent
      /\ t.advertised = s.advertised
  BY <1>1 DEF FlowState
<1>3. AfterAck(s, a) = Refresh(t)
  BY DEF AfterAck
<1> HIDE DEF c, t
<1> QED
  BY <1>1, <1>2, <1>3, RefreshFields, FlowAssumption
  DEF GoodStep, StateOrdered, FlowState, U64

(* try_send keeps the counters ordered, in range and monotone: the sum     *)
(* never reaches the modulus.                                              *)
LEMMA SendGood ==
  ASSUME NEW s \in FlowState, StateOrdered(s), NEW n \in U64
  PROVE  GoodStep(s, AfterSend(s, n))
<1> DEFINE m == Admitted(s, n)
           t == [s EXCEPT !.sent = s.sent + m]
<1>1. m \in Nat /\ s.sent + m <= s.advertised
  BY FlowAssumption
  DEF StateOrdered, Admitted, Available, Smaller, FlowState, U64
<1>2. (s.sent + m) % (MaxU64 + 1) = s.sent + m
  BY <1>1, FlowAssumption DEF FlowState, U64
<1>3. t \in FlowState /\ t.sent = s.sent + m /\ t.acked = s.acked
      /\ t.advertised = s.advertised
  BY <1>1, FlowAssumption DEF FlowState, U64
<1>4. AfterSend(s, n) = Refresh(t)
  BY <1>2 DEF AfterSend
<1> HIDE DEF m, t
<1> QED
  BY <1>1, <1>3, <1>4, RefreshFields, FlowAssumption
  DEF GoodStep, StateOrdered, FlowState, U64

-----------------------------------------------------------------------------
LEMMA InitFlowInv == Init => FlowInv
  BY FlowAssumption
  DEF Init, FlowInv, TypeOK, WindowOrdered, FlagFresh, FlowState, U64

(* Every action writes one stream's state, by a good step.                 *)
LEMMA NextIsTouch ==
  ASSUME FlowInv, Next
  PROVE  \E st \in Streams, t \in FlowState : Touch(st, t) /\ GoodStep(flow[st], t)
<1> PICK st \in Streams :
      \/ \E a, w \in Amounts : on_window_update(st, a, w)
      \/ \E a \in Amounts : on_ack(st, a)
      \/ \E n \in Amounts : try_send(st, n)
  BY DEF Next, Input
<1>1. flow[st] \in FlowState /\ StateOrdered(flow[st])
  BY DEF FlowInv, TypeOK, WindowOrdered, StateOrdered
<1>2. Amounts \subseteq U64
  BY FlowAssumption DEF U64
<1>3. CASE \E a, w \in Amounts : on_window_update(st, a, w)
  <2> PICK a, w \in Amounts : on_window_update(st, a, w)
    BY <1>3
  <2>1. GoodStep(flow[st], AfterWindowUpdate(flow[st], a, w))
    BY <1>1, <1>2, WindowUpdateGood
  <2> QED
    BY <2>1 DEF on_window_update, GoodStep
<1>4. CASE \E a \in Amounts : on_ack(st, a)
  <2> PICK a \in Amounts : on_ack(st, a)
    BY <1>4
  <2>1. GoodStep(flow[st], AfterAck(flow[st], a))
    BY <1>1, <1>2, AckGood
  <2> QED
    BY <2>1 DEF on_ack, GoodStep
<1>5. CASE \E n \in Amounts : try_send(st, n)
  <2> PICK n \in Amounts : try_send(st, n)
    BY <1>5
  <2>1. GoodStep(flow[st], AfterSend(flow[st], n))
    BY <1>1, <1>2, SendGood
  <2> QED
    BY <2>1 DEF try_send, GoodStep
<1> QED
  BY <1>3, <1>4, <1>5

LEMMA StepFlowInv == FlowInv /\ [Next]_vars => FlowInv'
<1> SUFFICES ASSUME FlowInv, [Next]_vars PROVE FlowInv'
  OBVIOUS
<1>1. CASE Next
  <2> PICK st \in Streams, t \in FlowState : Touch(st, t) /\ GoodStep(flow[st], t)
    BY <1>1, NextIsTouch
  <2>1. TypeOK'
    BY DEF FlowInv, TypeOK, Touch, GoodStep
  <2>2. \A u \in Streams : flow'[u] = IF u = st THEN t ELSE flow[u]
    BY DEF FlowInv, TypeOK, Touch
  <2>3. WindowOrdered'
    BY <2>2 DEF FlowInv, WindowOrdered, GoodStep, StateOrdered
  <2>4. FlagFresh'
    BY <2>2 DEF FlowInv, FlagFresh, Touch, GoodStep
  <2> QED
    BY <2>1, <2>3, <2>4 DEF FlowInv
<1>2. CASE UNCHANGED vars
  BY <1>2 DEF vars, FlowInv, TypeOK, WindowOrdered, FlagFresh
<1> QED
  BY <1>1, <1>2

LEMMA FlowInvariant == Spec => []FlowInv
  BY InitFlowInv, StepFlowInv, PTL DEF Spec

-----------------------------------------------------------------------------
(* The counters never leave the u64 range (control.cpp).                   *)
THEOREM TypeCorrect == Spec => []TypeOK
<1>1. FlowInv => TypeOK
  BY DEF FlowInv
<1> QED
  BY <1>1, FlowInvariant, PTL

(* acked <= sent <= advertised in every reachable state of every stream,   *)
(* whatever the order, staleness or duplication of the inputs.             *)
THEOREM WindowOrderedAlways == Spec => []WindowOrdered
<1>1. FlowInv => WindowOrdered
  BY DEF FlowInv
<1> QED
  BY <1>1, FlowInvariant, PTL

(* blocked() is TRUE exactly when try_send would admit nothing.            *)
THEOREM BlockedExactAlways == Spec => []BlockedExact
<1>1. ASSUME FlowInv PROVE BlockedExact
  <2> SUFFICES ASSUME NEW st \in Streams
               PROVE  Blocked(st) <=> Available(flow[st]) = 0
    BY DEF BlockedExact
  <2>1. flow[st].advertised \in Nat /\ flow[st].sent \in Nat
    BY <1>1, FlowAssumption DEF FlowInv, TypeOK, FlowState, U64
  <2>2. Available(flow[st]) = 0 <=> flow[st].sent >= flow[st].advertised
    BY <2>1 DEF Available
  <2> QED
    BY <1>1, <2>1, <2>2 DEF FlowInv, FlagFresh, Blocked
<1> QED
  BY <1>1, FlowInvariant, PTL

(* No handler moves a counter of any stream backwards.                     *)
THEOREM CountersMonotoneAlways == Spec => CountersMonotone
<1> DEFINE Up == \A st \in Streams :
                   /\ flow'[st].advertised >= flow[st].advertised
                   /\ flow'[st].sent >= flow[st].sent
                   /\ flow'[st].acked >= flow[st].acked
<1>1. FlowInv /\ [Next]_vars => [Up]_vars
  <2> SUFFICES ASSUME FlowInv, Next PROVE Up
    OBVIOUS
  <2> PICK st \in Streams, t \in FlowState : Touch(st, t) /\ GoodStep(flow[st], t)
    BY NextIsTouch
  <2>1. \A u \in Streams : flow'[u] = IF u = st THEN t ELSE flow[u]
    BY DEF FlowInv, TypeOK, Touch
  <2> QED
    BY <2>1 DEF FlowInv, TypeOK, GoodStep, FlowState, U64
<1> QED
  BY <1>1, FlowInvariant, PTL DEF Spec, CountersMonotone

-----------------------------------------------------------------------------
(* FlowLink.                                                               *)

(***************************************************************************)
(* NoOverrun is not inductive: an update under way may raise the ceiling   *)
(* later.  What makes it safe is that no update ever promised more than    *)
(* the bytes taken out so far plus the buffer, and that this only grows.   *)
(***************************************************************************)
Promise == consumed + Capacity

Counted ==
  /\ received \in Nat /\ consumed \in Nat
  /\ consumed <= received /\ received <= sent /\ sent <= Total

UpdatesHonest ==
  \A u \in updates : /\ u.ack_point \in U64 /\ u.window \in U64
                     /\ u.ack_point + u.window <= Promise

AcksHonest == \A a \in acks : a \in U64 /\ a <= received

CeilingHonest == flow[link].advertised <= Promise

LinkInv ==
  /\ FlowInv /\ Counted /\ UpdatesHonest /\ AcksHonest
  /\ CeilingHonest /\ AckedArrived

(* What the link's own stream may become.                                  *)
LinkBounds(t) == t.advertised <= Promise /\ t.sent <= Total /\ t.acked <= received

-----------------------------------------------------------------------------
LEMMA LinkNumbers ==
  ASSUME LinkInv
  PROVE  /\ flow[link] \in FlowState /\ StateOrdered(flow[link])
         /\ LinkBounds(flow[link])
         /\ Promise \in Nat
         /\ flow[link].advertised \in Nat /\ sent \in Nat /\ flow[link].acked \in Nat
<1>1. flow[link] \in FlowState /\ StateOrdered(flow[link])
  BY FlowLinkAssumption DEF LinkInv, FlowInv, TypeOK, WindowOrdered, StateOrdered
<1>2. flow[link].advertised \in Nat /\ sent \in Nat /\ flow[link].acked \in Nat
  BY <1>1, FlowAssumption DEF FlowState, U64, sent
<1> QED
  BY <1>1, <1>2, FlowLinkAssumption
  DEF LinkInv, LinkBounds, Counted, CeilingHonest, AckedArrived, Promise, sent

LEMMA InitLinkInv == LinkInit => LinkInv
<1> SUFFICES ASSUME LinkInit PROVE LinkInv
  OBVIOUS
<1>1. FlowInv
  BY InitFlowInv DEF LinkInit
<1>2. flow[link].advertised = 0 /\ flow[link].sent = 0 /\ flow[link].acked = 0
  BY FlowLinkAssumption DEF LinkInit, Init
<1> QED
  BY <1>1, <1>2, FlowLinkAssumption
  DEF LinkInit, LinkInv, Counted, UpdatesHonest, AcksHonest, CeilingHonest,
      AckedArrived, Promise, sent

(* A step of the controller that leaves the network alone, by a good step  *)
(* of one stream that respects the bounds if it is the link's.             *)
LEMMA TouchLinkInv ==
  ASSUME LinkInv, NEW st \in Streams, NEW t \in FlowState,
         Touch(st, t), GoodStep(flow[st], t), UNCHANGED network,
         st = link => LinkBounds(t)
  PROVE  LinkInv'
<1>1. \A u \in Streams : flow'[u] = IF u = st THEN t ELSE flow[u]
  BY DEF LinkInv, FlowInv, TypeOK, Touch
<1>2. FlowInv'
  <2>1. TypeOK'
    BY DEF LinkInv, FlowInv, TypeOK, Touch
  <2>2. WindowOrdered'
    BY <1>1 DEF LinkInv, FlowInv, WindowOrdered, GoodStep, StateOrdered
  <2>3. FlagFresh'
    BY <1>1 DEF LinkInv, FlowInv, FlagFresh, Touch, GoodStep
  <2> QED
    BY <2>1, <2>2, <2>3 DEF FlowInv
<1>3. /\ received' = received /\ consumed' = consumed
      /\ updates' = updates /\ acks' = acks /\ Promise' = Promise
  BY DEF network, Promise
<1>4. LinkBounds(flow'[link]) /\ flow'[link].sent >= sent
  BY <1>1, LinkNumbers, FlowLinkAssumption DEF GoodStep, sent
<1>5. flow'[link] \in FlowState
  BY <1>2, FlowLinkAssumption DEF FlowInv, TypeOK
<1>6. Counted'
  BY <1>3, <1>4, <1>5, LinkNumbers, FlowLinkAssumption, FlowAssumption
  DEF LinkInv, Counted, LinkBounds, sent, FlowState, U64
<1>7. UpdatesHonest' /\ AcksHonest' /\ CeilingHonest' /\ AckedArrived'
  BY <1>3, <1>4
  DEF LinkInv, UpdatesHonest, AcksHonest, CeilingHonest, AckedArrived, LinkBounds
<1> QED
  BY <1>2, <1>6, <1>7 DEF LinkInv

(* An input on another stream leaves the link's state alone.               *)
LEMMA ElsewhereLinkInv ==
  ASSUME LinkInv, NEW st \in Streams \ {link}, Elsewhere(st)
  PROVE  LinkInv'
<1>1. Next /\ UNCHANGED network /\ Input(st)
  BY DEF Elsewhere, Next
<1>2. flow[st] \in FlowState /\ StateOrdered(flow[st])
  BY DEF LinkInv, FlowInv, TypeOK, WindowOrdered, StateOrdered
<1>3. Amounts \subseteq U64
  BY FlowAssumption DEF U64
<1>4. \E t \in FlowState : Touch(st, t) /\ GoodStep(flow[st], t)
  <2>1. CASE \E a, w \in Amounts : on_window_update(st, a, w)
    <3> PICK a, w \in Amounts : on_window_update(st, a, w)
      BY <2>1
    <3>1. GoodStep(flow[st], AfterWindowUpdate(flow[st], a, w))
      BY <1>2, <1>3, WindowUpdateGood
    <3> QED
      BY <3>1 DEF on_window_update, GoodStep
  <2>2. CASE \E a \in Amounts : on_ack(st, a)
    <3> PICK a \in Amounts : on_ack(st, a)
      BY <2>2
    <3>1. GoodStep(flow[st], AfterAck(flow[st], a))
      BY <1>2, <1>3, AckGood
    <3> QED
      BY <3>1 DEF on_ack, GoodStep
  <2>3. CASE \E n \in Amounts : try_send(st, n)
    <3> PICK n \in Amounts : try_send(st, n)
      BY <2>3
    <3>1. GoodStep(flow[st], AfterSend(flow[st], n))
      BY <1>2, <1>3, SendGood
    <3> QED
      BY <3>1 DEF try_send, GoodStep
  <2> QED
    BY <1>1, <2>1, <2>2, <2>3 DEF Input
<1> QED
  BY <1>1, <1>4, TouchLinkInv

(* The sender asks for no more than it has left to send.                   *)
LEMMA SendLinkInv ==
  ASSUME LinkInv, NEW n \in 1 .. Total, Send(n)
  PROVE  LinkInv'
<1> DEFINE s == flow[link]
           t == AfterSend(s, n)
<1>1. /\ s \in FlowState /\ StateOrdered(s) /\ n \in U64 /\ n \in Nat
      /\ n <= Total - s.sent
  BY LinkNumbers, FlowLinkAssumption, FlowAssumption DEF Send, U64, sent
<1>2. GoodStep(s, t)
  BY <1>1, SendGood
<1>3. t.advertised = s.advertised /\ t.acked = s.acked /\ t.sent <= Total
  <2> DEFINE m == Admitted(s, n)
             r == [s EXCEPT !.sent = s.sent + m]
  <2>1. m \in Nat /\ s.sent + m <= s.advertised /\ m <= n
    BY <1>1, FlowAssumption
    DEF StateOrdered, Admitted, Available, Smaller, FlowState, U64
  <2>2. (s.sent + m) % (MaxU64 + 1) = s.sent + m
    BY <1>1, <2>1, FlowAssumption DEF FlowState, U64
  <2>3. r \in FlowState /\ r.sent = s.sent + m /\ r.acked = s.acked
        /\ r.advertised = s.advertised
    BY <1>1, <2>1, FlowAssumption DEF FlowState, U64
  <2>4. t = Refresh(r)
    BY <2>2 DEF AfterSend
  <2>5. s.sent \in Nat /\ Total \in Nat
    BY <1>1, FlowLinkAssumption, FlowAssumption DEF FlowState, U64
  <2> HIDE DEF m, r, s, t
  <2> QED
    BY <1>1, <2>1, <2>3, <2>4, <2>5, RefreshFields
<1>4. Touch(link, t) /\ UNCHANGED network /\ t \in FlowState
  BY <1>2 DEF Send, try_send, GoodStep
<1>5. LinkBounds(t)
  BY <1>3, LinkNumbers DEF LinkBounds
<1> HIDE DEF t
<1> QED
  BY <1>2, <1>4, <1>5, TouchLinkInv, FlowLinkAssumption

(* An update, however old, promises no more than the buffer can take.      *)
LEMMA UpdateLinkInv ==
  ASSUME LinkInv, NEW u \in updates, DeliverUpdate(u)
  PROVE  LinkInv'
<1> DEFINE s == flow[link]
           t == AfterWindowUpdate(s, u.ack_point, u.window)
<1>1. /\ s \in FlowState /\ StateOrdered(s)
      /\ u.ack_point \in U64 /\ u.window \in U64
      /\ u.ack_point + u.window <= Promise
  BY LinkNumbers DEF LinkInv, UpdatesHonest
<1>2. GoodStep(s, t)
  BY <1>1, WindowUpdateGood
<1>3. t.sent = s.sent /\ t.acked = s.acked /\ t.advertised <= Promise
  <2> DEFINE c == Larger(s.advertised, Ceiling(u.ack_point, u.window))
             r == [s EXCEPT !.advertised = c]
  <2>1. c \in U64 /\ c <= Promise
    BY <1>1, LinkNumbers, FlowAssumption
    DEF Larger, Ceiling, FlowState, U64, LinkBounds
  <2>2. r \in FlowState /\ r.advertised = c /\ r.sent = s.sent /\ r.acked = s.acked
    BY <1>1, <2>1 DEF FlowState
  <2>3. t = Refresh(r)
    BY DEF AfterWindowUpdate
  <2> HIDE DEF c, r, s, t
  <2> QED
    BY <2>1, <2>2, <2>3, RefreshFields
<1>4. Touch(link, t) /\ UNCHANGED network /\ t \in FlowState
  BY <1>2 DEF DeliverUpdate, on_window_update, GoodStep
<1>5. LinkBounds(t)
  BY <1>3, LinkNumbers DEF LinkBounds
<1> HIDE DEF t
<1> QED
  BY <1>2, <1>4, <1>5, TouchLinkInv, FlowLinkAssumption

(* An ack, however often repeated, names only bytes that arrived.          *)
LEMMA AckLinkInv ==
  ASSUME LinkInv, NEW a \in acks, DeliverAck(a)
  PROVE  LinkInv'
<1> DEFINE s == flow[link]
           t == AfterAck(s, a)
<1>1. s \in FlowState /\ StateOrdered(s) /\ a \in U64 /\ a <= received
  BY LinkNumbers DEF LinkInv, AcksHonest
<1>2. GoodStep(s, t)
  BY <1>1, AckGood
<1>3. t.sent = s.sent /\ t.advertised = s.advertised /\ t.acked <= received
  <2> DEFINE c == Smaller(Larger(s.acked, a), s.sent)
             r == [s EXCEPT !.acked = c]
  <2>1. c \in U64 /\ c <= received
    BY <1>1, LinkNumbers, FlowAssumption
    DEF Larger, Smaller, FlowState, U64, LinkBounds, LinkInv, Counted
  <2>2. r \in FlowState /\ r.acked = c /\ r.sent = s.sent
        /\ r.advertised = s.advertised
    BY <1>1, <2>1 DEF FlowState
  <2>3. t = Refresh(r)
    BY DEF AfterAck
  <2> HIDE DEF c, r, s, t
  <2> QED
    BY <2>1, <2>2, <2>3, RefreshFields
<1>4. Touch(link, t) /\ UNCHANGED network /\ t \in FlowState
  BY <1>2 DEF DeliverAck, on_ack, GoodStep
<1>5. LinkBounds(t)
  BY <1>3, LinkNumbers DEF LinkBounds
<1> HIDE DEF t
<1> QED
  BY <1>2, <1>4, <1>5, TouchLinkInv, FlowLinkAssumption

(* A byte arrives, and the promise stands.                                 *)
LEMMA ReceiveLinkInv ==
  ASSUME LinkInv, Receive
  PROVE  LinkInv'
<1>1. /\ flow' = flow /\ known' = known /\ received' = received + 1
      /\ consumed' = consumed /\ updates' = updates /\ acks' = acks
      /\ received < sent /\ sent' = sent
  BY DEF Receive, sent
<1>2. FlowInv'
  BY <1>1 DEF LinkInv, FlowInv, TypeOK, WindowOrdered, FlagFresh
<1>3. Counted'
  BY <1>1, LinkNumbers, FlowLinkAssumption DEF LinkInv, Counted
<1>4. AcksHonest'
  BY <1>1, FlowAssumption DEF LinkInv, AcksHonest, Counted, U64
<1>5. UpdatesHonest' /\ CeilingHonest' /\ AckedArrived'
  BY <1>1, LinkNumbers
  DEF LinkInv, UpdatesHonest, CeilingHonest, AckedArrived, Promise, Counted
<1> QED
  BY <1>2, <1>3, <1>4, <1>5 DEF LinkInv

(* A byte is taken out, and the promise grows.                             *)
LEMMA ConsumeLinkInv ==
  ASSUME LinkInv, Consume
  PROVE  LinkInv'
<1>1. /\ flow' = flow /\ known' = known /\ received' = received
      /\ consumed' = consumed + 1 /\ updates' = updates /\ acks' = acks
      /\ consumed < received /\ sent' = sent
  BY DEF Consume, sent
<1>2. FlowInv'
  BY <1>1 DEF LinkInv, FlowInv, TypeOK, WindowOrdered, FlagFresh
<1>3. Counted'
  BY <1>1, LinkNumbers, FlowLinkAssumption DEF LinkInv, Counted
<1>4. Promise \in Nat /\ Promise' = Promise + 1
  BY <1>1, FlowLinkAssumption DEF Promise, LinkInv, Counted
<1>5. UpdatesHonest'
  BY <1>1, <1>4, FlowAssumption DEF LinkInv, UpdatesHonest, U64
<1>6. AcksHonest' /\ CeilingHonest' /\ AckedArrived'
  BY <1>1, <1>4, LinkNumbers DEF LinkInv, AcksHonest, CeilingHonest, AckedArrived
<1> QED
  BY <1>2, <1>3, <1>5, <1>6 DEF LinkInv

(* The receiver states its room exactly, so its update is honest.          *)
LEMMA AdvertiseLinkInv ==
  ASSUME LinkInv, Advertise
  PROVE  LinkInv'
<1>1. /\ flow' = flow /\ known' = known /\ received' = received
      /\ consumed' = consumed /\ updates' = updates \cup {Room} /\ acks' = acks
      /\ sent' = sent
  BY DEF Advertise, sent
<1>2. FlowInv'
  BY <1>1 DEF LinkInv, FlowInv, TypeOK, WindowOrdered, FlagFresh
<1>3. Room.ack_point = received /\ Room.window = Capacity - (received - consumed)
  BY DEF Room
<1>4. sent <= flow[link].advertised
  BY LinkNumbers DEF StateOrdered, sent
<1>5. /\ Room.ack_point \in U64 /\ Room.window \in U64
      /\ Room.ack_point + Room.window <= Promise
  BY <1>3, <1>4, LinkNumbers, FlowLinkAssumption, FlowAssumption
  DEF LinkInv, Counted, CeilingHonest, Promise, U64
<1>6. UpdatesHonest'
  BY <1>1, <1>5 DEF LinkInv, UpdatesHonest, Promise
<1>7. Counted' /\ AcksHonest' /\ CeilingHonest' /\ AckedArrived'
  BY <1>1 DEF LinkInv, Counted, AcksHonest, CeilingHonest, AckedArrived, Promise
<1> QED
  BY <1>2, <1>6, <1>7 DEF LinkInv

LEMMA ConfirmLinkInv ==
  ASSUME LinkInv, Confirm
  PROVE  LinkInv'
<1>1. /\ flow' = flow /\ known' = known /\ received' = received
      /\ consumed' = consumed /\ updates' = updates /\ acks' = acks \cup {received}
      /\ sent' = sent
  BY DEF Confirm, sent
<1>2. FlowInv'
  BY <1>1 DEF LinkInv, FlowInv, TypeOK, WindowOrdered, FlagFresh
<1>3. received \in U64 /\ received <= received
  BY LinkNumbers, FlowLinkAssumption, FlowAssumption DEF LinkInv, Counted, U64
<1>4. AcksHonest'
  BY <1>1, <1>3 DEF LinkInv, AcksHonest
<1>5. Counted' /\ UpdatesHonest' /\ CeilingHonest' /\ AckedArrived'
  BY <1>1 DEF LinkInv, Counted, UpdatesHonest, CeilingHonest, AckedArrived, Promise
<1> QED
  BY <1>2, <1>4, <1>5 DEF LinkInv

LEMMA StepLinkInv == LinkInv /\ [LinkNext]_linkVars => LinkInv'
<1> SUFFICES ASSUME LinkInv, [LinkNext]_linkVars PROVE LinkInv'
  OBVIOUS
<1>1. CASE \E n \in 1 .. Total : Send(n)
  BY <1>1, SendLinkInv
<1>2. CASE Receive
  BY <1>2, ReceiveLinkInv
<1>3. CASE Consume
  BY <1>3, ConsumeLinkInv
<1>4. CASE Advertise
  BY <1>4, AdvertiseLinkInv
<1>5. CASE Confirm
  BY <1>5, ConfirmLinkInv
<1>6. CASE \E u \in updates : DeliverUpdate(u)
  BY <1>6, UpdateLinkInv
<1>7. CASE \E a \in acks : DeliverAck(a)
  BY <1>7, AckLinkInv
<1>8. CASE \E st \in Streams \ {link} : Elsewhere(st)
  BY <1>8, ElsewhereLinkInv
<1>9. CASE UNCHANGED linkVars
  BY <1>9
  DEF linkVars, network, LinkInv, FlowInv, TypeOK, WindowOrdered, FlagFresh, Counted,
      UpdatesHonest, AcksHonest, CeilingHonest, AckedArrived, Promise, sent
<1> QED
  BY <1>1, <1>2, <1>3, <1>4, <1>5, <1>6, <1>7, <1>8, <1>9 DEF LinkNext

LEMMA LinkInvariant == FairSpec => []LinkInv
  BY InitLinkInv, StepLinkInv, PTL DEF FairSpec

-----------------------------------------------------------------------------
(* The receiver's buffer never overflows, no byte is taken for confirmed   *)
(* that has not arrived, and no counter leaves its range, whatever the     *)
(* network does to window updates and acks (control.cpp).                  *)
THEOREM LinkSafeAlways == FairSpec => []LinkSafe
<1>1. ASSUME LinkInv PROVE LinkSafe
  <2>1. sent <= flow[link].advertised
    BY <1>1, LinkNumbers DEF StateOrdered, sent
  <2>2. NoOverrun
    BY <1>1, <2>1, LinkNumbers, FlowLinkAssumption
    DEF LinkInv, Counted, CeilingHonest, Promise, NoOverrun
  <2>3. LinkTypeOK
    BY <1>1, LinkNumbers, FlowLinkAssumption
    DEF LinkInv, FlowInv, Counted, LinkTypeOK
  <2> QED
    BY <1>1, <2>2, <2>3 DEF LinkInv, LinkSafe
<1> QED
  BY <1>1, LinkInvariant, PTL

(* On a link, too, the counters of every stream stay ordered.              *)
THEOREM LinkWindowOrdered == FairSpec => []WindowOrdered
<1>1. LinkInv => WindowOrdered
  BY DEF LinkInv, FlowInv
<1> QED
  BY <1>1, LinkInvariant, PTL
=============================================================================
