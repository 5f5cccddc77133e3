--------------------------- MODULE StreamTransfer ---------------------------
(***************************************************************************)
(* streamcodec end to end: FrameEncoder::encode_message cuts messages into *)
(* frames (encoder.cpp), a transport carries them, decode()'s loop         *)
(* (decoder.cpp) feeds each frame to the StreamTable and the reassembler,  *)
(* and the completed messages go through a DeliveryQueue.                  *)
(*                                                                         *)
(* The components are instances of their own modules; a step of the        *)
(* decoder is the conjunction of the component steps that decode() calls   *)
(* for one frame.  The reassembler is taken by its abstract specification, *)
(* ReassemblyMap.  The transport, and the caller that numbers messages and *)
(* frames, are not part of the repository.                                 *)
(***************************************************************************)
EXTENDS Integers, Sequences, SequencesExt

CONSTANTS
  Streams,       \* stream ids
  Messages,      \* number of messages each stream sends: ids 0, 1, ...
  PayloadLen,    \* payload length by message id
  max_fragment,  \* encode_message's fragment size
  MaxResets,     \* bound on the RESETs a stream sends
  MaxDrops, MaxDups, MaxSwaps,   \* bounds on what the transport does,
  MaxFaults,                     \* and on all of it together
  SeqRange, IdMod, OffMax,         \* ranges of seq, msg_id and offsets
  Window,        \* of the delivery queue
  MaxOffers,     \* bound on the messages offered to it
  Zero           \* what resize() fills a buffer with

(* The u32 ids that messages use: all but the last, after which the cursor *)
(* of the delivery queue wraps.                                            *)
MsgRange == 0 .. (IdMod - 2)

ASSUME StreamTransferAssumption ==
  /\ IdMod \in Nat \ {0}
  /\ OffMax \in Nat
  /\ Messages \in [Streams -> Nat]
  /\ \A s \in Streams : Messages[s] < IdMod
  /\ PayloadLen \in [MsgRange -> 0 .. OffMax]
  /\ max_fragment \in Nat \ {0}
  /\ SeqRange \in Nat \ {0}
  /\ MaxResets \in Nat /\ MaxDups \in Nat /\ MaxFaults \in Nat
  /\ Window \in Nat /\ MaxOffers \in Nat
  /\ Zero \notin Streams \X MsgRange \X (0 .. (MaxResets + MaxDups)) \X (0 .. OffMax)

VARIABLES
  next_msg,   \* sender: the next message id of each stream
  next_seq,   \* sender: the next frame number of each stream (not reduced)
  resets_sent,
  chan,       \* the transport: frames under way, in order
  drops, dups, swaps,
  table,      \* the decoder's StreamTable
  partials, out,                           \* the decoder's Reassembler
  order, gaps, duplicates, offers, released,  \* the DeliveryQueue
  emitted,    \* messages in DecodeResult::messages, as << stream, id >>
  first,      \* number of the first frame of each stream to arrive, or -1
  last,       \* number of the last one
  truth       \* the jumps and repeats in those numbers since their RESETs

sender    == << next_msg, next_seq, resets_sent >>
transport == << chan, drops, dups, swaps >>
queue     == << order, gaps, duplicates, offers, released >>
decoder   == << table, partials, out, queue, emitted, first, last, truth >>
vars      == << sender, transport, decoder >>

-----------------------------------------------------------------------------
(* encode_message.                                                         *)

FragCount(total) ==
  IF total = 0 THEN 1 ELSE (total + max_fragment - 1) \div max_fragment

Chunk(total, offset) ==
  IF max_fragment <= total - offset THEN max_fragment ELSE total - offset

(* Mutation of Fragment: FIN on every fragment.                            *)
Fragment_all_fin(s, m, i, seq) ==
  LET total  == PayloadLen[m]
      offset == (i - 1) * max_fragment
  IN  [type |-> "DATA", stream_id |-> s, msg_id |-> m, seq |-> seq,
       frag_offset |-> offset, len |-> Chunk(total, offset),
       frag |-> FragCount(total) > 1, fin |-> TRUE, compressed |-> FALSE]

(* The i-th frame of message m.                                            *)
Fragment(s, m, i, seq) ==
  LET total  == PayloadLen[m]
      offset == (i - 1) * max_fragment
  IN  [type |-> "DATA", stream_id |-> s, msg_id |-> m, seq |-> seq,
       frag_offset |-> offset, len |-> Chunk(total, offset),
       frag |-> FragCount(total) > 1, fin |-> i = FragCount(total),
       compressed |-> FALSE]

encode_message(s, m, first_seq) ==
  [i \in 1 .. FragCount(PayloadLen[m]) |-> Fragment(s, m, i, first_seq + i - 1)]

ResetFrame(s, seq) ==
  [type |-> "RESET", stream_id |-> s, msg_id |-> 0, seq |-> seq,
   frag_offset |-> 0, len |-> 0, frag |-> FALSE, fin |-> FALSE,
   compressed |-> FALSE]

-----------------------------------------------------------------------------
(* Every DATA frame that can be under way.                                 *)
DataFrames ==
  {f \in [type : {"DATA"}, stream_id : Streams, msg_id : MsgRange, seq : Nat,
          frag_offset : Nat, len : Nat, frag : BOOLEAN, fin : BOOLEAN,
          compressed : BOOLEAN] :
     \E i \in 1 .. FragCount(PayloadLen[f.msg_id]) :
       f = Fragment(f.stream_id, f.msg_id, i, f.seq)}

(* The components.  Their own bounds are set so as never to bind: a RESET  *)
(* arrives at most once more for every repeated frame, and each frame that *)
(* arrives is offered as at most one message.                              *)
T == INSTANCE StreamTable

R == INSTANCE ReassemblyMap WITH
       Msgs <- MsgRange, Frames <- DataFrames, MaxResets <- MaxResets + MaxDups,
       resets <- [s \in Streams |-> table[s].resets]

Q == INSTANCE DeliveryQueue WITH
       streams <- order, Ids <- MsgRange

-----------------------------------------------------------------------------
Init ==
  /\ next_msg = [s \in Streams |-> 0]
  /\ next_seq = [s \in Streams |-> 0]
  /\ resets_sent = [s \in Streams |-> 0]
  /\ chan = << >>
  /\ drops = 0 /\ dups = 0 /\ swaps = 0
  /\ T!InitTable
  /\ R!Init
  /\ Q!Init
  /\ emitted = {}
  /\ first = [s \in Streams |-> -1]
  /\ last = [s \in Streams |-> -1]
  /\ truth = [s \in Streams |-> [jumps |-> 0, repeats |-> 0, fresh |-> TRUE]]

SendMessage(s) ==
  LET frames == encode_message(s, next_msg[s], next_seq[s]) IN
  /\ next_msg[s] < Messages[s]
  /\ next_msg' = [next_msg EXCEPT ![s] = @ + 1]
  /\ next_seq' = [next_seq EXCEPT ![s] = @ + Len(frames)]
  /\ chan' = chan \o frames
  /\ UNCHANGED << resets_sent, drops, dups, swaps, decoder >>

SendReset(s) ==
  /\ resets_sent[s] < MaxResets
  /\ resets_sent' = [resets_sent EXCEPT ![s] = @ + 1]
  /\ next_seq' = [next_seq EXCEPT ![s] = @ + 1]
  /\ chan' = Append(chan, ResetFrame(s, next_seq[s]))
  /\ UNCHANGED << next_msg, drops, dups, swaps, decoder >>

Drop(i) ==
  /\ drops < MaxDrops
  /\ drops' = drops + 1
  /\ chan' = RemoveAt(chan, i)
  /\ UNCHANGED << sender, dups, swaps, decoder >>

Duplicate(i) ==
  /\ dups < MaxDups
  /\ dups' = dups + 1
  /\ chan' = InsertAt(chan, i, chan[i])
  /\ UNCHANGED << sender, drops, swaps, decoder >>

Swap(i) ==
  /\ i < Len(chan)
  /\ swaps < MaxSwaps
  /\ swaps' = swaps + 1
  /\ chan' = [chan EXCEPT ![i] = chan[i + 1], ![i + 1] = chan[i]]
  /\ UNCHANGED << sender, drops, dups, decoder >>

(* What really happened, by the numbers before they are cut to 16 bits.    *)
Witness(t, previous, f) ==
  [jumps   |-> t.jumps + (IF ~t.fresh /\ f.seq \notin {previous, previous + 1}
                            THEN 1 ELSE 0),
   repeats |-> t.repeats + (IF ~t.fresh /\ f.seq = previous THEN 1 ELSE 0),
   fresh   |-> f.type = "RESET"]

(* One round of decode()'s loop.                                           *)
Arrive(f) ==
  /\ chan # << >>
  /\ f = Head(chan)
  /\ chan' = Tail(chan)
  /\ first' = [first EXCEPT ![f.stream_id] = IF @ = -1 THEN f.seq ELSE @]
  /\ last' = [last EXCEPT ![f.stream_id] = f.seq]
  /\ truth' = [truth EXCEPT ![f.stream_id] = Witness(@, last[f.stream_id], f)]
  /\ UNCHANGED << sender, drops, dups, swaps >>

DecodeReset ==
  LET f == Head(chan) IN
  /\ Arrive(f)
  /\ f.type = "RESET"
  /\ T!observe_reset(f.stream_id, f.seq % SeqRange)
  /\ R!Reset(f.stream_id)
  /\ UNCHANGED << queue, emitted >>

DecodeFragment ==
  LET f == Head(chan) IN
  /\ Arrive(f)
  /\ f.type = "DATA"
  /\ T!observe(f.stream_id, f.seq % SeqRange)
  /\ R!Fill(f)
  /\ UNCHANGED << queue, emitted >>

(* The frame completes its message, which is offered for delivery.         *)
DecodeMessage ==
  LET f == Head(chan) IN
  /\ Arrive(f)
  /\ f.type = "DATA"
  /\ T!observe(f.stream_id, f.seq % SeqRange)
  /\ R!Emit(f)
  /\ emitted' = emitted \cup {<< f.stream_id, f.msg_id >>}
  /\ Q!offer(f.stream_id, f.msg_id)

Decode == DecodeReset \/ DecodeFragment \/ DecodeMessage

Send == \E s \in Streams : SendMessage(s)

Fault ==
  /\ drops + dups + swaps < MaxFaults
  /\ \E i \in DOMAIN chan : Drop(i) \/ Duplicate(i) \/ Swap(i)

Next ==
  \/ Send
  \/ \E s \in Streams : SendReset(s)
  \/ Fault
  \/ Decode

Spec == Init /\ [][Next]_vars

(* decode() runs until the input is exhausted; the caller encodes all its  *)
(* messages.  The transport's faults need not happen.                      *)
FairSpec == Spec /\ WF_vars(Send) /\ WF_vars(Decode)

-----------------------------------------------------------------------------
TypeOK ==
  /\ table \in [Streams -> T!Rolling]
  /\ order \in [Streams -> Q!StreamOrder]
  /\ emitted \subseteq Streams \X MsgRange
  /\ next_msg \in [Streams -> 0 .. IdMod]

(***************************************************************************)
(* Whatever the transport loses, repeats or reorders, and wherever RESETs  *)
(* fall, an emitted message is the payload that was sent: its full length, *)
(* each byte its own, none from before a RESET.                            *)
(***************************************************************************)
PayloadIntact ==
  /\ R!EmittedWhole
  /\ out # R!NoMessage => Len(out.data) = PayloadLen[out.msg_id]

(***************************************************************************)
(* The application sees each message of a stream at most once, although    *)
(* the decoder emits one again whenever all its fragments are repeated.    *)
(***************************************************************************)
DeliveredOnce == Q!AtMostOnce

(***************************************************************************)
(* The statistics are the truth, across wraps of the 16-bit counter and    *)
(* across RESETs: gaps counts the jumps in the frame numbers, duplicates   *)
(* the repeats of the last one.                                            *)
(***************************************************************************)
StatsHonest ==
  \A s \in Streams :
    /\ table[s].gaps = truth[s].jumps
    /\ table[s].duplicates = truth[s].repeats

(* The number of a message's first frame, while its stream sends no RESET. *)
FirstSeqOf[m \in 0 .. (IdMod - 1)] ==
  IF m = 0 THEN 0 ELSE FirstSeqOf[m - 1] + FragCount(PayloadLen[m - 1])

(***************************************************************************)
(* The frame statistics do not hide a loss: while a stream shows no gap,   *)
(* no duplicate and no RESET, every message whose frames lie between the   *)
(* first and the last frame that arrived was emitted.                      *)
(***************************************************************************)
NoSilentLoss ==
  \A s \in Streams : \A m \in 0 .. (next_msg[s] - 1) :
    /\ table[s].gaps = 0
    /\ table[s].duplicates = 0
    /\ resets_sent[s] = 0
    /\ first[s] \in 0 .. FirstSeqOf[m]
    /\ FirstSeqOf[m] + FragCount(PayloadLen[m]) - 1 <= last[s]
    => << s, m >> \in emitted

(***************************************************************************)
(* While the transport loses nothing and no stream is reset, every message *)
(* sent is emitted in the end, in spite of repeated and reordered frames.  *)
(***************************************************************************)
Undisturbed == drops = 0 /\ \A s \in Streams : resets_sent[s] = 0

AllEmitted ==
  []Undisturbed =>
    <>(\A s \in Streams : \A m \in 0 .. (Messages[s] - 1) : << s, m >> \in emitted)

(***************************************************************************)
(* While it keeps their order too, every message reaches the application:  *)
(* none stays in the queue behind a gap that will not be filled.           *)
(***************************************************************************)
AllDelivered ==
  [](Undisturbed /\ swaps = 0) =>
    <>(\A s \in Streams : \A m \in 0 .. (Messages[s] - 1) : released[s][m] = 1)

(***************************************************************************)
(* Each message comes to the application with its own payload, and once.   *)
(***************************************************************************)
DeliveryIntact == PayloadIntact /\ DeliveredOnce

(***************************************************************************)
(* What the transport does not lose is emitted in the end and, in order,   *)
(* delivered.                                                              *)
(***************************************************************************)
AllArrive == AllEmitted /\ AllDelivered
=============================================================================
