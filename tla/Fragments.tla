----------------------------- MODULE Fragments -----------------------------
(***************************************************************************)
(* One partially received message and what a DATA frame does to it         *)
(* (PartialMessage, accept_data and is_complete of reassembler.hpp,        *)
(* reassembler.cpp).                                                       *)
(*                                                                         *)
(* Data abstraction.  A payload byte is its provenance: stream, message,   *)
(* number of RESETs the stream had seen when it arrived, offset in the     *)
(* message.  The span list of a partial is the set of offsets it covers    *)
(* (Coverage; RangeList models the list).                                  *)
(***************************************************************************)
EXTENDS Coverage, Sequences

CONSTANTS
  Streams,     \* stream ids
  Msgs,        \* message ids
  Frames,      \* the DATA frames that may arrive
  MaxResets,   \* bound on the RESETs of one stream
  Zero         \* what resize() fills a buffer with

Keys == Streams \X Msgs

(* The fields of a DATA frame that accept_data reads.                      *)
DataFrame(f) ==
  /\ f.stream_id \in Streams /\ f.msg_id \in Msgs
  /\ f.frag_offset \in Offsets /\ f.len \in Nat
  /\ f.frag \in BOOLEAN /\ f.fin \in BOOLEAN /\ f.compressed \in BOOLEAN

Bytes == Streams \X Msgs \X (0 .. MaxResets) \X Offsets

ASSUME FragmentsAssumption ==
  /\ MaxResets \in Nat
  /\ Zero \notin Bytes
  /\ \A f \in Frames : DataFrame(f) /\ (~f.frag => f.frag_offset = 0)

(* The byte at offset j of a buffer is its element j + 1.                  *)
Buffers == Seq(Bytes \cup {Zero})

PartialMessage ==
  [stream_id : Streams, msg_id : Msgs, buffer : Buffers,
   ranges : SUBSET Offsets, high_water : Offsets, total_len : Offsets,
   have_fin : BOOLEAN, compressed : BOOLEAN]

Message ==
  [stream_id : Streams, msg_id : Msgs, compressed : BOOLEAN, data : Buffers]

NoMessage == [stream_id |-> Zero]

FrameKey(f) == << f.stream_id, f.msg_id >>

(* The partial that slot_for creates for a key.                            *)
Fresh(key) ==
  [stream_id |-> key[1], msg_id |-> key[2], buffer |-> << >>,
   ranges |-> {}, high_water |-> 0, total_len |-> 0,
   have_fin |-> FALSE, compressed |-> FALSE]

Begin(f) == IF f.frag THEN f.frag_offset ELSE 0

(* The exclusive end, widened to 64 bits and clamped to a u32.             *)
End(f) == IF Begin(f) + f.len > OffMax THEN OffMax ELSE Begin(f) + f.len

Bigger(a, b) == IF a >= b THEN a ELSE b

(* The k-th payload byte of a frame, sent in the epoch e of its stream.    *)
PayloadByte(f, e, k) == << f.stream_id, f.msg_id, e, f.frag_offset + k >>

(* resize() to cover End(f), then copy_n() what fits.                      *)
Placed(buffer, f, e) ==
  [i \in 1 .. Bigger(Len(buffer), End(f)) |->
     IF Begin(f) < i /\ i <= Begin(f) + f.len
       THEN PayloadByte(f, e, i - 1 - Begin(f))
       ELSE IF i <= Len(buffer) THEN buffer[i] ELSE Zero]

(* accept_data up to the completion test.                                  *)
WithFragment(p, f, e) ==
  LET high == Bigger(p.high_water, End(f)) IN
  [p EXCEPT !.compressed = @ \/ f.compressed,
            !.buffer     = Placed(@, f, e),
            !.ranges     = add_range(@, Begin(f), End(f)),
            !.high_water = high,
            !.have_fin   = @ \/ f.fin,
            !.total_len  = IF f.fin THEN high ELSE @]

(* Mutations of is_complete: only the end of the spans is looked at; the   *)
(* single span has to reach beyond total_len.                              *)
is_complete_holes(p) ==
  /\ p.have_fin
  /\ p.total_len = 0 \/ p.total_len - 1 \in p.ranges

is_complete_strict(p) ==
  /\ p.have_fin
  /\ p.total_len = 0 \/ OneSpanReaches(p.ranges, p.total_len + 1)

is_complete(p) ==
  /\ p.have_fin
  /\ p.total_len = 0 \/ OneSpanReaches(p.ranges, p.total_len)

Emitted(p, f) ==
  [stream_id |-> f.stream_id, msg_id |-> f.msg_id,
   compressed |-> p.compressed,
   data |-> [i \in 1 .. p.total_len |-> p.buffer[i]]]

-----------------------------------------------------------------------------
(***************************************************************************)
(* The coverage a partial claims is exactly the bytes it holds: each       *)
(* covered cell has the byte of its own message, sent after the stream's   *)
(* last RESET (epoch e), at its own offset; every other cell is still      *)
(* fill, and the buffer ends at the high-water mark.                       *)
(***************************************************************************)
HoldsWhatItClaims(p, e) ==
  /\ Len(p.buffer) = p.high_water
  /\ p.ranges \subseteq 0 .. (p.high_water - 1)
  /\ p.total_len <= p.high_water
  /\ \A j \in 0 .. (p.high_water - 1) :
       p.buffer[j + 1] = IF j \in p.ranges
                           THEN << p.stream_id, p.msg_id, e, j >>
                           ELSE Zero
=============================================================================
