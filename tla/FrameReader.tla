----------------------------- MODULE FrameReader -----------------------------
(***************************************************************************)
(* streamcodec on the wire: FrameEncoder::encode_frame (encoder.cpp)       *)
(* writes frames to a tape, the tape picks up noise between frames, damage *)
(* to a header or a cut tail, and decode() (decoder.cpp) reads it back     *)
(* through FrameReader::next and align_to_sync (frame_reader.cpp).         *)
(*                                                                         *)
(* A symbol of the tape is a byte, or one of two symbols that stand for    *)
(* several: the 17 header bytes behind the sync word, and the CRC of a     *)
(* header.  crc16 is taken to be free of collisions.  Bytes that are read  *)
(* as a header and are none have a version other than 1.                   *)
(***************************************************************************)
EXTENDS Integers, Sequences, FiniteSets

CONSTANTS
  Symbols,       \* what payloads and noise consist of, pairs as below
  Specs,         \* the FrameSpecs a caller may encode
  Noise,         \* the runs of bytes that may appear between frames
  kResyncWindow, \* 4096 in the code
  kWord,         \* bytes of a u32, 4 in the code
  kMaxFramePayload, \* 65535 in the code, the greatest u16
  MaxFrames,     \* bound on the frames written
  MaxFaults      \* bound on noise, damage and lost symbols together

Types == {"DATA", "CONTROL", "ACK", "RESET"}

ASSUME FrameReaderAssumption ==
  /\ kResyncWindow \in Nat \ {0} /\ kWord \in Nat \ {0} /\ kMaxFramePayload \in Nat
  /\ Noise \subseteq Seq(Symbols)
  /\ Specs \subseteq [type : Types, id : Nat, payload : Seq(Symbols), with_crc : BOOLEAN]

VARIABLES
  tape,
  sent,     \* ghost: the frames written, with the place of their header
  noise,    \* ghost: the noise before the first frame and behind each
  runs,     \* ghost: number of runs of noise
  damaged,  \* ghost: number of damaged headers
  cut,      \* ghost: symbols lost at the end
  pos,      \* the ByteReader's offset, from 1
  seen,     \* the frames next() returned
  result,   \* DecodeResult: CRC tallies and CONTROL and ACK records
  status    \* "write", "read", "done", or the ErrorCode decode() threw

written == << tape, sent, noise, runs, damaged, cut >>
reader  == << pos, seen, result, status >>
vars    == << written, reader >>

-----------------------------------------------------------------------------
(* Symbols.                                                                *)
Byte(v)   == << "byte", v >>
Sync      == << Byte("sync1"), Byte("sync2") >>
Header(h) == << "header", h >>
crc16(h)  == << "crc", h >>

(* The payload that is written: as much of it as payload_len can state.    *)
Carried(spec) ==
  IF Len(spec.payload) <= kMaxFramePayload THEN spec.payload
  ELSE SubSeq(spec.payload, 1, kMaxFramePayload)

Fields(spec) ==
  [version |-> 1, type |-> spec.type, id |-> spec.id,
   has_crc |-> spec.with_crc, payload_len |-> Len(Carried(spec))]

(* HAS_CRC and the presence of the CRC field both follow with_crc.         *)
encode_frame(spec) ==
  Sync \o << Header(Fields(spec)) >>
       \o (IF spec.with_crc THEN << crc16(Fields(spec)) >> ELSE << >>)
       \o Carried(spec)

-----------------------------------------------------------------------------
(* Reading.                                                                *)
Remaining(p) == Len(tape) - p + 1

AtSync(p) == Remaining(p) >= 2 /\ SubSeq(tape, p, p + 1) = Sync

(* Mutation of ScanEnd: steps of two bytes.                                *)
ScanEnd_stride(p) ==
  LET Stop(q) == AtSync(q) \/ q >= p + kResyncWindow \/ Remaining(q) < 2
      visited == {q \in p .. (p + kResyncWindow + 1) : (q - p) % 2 = 0}
  IN  CHOOSE q \in visited :
        Stop(q) /\ \A r \in visited : r < q => ~Stop(r)

(* Where the scan stops: on a sync word, at the end of its window, or with *)
(* less than two bytes left.                                               *)
ScanEnd(p) ==
  LET Hit(q)  == AtSync(q)
      Stop(q) == Hit(q) \/ q = p + kResyncWindow \/ Remaining(q) < 2
  IN  CHOOSE q \in p .. (p + kResyncWindow) :
        Stop(q) /\ \A r \in p .. (q - 1) : ~Stop(r)

(* The offset that align_to_sync leaves, and what it throws.  The symbol   *)
(* that ends the window is not looked at any more.                         *)
Aligned(pos_, at) == [pos |-> pos_, error |-> at]

align_to_sync(p, first) ==
  LET q == ScanEnd(p) IN
  IF AtSync(p) THEN Aligned(p, "none")
  ELSE IF first THEN Aligned(p, "BadMagic")
  ELSE IF q < p + kResyncWindow /\ AtSync(q) THEN Aligned(q, "none")
  ELSE IF Remaining(q) < 2 THEN Aligned(Len(tape) + 1, "none")
  ELSE Aligned(q, "BadMagic")

(* next() from offset p: the frame, or the error it throws.                *)
Thrown(code) == [error |-> code]

Parsed(h, crc, payload, at, end) ==
  [error |-> "none", frame |-> [id |-> h.id, type |-> h.type,
     has_crc |-> h.has_crc, crc_ok |-> crc, payload |-> payload,
     header_offset |-> at], end |-> end]

(* Mutation of Body: the payload is clamped to the bytes that are there.   *)
Body_clamped(p, h) ==
  LET body == p + 3 + (IF h.has_crc THEN 1 ELSE 0)
      end  == IF body + h.payload_len - 1 > Len(tape)
                THEN Len(tape) + 1 ELSE body + h.payload_len
  IN  IF body - 1 > Len(tape) THEN Thrown("ShortRead")
      ELSE Parsed(h, h.has_crc /\ tape[p + 3] = crc16(h),
                  SubSeq(tape, body, end - 1), p, end)

(* Mutation of Body: the CRC is taken as good.                             *)
Body_unchecked(p, h) ==
  LET body == p + 3 + (IF h.has_crc THEN 1 ELSE 0) IN
  IF body - 1 > Len(tape) \/ body + h.payload_len - 1 > Len(tape)
    THEN Thrown("ShortRead")
    ELSE Parsed(h, h.has_crc, SubSeq(tape, body, body + h.payload_len - 1),
                p, body + h.payload_len)

Body(p, h) ==
  LET body == p + 3 + (IF h.has_crc THEN 1 ELSE 0) IN
  IF body - 1 > Len(tape) \/ body + h.payload_len - 1 > Len(tape)
    THEN Thrown("ShortRead")
    ELSE Parsed(h, h.has_crc /\ tape[p + 3] = crc16(h),
                SubSeq(tape, body, body + h.payload_len - 1),
                p, body + h.payload_len)

next(p, first) ==
  LET a == align_to_sync(p, first) IN
  IF a.error # "none" THEN Thrown(a.error)
  ELSE IF Remaining(a.pos) < 3 THEN Thrown("ShortRead")
  ELSE IF tape[a.pos + 2][1] # "header" THEN Thrown("BadVersion")
  ELSE LET h == tape[a.pos + 2][2] IN
       IF h.version # 1 THEN Thrown("BadVersion")
       ELSE IF h.type \notin Types THEN Thrown("BadType")
       ELSE Body(a.pos, h)

(* A u32 of zero.                                                          *)
Zero == [j \in 1 .. kWord |-> Byte("zero")]

(* parse_control: two reads, each only if a whole word remains.            *)
parse_control(f) ==
  LET n     == Len(f.payload)
      whole == n >= kWord
      rest  == IF whole THEN SubSeq(f.payload, kWord + 1, n) ELSE f.payload
  IN  [id |-> f.id,
       ref_msg_id |-> IF whole THEN SubSeq(f.payload, 1, kWord) ELSE Zero,
       window |-> IF Len(rest) >= kWord THEN SubSeq(rest, 1, kWord) ELSE Zero]

(* What decode() notes of a frame, apart from the reassembler and the      *)
(* stream table (StreamTransfer has those).                                *)
Noted(r, f) ==
  [header_crc_ok  |-> r.header_crc_ok + (IF f.has_crc /\ f.crc_ok THEN 1 ELSE 0),
   header_crc_bad |-> r.header_crc_bad + (IF f.has_crc /\ ~f.crc_ok THEN 1 ELSE 0),
   controls |-> IF f.type = "CONTROL" THEN Append(r.controls, parse_control(f))
                                      ELSE r.controls,
   acks     |-> IF f.type = "ACK" THEN Append(r.acks, f.id) ELSE r.acks]

NoResult == [header_crc_ok |-> 0, header_crc_bad |-> 0,
             controls |-> << >>, acks |-> << >>]

-----------------------------------------------------------------------------
Init ==
  /\ tape = << >> /\ sent = << >> /\ noise = << << >> >>
  /\ runs = 0 /\ damaged = 0 /\ cut = 0
  /\ pos = 1 /\ seen = << >> /\ result = NoResult
  /\ status = "write"

Write(spec) ==
  /\ status = "write" /\ cut = 0
  /\ Len(sent) < MaxFrames
  /\ tape' = tape \o encode_frame(spec)
  /\ sent' = Append(sent, [spec |-> spec, at |-> Len(tape) + 1])
  /\ noise' = Append(noise, << >>)
  /\ UNCHANGED << runs, damaged, cut, reader >>

Faults == runs + damaged + cut

Disturb(bytes) ==
  /\ status = "write" /\ cut = 0
  /\ Faults < MaxFaults
  /\ tape' = tape \o bytes
  /\ noise' = [noise EXCEPT ![Len(noise)] = @ \o bytes]
  /\ runs' = runs + 1
  /\ UNCHANGED << sent, damaged, cut, reader >>

(* Headers that one damaged field makes of h.                              *)
Damages(h) ==
  {[h EXCEPT !.version = 2], [h EXCEPT !.type = "unknown"],
   [h EXCEPT !.has_crc = ~@], [h EXCEPT !.payload_len = @ + 1],
   [h EXCEPT !.payload_len = 0], [h EXCEPT !.id = @ + 1]} \ {h}

Damage(i) ==
  LET at == sent[i].at + 2 IN
  /\ status = "write" /\ cut = 0
  /\ Faults < MaxFaults
  /\ \E h \in Damages(tape[at][2]) : tape' = [tape EXCEPT ![at] = Header(h)]
  /\ damaged' = damaged + 1
  /\ UNCHANGED << sent, noise, runs, cut, reader >>

Cut ==
  /\ status = "write" /\ tape # << >>
  /\ Faults < MaxFaults
  /\ tape' = SubSeq(tape, 1, Len(tape) - 1)
  /\ cut' = cut + 1
  /\ UNCHANGED << sent, noise, runs, damaged, reader >>

StartReading ==
  /\ status = "write"
  /\ status' = "read"
  /\ UNCHANGED << written, pos, seen, result >>

(* Mutation of ReadFrame: the error is swallowed and the round repeated.   *)
ReadFrame_retried ==
  LET n == next(pos, seen = << >>) IN
  /\ status = "read" /\ pos <= Len(tape)
  /\ IF n.error = "none"
       THEN /\ pos' = n.end
            /\ seen' = Append(seen, n.frame)
            /\ result' = Noted(result, n.frame)
       ELSE UNCHANGED << pos, seen, result >>
  /\ UNCHANGED << status, written >>

(* One round of decode()'s loop.                                           *)
ReadFrame ==
  LET n == next(pos, seen = << >>) IN
  /\ status = "read" /\ pos <= Len(tape)
  /\ IF n.error = "none"
       THEN /\ pos' = n.end
            /\ seen' = Append(seen, n.frame)
            /\ result' = Noted(result, n.frame)
            /\ UNCHANGED status
       ELSE /\ status' = n.error
            /\ result' = NoResult
            /\ UNCHANGED << pos, seen >>
  /\ UNCHANGED written

Finish ==
  /\ status = "read" /\ pos > Len(tape)
  /\ status' = "done"
  /\ UNCHANGED << written, pos, seen, result >>

Next ==
  \/ \E spec \in Specs : Write(spec)
  \/ \E bytes \in Noise : Disturb(bytes)
  \/ \E i \in DOMAIN sent : Damage(i)
  \/ Cut \/ StartReading \/ ReadFrame \/ Finish

Spec == Init /\ [][Next]_vars /\ WF_vars(ReadFrame) /\ WF_vars(Finish)

-----------------------------------------------------------------------------
TypeOK ==
  /\ pos \in 1 .. (Len(tape) + 1)
  /\ status \in {"write", "read", "done", "BadMagic", "ShortRead", "BadVersion",
                 "BadType"}
  /\ Len(seen) <= Len(tape)
  /\ result.header_crc_ok + result.header_crc_bad <= Len(seen)

(* The frame that next() should return for the i-th frame written.         *)
Written(i) ==
  LET spec == sent[i].spec IN
  [id |-> spec.id, type |-> spec.type, has_crc |-> spec.with_crc,
   crc_ok |-> spec.with_crc, payload |-> Carried(spec),
   header_offset |-> sent[i].at]

(* The frames written of a type, and the rank of one among them.           *)
Kind(type) == {i \in DOMAIN sent : sent[i].spec.type = type}

Rank(i) == Cardinality({j \in 1 .. i : sent[j].spec.type = sent[i].spec.type})

(* The window update a CONTROL frame carries: two words of its payload,    *)
(* zero for one that the payload does not hold to its last byte.           *)
Word(bytes, from) ==
  IF Len(bytes) >= from + kWord
    THEN [j \in 1 .. kWord |-> bytes[from + j]] ELSE Zero

Announced(spec) ==
  [id |-> spec.id, ref_msg_id |-> Word(Carried(spec), 0),
   window |-> Word(Carried(spec), kWord)]

NoiseAfter(k) == noise[k + 1]

SyncFree(bytes) ==
  \A i \in 1 .. (Len(bytes) - 1) : SubSeq(bytes, i, i + 1) # Sync

(* Noise in which no sync word hides, at most between two frames and       *)
(* shorter than the scan window.                                           *)
Benign ==
  /\ damaged = 0 /\ cut = 0
  /\ NoiseAfter(0) = << >> /\ NoiseAfter(Len(sent)) = << >>
  /\ \A k \in 1 .. (Len(sent) - 1) :
       SyncFree(NoiseAfter(k)) /\ Len(NoiseAfter(k)) < kResyncWindow

(***************************************************************************)
(* "a small amount of inter-frame corruption" (frame_reader.hpp) leaves    *)
(* the stream decodable: every frame written, whatever its payload looks   *)
(* like, comes back in order and with its CRC good, its payload whole or,  *)
(* where encode_frame truncates, up to kMaxFramePayload.  decode() reports *)
(* the CRC of each frame that has one, the id of each ACK and the window   *)
(* update of each CONTROL frame, in the order in which they were sent and  *)
(* nothing besides.                                                        *)
(***************************************************************************)
RecordsExact ==
  /\ result.header_crc_bad = 0
  /\ result.header_crc_ok = Cardinality({i \in DOMAIN sent : sent[i].spec.with_crc})
  /\ Len(result.acks) = Cardinality(Kind("ACK"))
  /\ \A i \in Kind("ACK") : result.acks[Rank(i)] = sent[i].spec.id
  /\ Len(result.controls) = Cardinality(Kind("CONTROL"))
  /\ \A i \in Kind("CONTROL") : result.controls[Rank(i)] = Announced(sent[i].spec)

SmallNoiseTolerated ==
  Benign =>
    /\ status \in {"write", "read", "done"}
    /\ \A i \in DOMAIN seen : i <= Len(sent) /\ seen[i] = Written(i)
    /\ status = "done" => Len(seen) = Len(sent) /\ RecordsExact

(***************************************************************************)
(* Noise without a sync word, however long, and a cut tail never produce   *)
(* a frame that was not written, nor one with part of its payload.         *)
(***************************************************************************)
NoFalseFrame ==
  damaged = 0 /\ (\A k \in 0 .. Len(sent) : SyncFree(NoiseAfter(k))) =>
    \A i \in DOMAIN seen : i <= Len(sent) /\ seen[i] = Written(i)

(***************************************************************************)
(* The lenient CRC still tells a caller that looks: when every frame was   *)
(* written with a CRC and every frame of a decoded stream carries a good   *)
(* one, then the frames are the ones written, damaged headers or not.      *)
(***************************************************************************)
DamageNoticed ==
  /\ status = "done"
  /\ \A i \in DOMAIN sent : sent[i].spec.with_crc
  /\ \A k \in 0 .. Len(sent) : SyncFree(NoiseAfter(k))
  /\ \A i \in DOMAIN seen : seen[i].has_crc /\ seen[i].crc_ok
  => \A i \in DOMAIN seen : i <= Len(sent) /\ seen[i] = Written(i)

(***************************************************************************)
(* decode() ends on every input: a frame, or an error, at every round.     *)
(***************************************************************************)
DecodeEnds == (status = "read") ~> (status \notin {"write", "read"})
=============================================================================
