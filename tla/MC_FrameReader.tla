--------------------------- MODULE MC_FrameReader ---------------------------
(* Instances for FrameReader: payloads that look like frames, a payload    *)
(* that is truncated, window updates with none, one and two whole words,   *)
(* noise that ends in half a sync word, and a window of three bytes.       *)
EXTENDS FrameReader

Plain == Byte("x")

(* A payload that holds a whole frame with a CRC of its own.               *)
Inner == [type |-> "ACK", id |-> 9, payload |-> << >>, with_crc |-> TRUE]

MCSpecs ==
  {[type |-> "DATA", id |-> 1, payload |-> << >>, with_crc |-> FALSE],
   [type |-> "DATA", id |-> 2, payload |-> encode_frame(Inner), with_crc |-> TRUE],
   [type |-> "CONTROL", id |-> 3, payload |-> << Byte("sync1") >>, with_crc |-> FALSE],
   [type |-> "CONTROL", id |-> 6, payload |-> << Plain, Byte("sync1") >>,
    with_crc |-> TRUE],
   [type |-> "CONTROL", id |-> 7, payload |-> Sync \o << Plain >> \o Sync,
    with_crc |-> FALSE],
   [type |-> "ACK", id |-> 4, payload |-> << >>, with_crc |-> TRUE],
   [type |-> "ACK", id |-> 8, payload |-> << >>, with_crc |-> FALSE],
   [type |-> "RESET", id |-> 5, payload |-> << >>, with_crc |-> FALSE]}

MCSymbols ==
  {Plain, Byte("sync1"), Byte("sync2"), Header(Fields(Inner)), crc16(Fields(Inner))}

MCNoise ==
  {<< Plain >>, << Byte("sync1") >>, << Byte("sync2"), Byte("sync1") >>,
   << Plain, Plain, Plain >>, Sync}
=============================================================================
