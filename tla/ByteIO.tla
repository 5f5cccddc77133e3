------------------------------- MODULE ByteIO -------------------------------
(***************************************************************************)
(* The cursors that every decoder and encoder of bytewright works with:    *)
(* ByteReader (byte_reader.cpp), ByteWriter (byte_writer.cpp) and          *)
(* BitReader (bit_reader.cpp).                                             *)
(*                                                                         *)
(* A byte is a number below 2^kByteBits.  Positions count from 0, as in    *)
(* the code; byte p of `data' is data[p + 1].  A read yields the value,    *)
(* the cursor it leaves, and the error it throws, if any.                  *)
(***************************************************************************)
EXTENDS Integers, Sequences, SequencesExt, FiniteSetsExt, Bitwise

CONSTANTS
  kByteBits,    \* 8 in the code
  kValueBits    \* 64 in the code: the width of a varint's value

ASSUME ByteIOAssumption ==
  kByteBits \in Nat \ {0, 1} /\ kValueBits \in Nat \ {0}

ByteRange  == 2 ^ kByteBits
More       == 2 ^ (kByteBits - 1)       \* a varint's continuation bit, 0x80
ValueRange == 2 ^ kValueBits

(* The longest varint, 10 bytes for 64 bits: the last one has bits to      *)
(* spare.                                                                  *)
kMaxVarint == (kValueBits + kByteBits - 2) \div (kByteBits - 1)

Value_(v, p)      == [error |-> "none", value |-> v, pos |-> p]
ReadError(code, p) == [error |-> code, value |-> 0, pos |-> p]

(* Arithmetic shift and two's complement.                                  *)
Signed(u)   == IF u >= ValueRange \div 2 THEN u - ValueRange ELSE u
Unsigned(v) == v % ValueRange
Ones        == ValueRange - 1

-----------------------------------------------------------------------------
(* ByteWriter.                                                             *)
LittleEndian(v, n) == [i \in 1 .. n |-> (v \div ByteRange ^ (i - 1)) % ByteRange]

BigEndian(v, n) == [i \in 1 .. n |-> (v \div ByteRange ^ (n - i)) % ByteRange]

RECURSIVE put_varint(_)
put_varint(v) ==
  IF v >= More THEN << (v % More) + More >> \o put_varint(v \div More)
               ELSE << v >>

put_svarint(v) ==
  put_varint(((2 * Unsigned(v)) % ValueRange) ^^ (IF v < 0 THEN Ones ELSE 0))

patch_le(buffer, p, v, n) ==
  [i \in DOMAIN buffer |->
     IF i - p \in 1 .. n THEN LittleEndian(v, n)[i - p] ELSE buffer[i]]

-----------------------------------------------------------------------------
(* ByteReader.                                                             *)
Left(data, p) == IF p <= Len(data) THEN Len(data) - p ELSE 0

seek(data, p, to) == IF to > Len(data) THEN ReadError("BadLength", p)
                                       ELSE Value_(0, to)

skip(data, p, n) == IF n > Left(data, p) THEN ReadError("ShortRead", p)
                                         ELSE Value_(0, p + n)

read_le(data, p, n) ==
  IF n > Left(data, p) THEN ReadError("ShortRead", p)
  ELSE Value_(FoldLeft(LAMBDA v, i : v * ByteRange + data[p + n + 1 - i], 0,
                       [i \in 1 .. n |-> i]), p + n)

read_be(data, p, n) ==
  IF n > Left(data, p) THEN ReadError("ShortRead", p)
  ELSE Value_(FoldLeft(LAMBDA v, i : v * ByteRange + data[p + i], 0,
                       [i \in 1 .. n |-> i]), p + n)

(* The loop of read_varint, with `k' bytes read.  The shift drops what the *)
(* value has no room for.                                                  *)
RECURSIVE Varint(_, _, _, _)
Varint(data, p, k, result) ==
  LET b     == data[p + 1]
      value == result + (((b % More) * More ^ k) % ValueRange)
  IN  IF k = kMaxVarint THEN ReadError("BadLength", p)
      ELSE IF Left(data, p) = 0 THEN ReadError("ShortRead", p)
      ELSE IF b < More THEN Value_(value, p + 1)
      ELSE Varint(data, p + 1, k + 1, value)

read_varint(data, p) == Varint(data, p, 0, 0)

read_svarint(data, p) ==
  LET r == read_varint(data, p) IN
  IF r.error # "none" THEN r
  ELSE [r EXCEPT !.value = Signed((@ \div 2) ^^ (IF @ % 2 = 1 THEN Ones ELSE 0))]

-----------------------------------------------------------------------------
(* BitReader: positions count bits, the first is the top bit of a byte.    *)
SizeBits(data) == kByteBits * Len(data)

Bit(data, b) ==
  (data[(b \div kByteBits) + 1] \div 2 ^ (kByteBits - 1 - (b % kByteBits))) % 2

(* The two loops of read_bits: whole bytes while aligned, then bits.       *)
RECURSIVE Bits(_, _, _, _)
Bits(data, b, count, value) ==
  IF count >= kByteBits /\ b % kByteBits = 0
    THEN Bits(data, b + kByteBits, count - kByteBits,
              value * ByteRange + data[(b \div kByteBits) + 1])
  ELSE IF count > 0
    THEN Bits(data, b + 1, count - 1, value * 2 + Bit(data, b))
  ELSE Value_(value, b)

read_bits(data, b, count) ==
  IF count = 0 THEN Value_(0, b)
  ELSE IF count > kValueBits THEN ReadError("BadLength", b)
  ELSE IF count > SizeBits(data) - b THEN ReadError("ShortRead", b)
  ELSE Bits(data, b, count, 0)

skip_bits(data, b, count) ==
  IF count > SizeBits(data) - b THEN ReadError("ShortRead", b)
                                ELSE Value_(0, b + count)

align(b) == IF b % kByteBits = 0 THEN b ELSE b + kByteBits - (b % kByteBits)

-----------------------------------------------------------------------------
(* A field that a caller writes: a format and a value.                     *)
Put(field) ==
  CASE field[1] = "varint"  -> put_varint(field[2])
    [] field[1] = "svarint" -> put_svarint(field[2])
    [] field[1] = "le"      -> LittleEndian(field[2], 2)
    [] field[1] = "be"      -> BigEndian(field[2], 2)

Get(data, p, format) ==
  CASE format = "varint"  -> read_varint(data, p)
    [] format = "svarint" -> read_svarint(data, p)
    [] format = "le"      -> read_le(data, p, 2)
    [] format = "be"      -> read_be(data, p, 2)

(* The fields that reading `data' from p in their formats yields, up to    *)
(* the first error.                                                        *)
RECURSIVE GetAll(_, _, _)
GetAll(data, p, fields) ==
  IF fields = << >> THEN [error |-> "none", fields |-> << >>, pos |-> p]
  ELSE LET r == Get(data, p, fields[1][1]) IN
       IF r.error # "none" THEN [error |-> r.error, fields |-> << >>, pos |-> p]
       ELSE LET rest == GetAll(data, r.pos, Tail(fields)) IN
            [rest EXCEPT !.fields = << << fields[1][1], r.value >> >> \o @]

(***************************************************************************)
(* Fields written one after another, behind a length that is reserved      *)
(* first and patched last, are read back one after another; of a buffer    *)
(* cut anywhere, the fields read are the first ones written and the rest   *)
(* is a ShortRead.                                                         *)
(***************************************************************************)
FieldsExact(fields) ==
  LET body == FlattenSeq([i \in DOMAIN fields |-> Put(fields[i])])
      data == patch_le(<< 0, 0 >> \o body, 0, Len(body), 2)
      full == GetAll(data, 2, fields)
  IN  /\ read_le(data, 0, 2).value = Len(body)
      /\ full = [error |-> "none", fields |-> fields, pos |-> Len(data)]
      /\ \A n \in 2 .. (Len(data) - 1) :
           LET r == GetAll(SubSeq(data, 1, n), 2, fields) IN
           r.error = "ShortRead" /\ IsPrefix(r.fields, fields)

(* What the bytes from p on hold, by the definition of LEB128.             *)
Ends(data, p) == {t \in 1 .. Left(data, p) : data[p + t] < More}

Payload(data, p, t) ==
  FoldLeft(LAMBDA v, i : v + (data[p + i] % More) * More ^ (i - 1),
                        0, [i \in 1 .. t |-> i])

(***************************************************************************)
(* Of arbitrary bytes: a varint ends with the first byte that says so, its *)
(* value is taken modulo 2^64, no more than ten bytes are looked at, and   *)
(* writing the value again takes no more bytes.  Reading on in bits gives  *)
(* the bytes' bits in order, however the bits are divided into fields, and *)
(* no read, skip or align moves a cursor past the end.                     *)
(***************************************************************************)
BytesRead(data) ==
  /\ \A p \in 0 .. Len(data) :
       LET r == read_varint(data, p)
           t == IF Ends(data, p) = {} THEN kMaxVarint + 1 ELSE Min(Ends(data, p))
       IN  /\ r.error = "none" <=> t <= kMaxVarint
           /\ r.error = "none" =>
                /\ r.pos = p + t
                /\ r.value = Payload(data, p, t) % ValueRange
                /\ Len(put_varint(r.value)) <= t
           /\ r.error = "ShortRead" => Left(data, p) < kMaxVarint
           /\ \A n \in 0 .. 3 : LET s == skip(data, p, n) IN
                /\ (s.error = "none") <=> seek(data, p, p + n).error = "none"
                /\ s.pos <= Len(data) /\ read_be(data, p, n).pos = s.pos
  /\ \A b \in 0 .. SizeBits(data) : \A m, n \in 0 .. kValueBits :
       LET one == read_bits(data, b, m)
           two == read_bits(data, one.pos, n)
           all == read_bits(data, b, m + n)
       IN  /\ one.error = "none" <=> b + m <= SizeBits(data)
           /\ one.error = skip_bits(data, b, m).error
           /\ one.pos = skip_bits(data, b, m).pos
           /\ align(one.pos) \in one.pos .. SizeBits(data)
           /\ m + n <= kValueBits /\ all.error = "none" =>
                all.value = one.value * 2 ^ n + two.value /\ all.pos = two.pos
           /\ m = 1 /\ one.error = "none" => one.value = Bit(data, b)
=============================================================================
