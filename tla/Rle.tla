-------------------------------- MODULE Rle --------------------------------
(***************************************************************************)
(* The run-length transform of streamcodec (transform.hpp, transform.cpp). *)
(*                                                                         *)
(* A token is a control byte and its data.  The control byte's lower half  *)
(* announces a literal of `control + 1' bytes, the upper half a run: with  *)
(* kRleMaxTokenLen = 128, bit 7 is `>= kRleMaxTokenLen' and the low seven  *)
(* bits are `% kRleMaxTokenLen'.                                           *)
(***************************************************************************)
EXTENDS Integers, Sequences, SequencesExt

CONSTANT kRleMaxTokenLen    \* 128 in the code

ASSUME RleAssumption == kRleMaxTokenLen \in Nat \ {0}

(* Length of the equal-byte run at i, capped.                              *)
run_length(in, i) ==
  CHOOSE n \in 1 .. kRleMaxTokenLen :
    /\ \A k \in 0 .. (n - 1) : i + k <= Len(in) /\ in[i + k] = in[i]
    /\ n = kRleMaxTokenLen \/ i + n > Len(in) \/ in[i + n] # in[i]

emit_literal(out, in, start, len) ==
  out \o << len - 1 >> \o SubSeq(in, start, start + len - 1)

(* Mutation of emit_run: the repeat count is stored as it is.              *)
emit_run_off_by_one(out, value, count) ==
  out \o << kRleMaxTokenLen + (count % kRleMaxTokenLen), value >>

emit_run(out, value, count) ==
  out \o << kRleMaxTokenLen + (count - 1), value >>

RECURSIVE flush_literal(_, _, _, _)
flush_literal(out, in, lit_start, lit_len) ==
  LET take == IF lit_len < kRleMaxTokenLen THEN lit_len ELSE kRleMaxTokenLen IN
  IF lit_len = 0 THEN out
  ELSE flush_literal(emit_literal(out, in, lit_start, take), in,
                     lit_start + take, lit_len - take)

(* The loop of rle_compress, at byte i with lit_len pending literal bytes  *)
(* from lit_start.                                                         *)
RECURSIVE Compress(_, _, _, _, _)
Compress(out, in, i, lit_start, lit_len) ==
  LET flushed == flush_literal(out, in, lit_start, lit_len)
      run     == run_length(in, i)
  IN  IF i > Len(in) THEN flushed
      ELSE IF run >= 2
        THEN Compress(emit_run(flushed, in[i], run), in, i + run, i + run, 0)
      ELSE IF lit_len = kRleMaxTokenLen
        THEN Compress(flushed, in, i + 1, i, 1)
      ELSE Compress(out, in, i + 1, lit_start, lit_len + 1)

rle_compress(in) == Compress(<< >>, in, 1, 1, 0)

Outcome(status_, out) == [status |-> status_, out |-> out]

(* The loop of rle_decompress, at byte p with `out' decoded.  A token that *)
(* runs off the input is malformed even when it would also pass the cap.   *)
RECURSIVE Decompress(_, _, _, _)
Decompress(data, p, max_output, out) ==
  LET count   == (data[p] % kRleMaxTokenLen) + 1
      is_run  == data[p] >= kRleMaxTokenLen
      needs   == IF is_run THEN 1 ELSE count
      decoded == IF is_run THEN [k \in 1 .. count |-> data[p + 1]]
                           ELSE SubSeq(data, p + 1, p + count)
  IN  IF p > Len(data) THEN Outcome("kOk", out)
      ELSE IF p + needs > Len(data) THEN Outcome("kMalformed", out)
      ELSE IF Len(out) + count > max_output THEN Outcome("kCapExceeded", out)
      ELSE Decompress(data, p + 1 + needs, max_output, out \o decoded)

rle_decompress(data, max_output) == Decompress(data, 1, max_output, << >>)

-----------------------------------------------------------------------------
Ceil(n, d) == (n + d - 1) \div d

(* The length that the tokens of a stream announce together, when they all *)
(* fit in it; -1 otherwise.                                                *)
RECURSIVE Announced(_, _)
Announced(data, p) ==
  LET count == (data[p] % kRleMaxTokenLen) + 1
      end   == p + 1 + (IF data[p] >= kRleMaxTokenLen THEN 1 ELSE count)
      rest  == Announced(data, end)
  IN  IF p = Len(data) + 1 THEN 0
      ELSE IF end > Len(data) + 1 \/ rest = -1 THEN -1
      ELSE count + rest

(***************************************************************************)
(* Compression loses nothing: under any cap that holds the input, the      *)
(* compressed bytes decompress to it, runs and literals longer than one    *)
(* token included; under a smaller cap the call says so and has decoded a  *)
(* prefix.  The result exceeds the input by a third at most.               *)
(***************************************************************************)
Inverse_(in) ==
  LET data == rle_compress(in) IN
  /\ \A cap \in Len(in) .. (Len(in) + 1) :
       rle_decompress(data, cap) = Outcome("kOk", in)
  /\ \A cap \in 0 .. (Len(in) - 1) :
       LET r == rle_decompress(data, cap) IN
       r.status = "kCapExceeded" /\ Len(r.out) <= cap /\ IsPrefix(r.out, in)
  /\ Len(data) <= Len(in) + Ceil(Len(in), 3)

(***************************************************************************)
(* Decompression of arbitrary bytes: kOk says that every token is whole    *)
(* and that they fit under the cap; what a failed call leaves in `out' is  *)
(* a prefix of what a larger cap would have given, never past the cap.     *)
(***************************************************************************)
Decompressed(data) ==
  LET len  == Announced(data, 1)
      full == rle_decompress(data, Len(data) * kRleMaxTokenLen)
  IN  /\ (full.status = "kOk") <=> len # -1
      /\ full.status = "kOk" => Len(full.out) = len
      /\ \A cap \in 0 .. Len(full.out) + 1 :
           LET r == rle_decompress(data, cap) IN
           /\ Len(r.out) <= cap /\ IsPrefix(r.out, full.out)
           /\ r.status = "kOk" <=> len # -1 /\ len <= cap
           /\ r.status = "kMalformed" => len = -1

(***************************************************************************)
(* "The result is at most input.size() + ceil(n/128) bytes"                *)
(* (transform.hpp, of rle_compress).                                       *)
(***************************************************************************)
WithinBound(in) == Len(rle_compress(in)) <= Len(in) + Ceil(Len(in), kRleMaxTokenLen)
=============================================================================
