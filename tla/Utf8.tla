-------------------------------- MODULE Utf8 --------------------------------
(***************************************************************************)
(* UTF-8 in bytewright (utf8.cpp): strict decoding, validation, counting   *)
(* and encoding.  Bytes and code points are the numbers they are in the    *)
(* code; a mask that keeps the low k bits is `% 2^k', a test of the top    *)
(* bits a range.                                                           *)
(***************************************************************************)
EXTENDS Integers, Sequences, SequencesExt, FiniteSetsExt

kMaxCodepoint == 1114111    \* 0x10FFFF

Surrogates == 55296 .. 57343

Continuation == 128 .. 191

NoDecode == [len |-> 0, cp |-> 0]

(* What a lead byte says of its sequence: its length, its own bits, and    *)
(* the smallest value that may take this length.                           *)
LeadOf(b0) ==
  CASE b0 \in 192 .. 223 -> [len |-> 2, bits |-> b0 % 32, min |-> 128]
    [] b0 \in 224 .. 239 -> [len |-> 3, bits |-> b0 % 16, min |-> 2048]
    [] b0 \in 240 .. 247 -> [len |-> 4, bits |-> b0 % 8,  min |-> 65536]
    [] OTHER             -> [len |-> 0, bits |-> 0, min |-> 0]

(* Mutation of decode: no test for overlong forms.                         *)
decode_overlong(data) ==
  LET lead  == LeadOf(data[1])
      tail  == SubSeq(data, 2, lead.len)
      value == FoldLeft(LAMBDA v, b : v * 64 + (b % 64), lead.bits, tail)
  IN  IF data = << >> THEN NoDecode
      ELSE IF data[1] < 128 THEN [len |-> 1, cp |-> data[1]]
      ELSE IF \/ lead.len = 0 \/ Len(data) < lead.len
              \/ \E i \in DOMAIN tail : tail[i] \notin Continuation
              \/ value \in Surrogates
              \/ value > kMaxCodepoint
        THEN NoDecode
        ELSE [len |-> lead.len, cp |-> value]

(* The first code point of data: bytes consumed, 0 if there is none.       *)
decode(data) ==
  LET lead  == LeadOf(data[1])
      tail  == SubSeq(data, 2, lead.len)
      value == FoldLeft(LAMBDA v, b : v * 64 + (b % 64), lead.bits, tail)
  IN  IF data = << >> THEN NoDecode
      ELSE IF data[1] < 128 THEN [len |-> 1, cp |-> data[1]]
      ELSE IF \/ lead.len = 0 \/ Len(data) < lead.len
              \/ \E i \in DOMAIN tail : tail[i] \notin Continuation
              \/ value < lead.min
              \/ value \in Surrogates
              \/ value > kMaxCodepoint
        THEN NoDecode
        ELSE [len |-> lead.len, cp |-> value]

(* The loop of to_codepoints; validate and count_codepoints run the same   *)
(* one and keep less of it.                                                *)
RECURSIVE to_codepoints(_)
to_codepoints(data) ==
  LET d    == decode(data)
      rest == to_codepoints(SubSeq(data, d.len + 1, Len(data)))
  IN  IF data = << >> THEN [ok |-> TRUE, out |-> << >>]
      ELSE IF d.len = 0 THEN [ok |-> FALSE, out |-> << >>]
      ELSE [ok |-> rest.ok, out |-> << d.cp >> \o rest.out]

validate(data) == to_codepoints(data).ok

count_codepoints(data) == Len(to_codepoints(data).out)

(* Nothing is appended for a surrogate or a value out of range.            *)
encode(cp) ==
  LET Cont(k) == 128 + ((cp \div 64 ^ k) % 64) IN
  CASE cp \in Surrogates \/ cp > kMaxCodepoint -> << >>
    [] cp < 128   -> << cp >>
    [] cp \in 128 .. 2047 -> << 192 + (cp \div 64), Cont(0) >>
    [] cp \in 2048 .. 65535 /\ cp \notin Surrogates ->
         << 224 + (cp \div 4096), Cont(1), Cont(0) >>
    [] cp \in 65536 .. kMaxCodepoint ->
         << 240 + (cp \div 262144), Cont(2), Cont(1), Cont(0) >>

-----------------------------------------------------------------------------
(* Table 3-7 of the Unicode standard, "Well-Formed UTF-8 Byte Sequences".  *)
WellFormedRows ==
  LET c == Continuation IN
  { << 0 .. 127 >>, << 194 .. 223, c >>,
    << {224}, 160 .. 191, c >>, << 225 .. 236, c, c >>,
    << {237}, 128 .. 159, c >>, << 238 .. 239, c, c >>,
    << {240}, 144 .. 191, c, c >>, << 241 .. 243, c, c, c >>,
    << {244}, 128 .. 143, c, c >> }

WellFormedPrefix(data, n) ==
  \E row \in WellFormedRows :
    Len(row) = n /\ n <= Len(data) /\ \A i \in 1 .. n : data[i] \in row[i]

RECURSIVE WellFormed(_)
WellFormed(data) ==
  \/ data = << >>
  \/ \E n \in 1 .. 4 : /\ WellFormedPrefix(data, n)
                       /\ WellFormed(SubSeq(data, n + 1, Len(data)))

(***************************************************************************)
(* The decoder's arithmetic accepts what the table of well-formed          *)
(* sequences lists, and nothing else: no overlong form, surrogate, value   *)
(* past the last code point or cut sequence.  What it decodes encodes back *)
(* to the same bytes, up to the first malformed one; the count is that of  *)
(* the bytes which are no continuation.                                    *)
(***************************************************************************)
Utf8Exact(data) ==
  LET r == to_codepoints(data)
      s == FlattenSeq([i \in DOMAIN r.out |-> encode(r.out[i])])
  IN  /\ \A n \in 1 .. 4 : decode(data).len = n <=> WellFormedPrefix(data, n)
      /\ validate(data) <=> WellFormed(data)
      /\ IsPrefix(s, data)
      /\ validate(data) =>
           /\ s = data
           /\ count_codepoints(data) =
                Len(SelectSeq(data, LAMBDA b : b \notin Continuation))
      /\ ~validate(data) => decode(SubSeq(data, Len(s) + 1, Len(data))).len = 0

(***************************************************************************)
(* A code point is encoded exactly when it is a scalar value, and decodes  *)
(* to itself, whatever follows.                                            *)
(***************************************************************************)
CodepointExact(cp, more) ==
  LET bytes == encode(cp) IN
  /\ bytes = << >> <=> cp \in Surrogates \/ cp > kMaxCodepoint
  /\ bytes # << >> => decode(bytes \o more) = [len |-> Len(bytes), cp |-> cp]
=============================================================================
