----------------------------- MODULE BinRecord -----------------------------
(***************************************************************************)
(* The records of a binpack section (record_parser.cpp, builder.cpp): how  *)
(* a tree of records becomes bytes, and how bytes become a tree again.     *)
(*                                                                         *)
(* Values are small: a varint below 128 is one byte, and so is the zigzag  *)
(* form of a small int.  A float is kFloat bytes.  A symbol is             *)
(* << "byte", n >>; other symbols (the fixed-size parts of the container)  *)
(* read as a zero byte.                                                    *)
(***************************************************************************)
EXTENDS Integers, Sequences, SequencesExt

CONSTANTS
  max_depth,   \* Options::max_depth
  kFloat       \* sizeof(double)

Tags == << "INT", "UINT", "FLOAT", "STRING", "BLOB", "ARRAY", "GROUP", "KEYVAL" >>

tag_byte(tag) == CHOOSE i \in DOMAIN Tags : Tags[i] = tag

Byte(n) == << "byte", n >>

Bytes(s) == [i \in DOMAIN s |-> Byte(s[i])]

ByteAt(symbol) == IF symbol[1] = "byte" THEN symbol[2] ELSE 0

Values(s) == [i \in DOMAIN s |-> ByteAt(s[i])]

zigzag(i) == IF i >= 0 THEN 2 * i ELSE -2 * i - 1

unzigzag(n) == IF n % 2 = 0 THEN n \div 2 ELSE -((n + 1) \div 2)

(* A record: val holds the payload of a scalar as the sequence of its      *)
(* numbers, key and children are those of the container tags.              *)
Rec(tag, group, val, key, children) ==
  [tag |-> tag, group |-> group, val |-> val, key |-> key,
   children |-> children]

-----------------------------------------------------------------------------
(* Encoding: tag, flags, length, payload.                                  *)
Scalars == {"INT", "UINT", "FLOAT", "STRING", "BLOB"}

RECURSIVE encode_record(_)

encode_all(recs) == FlattenSeq([i \in DOMAIN recs |-> encode_record(recs[i])])

(* Mutation of encode_record_payload: an array without its count.          *)
encode_record_payload_uncounted(r) ==
  CASE r.tag = "INT"    -> << Byte(zigzag(r.val[1])) >>
    [] r.tag \in Scalars \ {"INT"} -> Bytes(r.val)
    [] r.tag \in {"ARRAY", "GROUP"} -> encode_all(r.children)
    [] r.tag = "KEYVAL" -> << Byte(Len(r.key)) >> \o Bytes(r.key)
                             \o encode_record(r.children[1])

(* A keyval writes its first child only.                                   *)
encode_record_payload(r) ==
  CASE r.tag = "INT"    -> << Byte(zigzag(r.val[1])) >>
    [] r.tag \in Scalars \ {"INT"} -> Bytes(r.val)
    [] r.tag = "ARRAY"  -> << Byte(Len(r.children)) >> \o encode_all(r.children)
    [] r.tag = "GROUP"  -> encode_all(r.children)
    [] r.tag = "KEYVAL" -> << Byte(Len(r.key)) >> \o Bytes(r.key)
                             \o encode_record(r.children[1])

encode_record(r) ==
  LET payload == encode_record_payload(r) IN
  << Byte(tag_byte(r.tag)), Byte(IF r.group THEN 1 ELSE 0), Byte(Len(payload)) >>
    \o payload

-----------------------------------------------------------------------------
(* Decoding.  A parser takes a bounded reader, here the rest of a sequence, *)
(* and returns what it read and the rest, or the error it threw.           *)
Fail(code)     == [error |-> code]
Ok(value, rest) == [error |-> "none", value |-> value, rest |-> rest]

Drop(s, n) == SubSeq(s, n + 1, Len(s))

RECURSIVE parse_record(_, _), parse_stream(_, _, _), parse_count(_, _, _, _)

(* parse_stream: records back to back until the reader is empty.           *)
parse_stream(s, depth, recs) ==
  IF s = << >> THEN Ok(recs, << >>)
  ELSE LET p == parse_record(s, depth) IN
       IF p.error # "none" THEN p
       ELSE parse_stream(p.rest, depth, Append(recs, p.value))

(* The loop of an ARRAY: exactly n records.                                *)
parse_count(s, n, depth, recs) ==
  IF n = 0 THEN Ok(recs, s)
  ELSE LET p == parse_record(s, depth) IN
       IF p.error # "none" THEN p
       ELSE parse_count(p.rest, n - 1, depth, Append(recs, p.value))

parse_keyval(tag, group, body, depth) ==
  IF body = << >> \/ Len(body) < 1 + ByteAt(body[1]) THEN Fail("ShortRead")
  ELSE LET n == ByteAt(body[1])
           p == parse_record(Drop(body, 1 + n), depth + 1)
       IN  IF p.error # "none" THEN p
           ELSE IF p.rest # << >> THEN Fail("BadLength")
           ELSE Ok(Rec(tag, group, << >>, Values(SubSeq(body, 2, 1 + n)),
                       << p.value >>), << >>)

(* parse_payload: bytes behind a scalar are tolerated, and behind the last *)
(* element of an array too; a keyval admits none.                          *)
parse_payload(tag, group, body, depth) ==
  LET Scalar(n, val) == IF Len(body) < n THEN Fail("ShortRead")
                        ELSE Ok(Rec(tag, group, val, << >>, << >>), << >>)
      Nest(p) == IF p.error # "none" THEN p
                 ELSE Ok(Rec(tag, group, << >>, << >>, p.value), << >>)
  IN  CASE tag = "INT"   -> Scalar(1, IF body = << >> THEN << >>
                                      ELSE << unzigzag(ByteAt(body[1])) >>)
        [] tag = "UINT"  -> Scalar(1, IF body = << >> THEN << >>
                                      ELSE << ByteAt(body[1]) >>)
        [] tag = "FLOAT" -> Scalar(kFloat, Values(SubSeq(body, 1, kFloat)))
        [] tag \in {"STRING", "BLOB"} -> Scalar(0, Values(body))
        [] tag = "ARRAY" -> IF body = << >> THEN Fail("ShortRead")
                            ELSE Nest(parse_count(Tail(body), ByteAt(body[1]),
                                                  depth + 1, << >>))
        [] tag = "GROUP" -> Nest(parse_stream(body, depth + 1, << >>))
        [] tag = "KEYVAL" -> parse_keyval(tag, group, body, depth)

parse_record(s, depth) ==
  IF depth > max_depth THEN Fail("DepthExceeded")
  ELSE IF Len(s) < 2 THEN Fail("ShortRead")
  ELSE IF ByteAt(s[1]) \notin DOMAIN Tags THEN Fail("BadType")
  ELSE IF Len(s) < 3 \/ Len(s) < 3 + ByteAt(s[3]) THEN Fail("ShortRead")
  ELSE LET n == ByteAt(s[3])
           p == parse_payload(Tags[ByteAt(s[1])], ByteAt(s[2]) % 2 = 1,
                              SubSeq(s, 4, 3 + n), depth)
       IN  IF p.error # "none" THEN p ELSE Ok(p.value, Drop(s, 3 + n))
=============================================================================
