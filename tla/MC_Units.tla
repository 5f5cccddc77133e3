------------------------------ MODULE MC_Units ------------------------------
(***************************************************************************)
(* The queue: two streams, ids 0 .. 4 below the u32 limit of 6, a window   *)
(* of two: an id can be late, duplicated, buffered, skipped by a full      *)
(* window and flushed, with two gaps in one stream.                        *)
(*                                                                         *)
(* The texts: bytes of 3 bits and values of 5, so that a varint has 3      *)
(* bytes and the last one a bit to spare, as with 10 bytes for 64 bits;    *)
(* RLE tokens of up to 4 bytes, texts up to 11 so that runs and literals   *)
(* fill two tokens and start a third; integers of 6 bits, so that two      *)
(* digits overflow; UTF-8 with the bytes at which the table's ranges end.  *)
(***************************************************************************)
EXTENDS Units

CONSTANTS s1, s2

MCStreams == {s1, s2}
MCIds     == 0 .. 4

Family(unit, alphabet, seeds, longest) ==
  [unit |-> unit, alphabet |-> alphabet, seeds |-> seeds, longest |-> longest]

Fields ==
  {"varint"} \X {0, 3, 4, 16, 31} \cup {"svarint"} \X {-16, -1, 0, 8, 15}
    \cup {"le", "be"} \X {1, 8, 63}

(* In the seeds: "\u, "\u{, "\u{10FFFF and "\u{110000; true; a ! <.        *)
UnicodeSeeds ==
  LET u == << 34, 92, 117 >> IN
  { u, u \o << 123 >>, u \o << 123, 49, 48, 70, 70, 70, 70 >>,
    u \o << 123, 49, 49, 48, 48, 48, 48 >> }

WordSeeds == { << 116, 114, 117, 101 >>, << 97 >>, << 33 >>, << 60 >> }

MCFamilies ==
  [queue   |-> Family("queue", {}, {<< >>}, 0),
   spans   |-> Family("spans", {}, {<< >>}, 0),
   rle     |-> Family("rle", {0, 3, 5}, {<< >>}, 7),
   rleLong |-> Family("rle", {0, 3},
                 { << 0, 0, 0, 0, 0, 0, 0 >>, << 3, 0, 3, 0, 3, 0, 3 >> }, 11),
   bytes   |-> Family("bytes", {0, 1, 3, 4, 6, 7}, {<< >>}, 4),
   fields  |-> Family("fields", Fields, {<< >>}, 3),
   utf8    |-> Family("utf8", {65, 128, 143, 144, 159, 160, 191, 193, 194, 224,
                               237, 239, 240, 244, 245}, {<< >>}, 3),
   utf8of4 |-> Family("utf8", {65, 128, 143, 144, 191, 194},
                 { << 240 >>, << 243 >>, << 244 >>, << 245 >> }, 5),
   comment |-> Family("lexer", {47, 42, 35, 10, 97, 61}, {<< >>}, 6),
   number  |-> Family("lexer", {48, 49, 46, 101, 120, 43}, {<< >>}, 6),
   float   |-> Family("lexer", {49, 46, 101, 43}, {<< 49, 46, 49 >>}, 7),
   quoted  |-> Family("lexer", {34, 92, 120, 49, 10, 97}, {<< 34 >>}, 6),
   unicode |-> Family("lexer", {34, 92, 125, 68, 56, 48}, UnicodeSeeds, 7),
   astral  |-> Family("lexer", {34, 125}, UnicodeSeeds, 12),
   word    |-> Family("lexer", {32, 95, 49, 64, 61, 60}, WordSeeds, 5),
   string  |-> Family("string", {0, 9, 10, 13, 31, 32, 34, 48, 92, 120, 126, 127,
                                 128, 255}, {<< >>}, 3),
   path    |-> Family("path", {46, 91, 93, 49, 57, 97}, {<< >>}, 5)]

MCCodepoints ==
  {0, 127, 128, 2047, 2048, 55295, 55296, 57343, 57344, 65535, 65536, 1114111,
   1114112, 16777215}
=============================================================================
