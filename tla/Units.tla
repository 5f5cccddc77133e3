-------------------------------- MODULE Units --------------------------------
(***************************************************************************)
(* The parts of bytewright that share no state with another one, checked   *)
(* side by side: the delivery queue, the span list of a partial message,   *)
(* and the pure functions on bytes and text (run-length transform, byte    *)
(* and bit cursors, UTF-8, the cfgscript lexer and query paths).           *)
(*                                                                         *)
(* A behaviour picks one of them.  For a function on a text it writes the  *)
(* text symbol by symbol, so that every text of a family is a state.       *)
(***************************************************************************)
EXTENDS DeliveryQueue, RangeList, Rle, ByteIO, CfgLexer, CfgPath

CONSTANTS
  Families,     \* the texts: unit, alphabet, seeds and longest length
  Codepoints    \* the code points that are encoded and escaped

ASSUME UnitsAssumption ==
  \A f \in DOMAIN Families : Families[f].longest \in Nat

VARIABLES
  family,    \* what this behaviour exercises
  text       \* the text so far

unitvars == << family, text, vars, spanvars >>

Unit == Families[family].unit

UnitsInit ==
  /\ family \in DOMAIN Families
  /\ text \in Families[family].seeds
  /\ Init /\ InitSpans

UseQueue == Unit = "queue" /\ Next /\ UNCHANGED << family, text, spanvars >>

UseSpans == Unit = "spans" /\ NextSpans /\ UNCHANGED << family, text, vars >>

Write ==
  /\ Len(text) < Families[family].longest
  /\ \E x \in Families[family].alphabet : text' = Append(text, x)
  /\ UNCHANGED << family, vars, spanvars >>

UnitsNext == UseQueue \/ UseSpans \/ Write

UnitsSpec == UnitsInit /\ [][UnitsNext]_unitvars

-----------------------------------------------------------------------------
(***************************************************************************)
(* rle_compress and rle_decompress: see Inverse_ and Decompressed.  A text *)
(* is taken both as an input to compress and as a token stream.            *)
(***************************************************************************)
RleExact == Unit = "rle" => Inverse_(text) /\ Decompressed(text)

(***************************************************************************)
(* rle_compress keeps to the size that transform.hpp states.               *)
(***************************************************************************)
RleBound == Unit = "rle" => WithinBound(text)

(***************************************************************************)
(* What goes through the shared byte layer comes out of it: ByteWriter and *)
(* ByteReader (FieldsExact), both readers on arbitrary bytes (BytesRead),  *)
(* and UTF-8 against the Unicode table (Utf8Exact, CodepointExact).        *)
(***************************************************************************)
BytesExact ==
  /\ Unit = "fields" => FieldsExact(text)
  /\ Unit = "bytes" => BytesRead(text)
  /\ Unit = "utf8" => Utf8Exact(text)
  /\ Unit = "utf8" /\ Len(text) < 2 => \A cp \in Codepoints : CodepointExact(cp, text)

(***************************************************************************)
(* The two hand-written scanners of cfgscript read the language they are   *)
(* meant to: tokens (LexExact), strings and their escapes (StringsExact),  *)
(* and query paths (PathExact).                                            *)
(***************************************************************************)
ScannersExact ==
  /\ Unit = "lexer" => LexExact(text)
  /\ Unit = "string" => StringsExact(text)
  /\ Unit = "string" /\ text = << >> => \A cp \in Codepoints : UnicodeEscapeExact(cp)
  /\ Unit = "path" => PathExact(text)
=============================================================================
