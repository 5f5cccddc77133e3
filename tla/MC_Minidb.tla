----------------------------- MODULE MC_Minidb -----------------------------
(***************************************************************************)
(* Journals as in MC_Journal; files of three pages of six symbols, each    *)
(* page one of ten images, cut anywhere; cursors over the records of two   *)
(* pages with two slots each, moved six times.                             *)
(***************************************************************************)
EXTENDS Minidb, TLC

CONSTANTS k1, k2, v1, bad

MCKeys      == {k1, k2}
MCValues    == {v1, bad}
MCBadValues == {bad}

(* Nothing tells one key from another.                                     *)
KeySymmetry == Permutations(MCKeys)

Chained(free_start, next) ==
  << TypeSym("OVERFLOW", 0), LinkSym(free_start, next),
     Byte("a"), Byte("b"), Byte("c"), Byte("d") >>

MCImages ==
  { (* a reference to string 1 *)
    << TypeSym("DATA", 1), LinkSym(6, kNoOverflow), SlotSym(3, 3),
       Varint(1), Tag("STRING_REF"), Varint(1) >>,
    (* two slots over one record, the second leaving the page *)
    << TypeSym("DATA", 2), LinkSym(3, 1), SlotSym(4, 2), SlotSym(5, 2),
       Varint(1), Tag("NULL") >>,
    (* more slots than fit, one of them in the directory: does not decode *)
    << TypeSym("DATA", 5), LinkSym(6, kNoOverflow), SlotSym(1, 2), SlotSym(4, 2),
       SlotSym(5, 1), SlotSym(3, 0) >>,
    (* an empty string and one of a byte *)
    << TypeSym("STRINGS", 0), LinkSym(6, 2), Varint(2), Varint(0), Varint(1), Byte("a") >>,
    (* unsorted entries with a repeated key *)
    << TypeSym("INDEX", 0), LinkSym(6, kNoOverflow), Varint(3),
       EntrySym(<< 2 >>, 1), EntrySym(<< 2, 3 >>, 2), EntrySym(<< 2 >>, 3) >>,
    Chained(6, 0), Chained(9, 1), Chained(6, 2), Chained(4, 3), Chained(5, kNoOverflow) }

MCLocators == {0, 1} \X {0, 1}

MCIndexKeys == {<< >>, << 1 >>, << 2 >>, << 2, 3 >>, << 3 >>}
=============================================================================
