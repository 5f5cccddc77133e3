----------------------------- MODULE MC_Binpack -----------------------------
(* Records for Binpack: scalars of each kind, empty and nested containers, *)
(* keyvals with equal, different and empty keys, and one record that is    *)
(* nested too deep.  Stray table slots read as an unknown type, as entries *)
(* of known types with a matching and a wrong CRC, or end beyond the file. *)
(* validate() is called with limits below and at the parser's.             *)
EXTENDS Binpack

Integer(n) == Rec("INT", FALSE, << n >>, << >>, << >>)
Blob(v)   == Rec("BLOB", FALSE, v, << >>, << >>)
Array(c)  == Rec("ARRAY", FALSE, << >>, << >>, c)
Group(c)  == Rec("GROUP", TRUE, << >>, << >>, c)
Keyval(k, v) == Rec("KEYVAL", FALSE, << >>, k, << v >>)

Deep == Group(<< Array(<< Group(<< >>) >>) >>)

MCRecords ==
  {Integer(-1), Rec("FLOAT", FALSE, << 2, 3 >>, << >>, << >>), Blob(<< 1, 2 >>),
   Array(<< Integer(1), Group(<< >>) >>), Keyval(<< 1 >>, Integer(0)),
   Keyval(<< >>, Blob(<< >>)), Deep, Group(<< Deep >>)}

MCGarbage ==
  {[type |-> "?"], [type |-> "beyond"],
   [type |-> "FREE", offset |-> 0, length |-> 0, item_count |-> 3, crc |-> << >>],
   [type |-> "METADATA", offset |-> 3, length |-> 2, item_count |-> 1, crc |-> << >>]}

MCOptions ==
  [max_blob_bytes : {1}, max_depth : {0, 2}, check_item_count : BOOLEAN]
=============================================================================
