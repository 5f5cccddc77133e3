------------------------------ MODULE Storage ------------------------------
(***************************************************************************)
(* The static part of a minidb file: the page array and slot directories   *)
(* (pages.cpp), the string table (strings.cpp), records (record.cpp), the  *)
(* records resident in DATA pages (seed_from_pages in journal.cpp) and     *)
(* index pages (btree.cpp).  Everything is a function of the file, and the *)
(* file may lose its tail one symbol after the other.                      *)
(*                                                                         *)
(* A symbol stands for a unit that is read in one piece: half a page       *)
(* header, a slot entry, a varint, a field tag, an index entry, a byte.    *)
(* Offsets count symbols from the end of the file header.  A symbol of     *)
(* another kind than the one expected stands for bytes that make no sense  *)
(* at that place.                                                          *)
(***************************************************************************)
EXTENDS Integers, Sequences, SequencesExt, FiniteSets

CONSTANTS
  Images,             \* page images: sequences of page_size symbols
  page_size,
  page_count,         \* of the header
  string_table_page   \* of the header

kPageHeaderSize == 2
kNoOverflow     == 65535

(* Symbols.                                                                *)
TypeSym(type, slot_count)        == << "type", type, slot_count >>
LinkSym(free_start, overflow)    == << "link", free_start, overflow >>
SlotSym(rec_offset, rec_length)  == << "slot", rec_offset, rec_length >>
Varint(n)                        == << "varint", n >>
Tag(t)                           == << "tag", t >>
EntrySym(key, locator)           == << "entry", key, locator >>
Byte(b)                          == << "byte", b >>

(* Numbers on disk are unsigned.                                           *)
Symbols ==
  ({"type"} \X STRING \X Nat) \cup ({"link", "slot"} \X Nat \X Nat) \cup
  ({"varint"} \X Nat) \cup ({"tag", "byte"} \X STRING) \cup ({"entry"} \X Seq(Nat) \X Nat)

ASSUME StorageAssumption ==
  /\ page_size \in Nat /\ page_size > kPageHeaderSize
  /\ page_count \in Nat /\ string_table_page \in Nat
  /\ Images \subseteq Seq(Symbols)
  /\ \A im \in Images : Len(im) = page_size /\ im[1][1] = "type" /\ im[2][1] = "link"

VARIABLE data   \* the file behind its header

Files == {FlattenSeq(ims) : ims \in [1 .. page_count -> Images]}

Is(sym, kind)  == sym[1] = kind
At(off)        == data[off + 1]
Bytes(off, n)  == SubSeq(data, off + 1, off + n)
Smaller(m, n)  == IF m < n THEN m ELSE n

-----------------------------------------------------------------------------
(* parse_pages.  Pages whose start lies beyond the end of the file are not *)
(* walked; the last page walked is clamped to the end.                     *)
PageOff(i) == i * page_size

Walked == {i \in 0 .. (page_count - 1) : PageOff(i) < Len(data)}

spans == [i \in Walked |->
            [file_offset |-> PageOff(i),
             length |-> Smaller(Len(data) - PageOff(i), page_size)]]

ReadSlot(sym) ==
  IF Is(sym, "slot")
    THEN [rec_offset |-> sym[2], rec_length |-> sym[3],
          in_bounds |-> sym[2] >= kPageHeaderSize /\ sym[2] + sym[3] <= page_size]
    ELSE [rec_offset |-> 0, rec_length |-> 0, in_bounds |-> FALSE]

(* A page without a whole header keeps the defaults of struct Page.        *)
PageAt(i) ==
  LET span == spans[i]
      head == At(span.file_offset)
      link == At(span.file_offset + 1)
      fit  == Smaller(head[3], span.length - kPageHeaderSize)
  IN  IF span.length < kPageHeaderSize
        THEN [type |-> "FREE", free_start |-> 0, overflow_next |-> kNoOverflow,
              truncated |-> TRUE, slots |-> << >>]
        ELSE [type |-> head[2], free_start |-> link[2], overflow_next |-> link[3],
              truncated |-> span.length < page_size \/ fit < head[3],
              slots |-> [s \in 1 .. fit |->
                           ReadSlot(At(span.file_offset + kPageHeaderSize + s - 1))]]

-----------------------------------------------------------------------------
(* seed_from_pages: the records of DATA pages, as bytes.  A key is a page  *)
(* and the place of the slot in its directory, from 1.                     *)
Slots == UNION {{<< i, s >> : s \in DOMAIN PageAt(i).slots} :
                i \in {j \in Walked : PageAt(j).type = "DATA"}}

SlotAt(k)  == PageAt(k[1]).slots[k[2]]
Start(k)   == PageOff(k[1]) + SlotAt(k).rec_offset
Clip(n)    == Smaller(n, Len(data))

(* Mutation of Resident: a record cut by the end of the file is kept.      *)
Resident_clipped ==
  {k \in Slots : LET slot == SlotAt(k) IN
     slot.in_bounds /\ slot.rec_length # 0 /\ Start(k) < Len(data)}

(* Mutation of Resident: the verdict of parse_pages is not consulted.      *)
Resident_trusting ==
  {k \in Slots : LET slot == SlotAt(k) IN
     slot.rec_length # 0 /\ Start(k) + slot.rec_length <= Len(data)}

Resident ==
  {k \in Slots : LET slot == SlotAt(k) IN
     slot.in_bounds /\ slot.rec_length # 0 /\ Start(k) + slot.rec_length <= Len(data)}

seeded == [k \in Resident |->
             SubSeq(data, Start(k) + 1, Clip(Start(k) + SlotAt(k).rec_length))]

-----------------------------------------------------------------------------
(* read_varint followed by require: a length and that many symbols.        *)
LengthPrefixed(b, p) ==
  p <= Len(b) /\ Is(b[p], "varint") /\ p + b[p][2] <= Len(b)

(* parse_string_table: the entries before the first that is cut short or   *)
(* garbled.  at[i] is the place of entry i + 1, or 0 after a failed read.  *)
string_table ==
  LET i     == string_table_page
      body  == Bytes(spans[i].file_offset + kPageHeaderSize,
                     spans[i].length - kPageHeaderSize)
      count == body[1][2]
      at[n \in 0 .. count] ==
        IF n = 0 THEN 2
        ELSE IF at[n - 1] # 0 /\ LengthPrefixed(body, at[n - 1])
               THEN at[n - 1] + 1 + body[at[n - 1]][2]
               ELSE 0
      read  == {n \in 1 .. count : at[n] # 0}
  IN  IF \/ i \notin Walked
         \/ PageAt(i).type # "STRINGS"
         \/ spans[i].length <= kPageHeaderSize
         \/ ~Is(body[1], "varint")
        THEN << >>
        ELSE [n \in read |-> SubSeq(body, at[n - 1] + 1, at[n] - 1)]

(* decode_record.  A fixed-width value is one varint, a STRING_REF becomes *)
(* << ref_resolved, str >>; a failed read and an unknown tag both throw.   *)
Scalars == {"BOOL", "INT", "UINT", "FLOAT"}

FieldAt(b, p, table) ==
  LET ok(next, value) == [next |-> next, value |-> << b[p][2], value >>]
      failed          == [next |-> 0, value |-> << >>]
      number          == p < Len(b) /\ Is(b[p + 1], "varint")
  IN  IF p > Len(b) \/ ~Is(b[p], "tag") THEN failed ELSE
      CASE b[p][2] = "NULL" -> ok(p + 1, "null")
        [] b[p][2] \in Scalars /\ number -> ok(p + 2, b[p + 1][2])
        [] b[p][2] = "STRING_REF" /\ number ->
             ok(p + 2, IF b[p + 1][2] < Len(table) THEN << TRUE, table[b[p + 1][2] + 1] >>
                                                   ELSE << FALSE, << >> >>)
        [] b[p][2] \in {"INLINE_STRING", "BLOB"} /\ LengthPrefixed(b, p + 1) ->
             ok(p + 2 + b[p + 1][2], SubSeq(b, p + 2, p + 1 + b[p + 1][2]))
        [] OTHER -> failed

decode_record(b, table) ==
  LET count == b[1][2]
      field[n \in 0 .. count] ==
        CASE n = 0 -> [next |-> 2, value |-> << >>]
          [] n # 0 /\ field[n - 1].next = 0 -> field[n - 1]
          [] OTHER -> FieldAt(b, field[n - 1].next, table)
  IN  IF ~Is(b[1], "varint") \/ field[count].next = 0
        THEN [thrown |-> TRUE, fields |-> << >>]
        ELSE [thrown |-> FALSE, fields |-> [n \in 1 .. count |-> field[n].value]]

(* What open() makes of a file without a journal.                          *)
decoded ==
  LET store == seeded
      table == string_table
  IN  [k \in DOMAIN store |-> decode_record(store[k], table)]

Throws(records) == \E k \in DOMAIN records : records[k].thrown

-----------------------------------------------------------------------------
(* Index pages.                                                            *)
(* key_compare(a, b) < 0: unsigned and lexicographic.                      *)
key_less(a, b) ==
  \E n \in 0 .. Len(a) :
    /\ n < Len(b)
    /\ \A i \in 1 .. n : a[i] = b[i]
    /\ n = Len(a) \/ a[n + 1] < b[n + 1]

(* The entries that decode cleanly, in the order written.                  *)
Written(i) ==
  LET off   == spans[i].file_offset + kPageHeaderSize
      body  == Bytes(off, spans[i].length - kPageHeaderSize)
      clean == {n \in 0 .. Smaller(body[1][2], Len(body) - 1) :
                  \A j \in 1 .. n : Is(body[j + 1], "entry")}
  IN  IF \/ spans[i].length <= kPageHeaderSize
         \/ PageAt(i).type # "INDEX"
         \/ ~Is(body[1], "varint")
        THEN << >>
        ELSE SubSeq(body, 2, 1 + CHOOSE n \in clean : \A m \in clean : m <= n)

(* std::stable_sort by key: an entry goes behind those with a smaller key  *)
(* and those with its own key written before it.                           *)
stable_sort(es) ==
  LET ahead(j, i) == key_less(es[j][2], es[i][2])
                     \/ (es[j][2] = es[i][2] /\ j < i)
      place(i)    == 1 + Cardinality({j \in DOMAIN es : ahead(j, i)})
  IN  [p \in DOMAIN es |-> es[CHOOSE i \in DOMAIN es : place(i) = p]]

decode_index_page(i) == stable_sort(Written(i))

(* The binary search for the first entry not below key; w is << lo, hi >>. *)
lookup(es, key) ==
  LET search[w \in (0 .. Len(es)) \X (0 .. Len(es))] ==
        LET mid == w[1] + (w[2] - w[1]) \div 2
        IN  IF w[1] >= w[2] THEN w[1]
            ELSE search[IF key_less(es[mid + 1][2], key) THEN << mid + 1, w[2] >>
                                                         ELSE << w[1], mid >>]
      lo == search[<< 0, Len(es) >>]
  IN  IF lo < Len(es) /\ es[lo + 1][2] = key THEN es[lo + 1] ELSE "nullptr"

(* The scan skips what lies before the window and stops behind it.         *)
range(es, lo, hi) ==
  LET past == {p \in DOMAIN es : key_less(hi, es[p][2])}
      stop == IF past = {} THEN Len(es) + 1 ELSE CHOOSE p \in past : \A q \in past : p <= q
      out[n \in 0 .. Len(es)] ==
        CASE n = 0 -> << >>
          [] n # 0 /\ key_less(es[n][2], lo) -> out[n - 1]
          [] OTHER -> Append(out[n - 1], es[n])
  IN  IF key_less(hi, lo) THEN << >> ELSE out[stop - 1]

-----------------------------------------------------------------------------
(* build_catalog: how the slots of a page are used.                        *)
PageStats(i) ==
  LET slots == PageAt(i).slots
      used  == {s \in DOMAIN slots : slots[s].in_bounds /\ slots[s].rec_length > 0}
  IN  [type |-> PageAt(i).type, total_slots |-> Len(slots),
       used_slots |-> Cardinality(used),
       dead_slots |-> Len(slots) - Cardinality(used),
       truncated |-> PageAt(i).truncated]

(* Of a page that is there in whole, the catalog counts as used exactly    *)
(* the slots that open() took a record from; of the last one, possibly     *)
(* cut, it may count more.                                                 *)
CatalogAgrees ==
  \A i \in Walked :
    LET taken == Cardinality({k \in Resident : k[1] = i})
        stats == PageStats(i)
    IN  /\ spans[i].length = page_size /\ stats.type = "DATA" => stats.used_slots = taken
        /\ taken <= stats.used_slots

-----------------------------------------------------------------------------
(* External: the file loses its last symbol.                               *)
Cut == data # << >> /\ data' = Front(data)

(***************************************************************************)
(* A record taken from a page lies behind the header of its own page, ends *)
(* within the page and within the file, whatever the slot says.            *)
(***************************************************************************)
RecordsInPlace ==
  LET store == seeded
  IN  \A k \in DOMAIN store :
        \E o \in kPageHeaderSize .. (page_size - 1) :
          LET end == PageOff(k[1]) + o + SlotAt(k).rec_length
          IN  /\ o + SlotAt(k).rec_length <= page_size
              /\ end <= Len(data)
              /\ store[k] = SubSeq(data, PageOff(k[1]) + o + 1, end)

(* Fields decoded from the same bytes, with g's string table shorter.      *)
SameButUnresolved(f, g) ==
  /\ DOMAIN f = DOMAIN g
  /\ \A n \in DOMAIN f :
       g[n] = f[n] \/ (f[n][1] = "STRING_REF" /\ g[n][1] = f[n][1] /\ g[n][2] = << FALSE, << >> >>)

(***************************************************************************)
(* "the format is meant to degrade gracefully on a truncated file"         *)
(* (pages.cpp): cutting the file's tail makes pages, strings, index        *)
(* entries and records disappear as wholes; what is left keeps its place   *)
(* and value, except that a STRING_REF may become unresolved, and a file   *)
(* that opened still opens.                                                *)
(***************************************************************************)
Degrades ==
  /\ Walked' \subseteq Walked
  /\ \A i \in Walked' : IsPrefix(Written(i)', Written(i))
  /\ IsPrefix(string_table', string_table)
  /\ \E old \in {decoded}, new \in {decoded'}, store \in {seeded}, left \in {seeded'} :
       /\ DOMAIN left \subseteq DOMAIN store
       /\ \A k \in DOMAIN left : left[k] = store[k]
       /\ ~Throws(old) =>
            /\ ~Throws(new)
            /\ \A k \in DOMAIN new : SameButUnresolved(old[k].fields, new[k].fields)

(***************************************************************************)
(* Of the entries that could be read, in whatever order they were written, *)
(* lookup finds the first with its key, and range lists all those in the   *)
(* window, by key and then in the order written: some listing g of their   *)
(* positions is ascending and complete.                                    *)
(***************************************************************************)
LookupExact(KeySet) ==
  \A i \in Walked :
    LET es   == Written(i)
        ks   == decode_index_page(i)
        hits(key) == {p \in DOMAIN es : es[p][2] = key}
        in(lo, hi) == {p \in DOMAIN es : ~key_less(es[p][2], lo) /\ ~key_less(hi, es[p][2])}
    IN  /\ \A key \in KeySet :
             \/ hits(key) = {} /\ lookup(ks, key) = "nullptr"
             \/ \E p \in hits(key) : /\ \A q \in hits(key) : p <= q
                                     /\ lookup(ks, key) = es[p]
        /\ \A lo, hi \in KeySet :
             LET r == range(ks, lo, hi)
             IN  /\ Len(r) = Cardinality(in(lo, hi))
                 /\ \E g \in [1 .. Len(r) -> in(lo, hi)] :
                      /\ \A p \in DOMAIN r : r[p] = es[g[p]]
                      /\ \A p, q \in DOMAIN r : p < q =>
                           \/ key_less(es[g[p]][2], es[g[q]][2])
                           \/ es[g[p]][2] = es[g[q]][2] /\ g[p] < g[q]
=============================================================================
