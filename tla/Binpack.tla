------------------------------ MODULE Binpack ------------------------------
(***************************************************************************)
(* A binpack container from end to end: a caller drives Builder            *)
(* (builder.cpp), build() lays out the file, the file may be damaged or    *)
(* cut, parse() (parser.cpp) reads it, and validate() and walk()           *)
(* (validate.cpp, visitor.cpp) go over the result.                         *)
(*                                                                         *)
(* The header, a table entry and the trailer are one symbol each, so that  *)
(* kHeaderTotal, kSectionEntryBytes and kTrailerBytes are 1; an offset     *)
(* counts symbols from the start of the file.  A CRC is the sequence it    *)
(* was computed over: crc32 is taken to be free of collisions.             *)
(***************************************************************************)
EXTENDS BinRecord, FiniteSets, FiniteSetsExt

CONSTANTS
  RecordSpecs,   \* the records a caller adds
  SectionTypes,  \* "FREE", "DATA", "METADATA", ...
  Counts,        \* values for set_item_count
  Garbage,       \* what bytes that are no table entry may be read as
  Options,       \* the ValidateOptions of the callers of validate()
  MaxSections, MaxRecords,   \* bounds on what is built
  MaxDamage                  \* bound on damaged and lost symbols

RECURSIVE WellFormed(_)

(* A record as the factories of RecordSpec make them: a keyval has exactly *)
(* one child, a scalar none.                                               *)
WellFormed(r) ==
  /\ r = Rec(r.tag, r.group, r.val, r.key, r.children)
  /\ r.tag \in Scalars => r.children = << >>
  /\ r.tag = "KEYVAL" => Len(r.children) = 1
  /\ \A i \in DOMAIN r.children : WellFormed(r.children[i])

ASSUME BinpackAssumption ==
  /\ \A r \in RecordSpecs : WellFormed(r)
  /\ Options \subseteq [max_blob_bytes : Nat, max_depth : Nat, check_item_count : BOOLEAN]

VARIABLES
  sections,         \* Builder::sections_ and item_count_explicit_
  has_trailer_crc,  \* Builder::has_trailer_crc_
  file,             \* the symbols of the built file, << >> before build()
  damage,           \* ghost: number of symbols damaged or lost
  strict,           \* Options::strict of the parse
  parsed            \* what parse() returned or threw, "unparsed" before

vars == << sections, has_trailer_crc, file, damage, strict, parsed >>

-----------------------------------------------------------------------------
(* Builder::build.                                                         *)
crc32(s) == s

SectionBody(s) == IF s.type = "FREE" THEN << >> ELSE encode_all(s.records)

ItemCount(s) == IF s.explicit THEN s.item_count ELSE Len(s.records)

HeaderFields == [magic |-> "BPK1", version |-> 1, has_trailer |-> has_trailer_crc,
                 section_count |-> Len(sections)]

BodyOffset(i) ==
  1 + Len(sections) + FoldFunctionOnSet(+, 0, [j \in DOMAIN sections |->
                        Len(SectionBody(sections[j]))], 1 .. (i - 1))

Entry(i) ==
  LET s == sections[i]
      body == SectionBody(s)
  IN  [type |-> s.type, offset |-> BodyOffset(i), length |-> Len(body),
       item_count |-> ItemCount(s), crc |-> crc32(body)]

Layout ==
  << << "header", HeaderFields, crc32(HeaderFields) >> >>
    \o [i \in DOMAIN sections |-> << "entry", Entry(i) >>]
    \o FlattenSeq([i \in DOMAIN sections |-> SectionBody(sections[i])])

BuiltFile ==
  IF has_trailer_crc THEN Append(Layout, << "trailer", crc32(Layout) >>)
                     ELSE Layout

-----------------------------------------------------------------------------
(* parse().  verify_crc: a mismatch is an error when strict, a flag else.  *)
CrcError(ok) == strict /\ ~ok

(* The records of a section, or the error of reading it.                   *)
SectionOf(e) ==
  LET size == Len(file)
      end  == e.offset + e.length
      body == SubSeq(file, e.offset + 1, end)
      ok   == crc32(body) = e.crc
      recs == IF e.type = "FREE" THEN Ok(<< >>, << >>)
              ELSE parse_stream(body, 0, << >>)
  IN  IF e.offset > size \/ end > size THEN Fail("BadLength")
      ELSE IF CrcError(ok) THEN Fail("BadChecksum")
      ELSE IF recs.error # "none" THEN recs
      ELSE Ok([type |-> e.type, item_count |-> e.item_count,
               body_checksum_ok |-> ok, records |-> recs.value], << >>)

Metadata(secs) ==
  LET Pairs(recs) == LET kv == SelectSeq(recs, LAMBDA r : r.tag = "KEYVAL"
                                                         /\ r.children # << >>)
                     IN  [i \in DOMAIN kv |-> << kv[i].key, kv[i].children[1] >>]
      meta == SelectSeq(secs, LAMBDA s : s.type = "METADATA")
  IN  FlattenSeq([i \in DOMAIN meta |-> Pairs(meta[i].records)])

(* Mutation of Folded: the trailer's verdict is left out.                  *)
Folded_untrailed(header_ok, trailer_ok, secs) ==
  header_ok /\ \A i \in DOMAIN secs : secs[i].body_checksum_ok

Folded(header_ok, trailer_ok, secs) ==
  header_ok /\ trailer_ok /\ \A i \in DOMAIN secs : secs[i].body_checksum_ok

(* The error of the first section that has one, in the order of the table. *)
FirstError(results) ==
  LET bad == {i \in DOMAIN results : results[i].error # "none"}
  IN  IF bad = {} THEN "none" ELSE results[Min(bad)].error

Trailer(header, header_ok, secs) ==
  LET stored == file[Len(file)]
      ok == ~header.has_trailer
              \/ stored = << "trailer", crc32(Front(file)) >>
  IN  IF header.has_trailer /\ Len(file) < 2 THEN Fail("Truncated")
      ELSE IF CrcError(ok) THEN Fail("BadChecksum")
      ELSE Ok([sections |-> secs, metadata |-> Metadata(secs),
               checksum_ok |-> Folded(header_ok, ok, secs)], << >>)

ParsedSections(header, header_ok, entries) ==
  LET results == [i \in DOMAIN entries |-> SectionOf(entries[i])]
      error   == FirstError(results)
  IN  IF error # "none" THEN Fail(error)
      ELSE Trailer(header, header_ok,
                   [i \in DOMAIN results |-> results[i].value])

Known == {"FREE", "DATA", "METADATA", "INDEX", "STRINGS"}

(* Slots of the table that hold no entry: section_count is damaged, and    *)
(* the reader takes whatever bytes follow the table for more of it.        *)
Strays ==
  {i \in 2 .. Min({1 + file[1][2].section_count, Len(file)}) : file[i][1] # "entry"}

(* What a stray slot is read as; "beyond" if fewer bytes are left than an  *)
(* entry has.                                                              *)
Readings == IF file = << >> THEN {<< >>} ELSE [Strays -> Garbage]

EntryAt(i, stray) == IF i \in Strays THEN stray[i] ELSE file[i][2]

parse(stray) ==
  IF file = << >> THEN Fail("ShortRead")
  ELSE LET header == file[1][2]
           ok     == file[1][3] = crc32(header)
           n      == header.section_count
       IN  IF header.magic # "BPK1" THEN Fail("BadMagic")
           ELSE IF header.version # 1 THEN Fail("BadVersion")
           ELSE IF CrcError(ok) THEN Fail("BadChecksum")
           ELSE IF 1 + n > Len(file) \/ \E i \in Strays : stray[i].type = "beyond"
             THEN Fail("BadLength")
           ELSE IF \E i \in 2 .. (1 + n) : EntryAt(i, stray).type \notin Known
             THEN Fail("BadType")
           ELSE ParsedSections(header, ok, [i \in 1 .. n |-> EntryAt(i + 1, stray)])

-----------------------------------------------------------------------------
(* validate(): the kinds of the issues, in order.                          *)
Nested == {"ARRAY", "GROUP", "KEYVAL"}

RECURSIVE validate_record(_, _, _)

validate_record(r, depth, opts) ==
  LET Own == (IF r.tag = "BLOB" /\ Len(r.val) > opts.max_blob_bytes
                THEN << "OversizedBlob" >> ELSE << >>)
          \o (IF r.tag = "ARRAY" /\ r.children = << >>
                THEN << "EmptyArray" >> ELSE << >>)
          \o (IF r.tag = "GROUP" /\ r.children = << >>
                THEN << "EmptyGroup" >> ELSE << >>)
          \o (IF r.tag = "KEYVAL" /\ Len(r.children) # 1
                THEN << "MalformedKeyval" >> ELSE << >>)
          \o (IF r.tag = "KEYVAL" /\ r.key = << >>
                THEN << "EmptyMetadataKey" >> ELSE << >>)
  IN  IF depth > opts.max_depth THEN << "DepthExceeded" >>
      ELSE Own \o (IF r.tag \in Nested
                     THEN FlattenSeq([i \in DOMAIN r.children |->
                                        validate_record(r.children[i], depth + 1, opts)])
                     ELSE << >>)

SectionIssues(s, opts) ==
  (IF opts.check_item_count /\ s.type # "FREE" /\ s.item_count # Len(s.records)
     THEN << "ItemCountMismatch" >> ELSE << >>)
  \o FlattenSeq([i \in DOMAIN s.records |-> validate_record(s.records[i], 0, opts)])

(* Mutation of Duplicates: key and value are compared.                     *)
Duplicates_pairs(meta) ==
  {i \in DOMAIN meta : \E j \in 1 .. (i - 1) : meta[j] = meta[i]}

(* The entries of the metadata view whose key was seen before.             *)
Duplicates(meta) ==
  {i \in DOMAIN meta : \E j \in 1 .. (i - 1) : meta[j][1] = meta[i][1]}

validate(c, opts) ==
  FlattenSeq([i \in DOMAIN c.sections |-> SectionIssues(c.sections[i], opts)])
    \o [i \in 1 .. Cardinality(Duplicates(c.metadata)) |-> "DuplicateMetadataKey"]

(* ValidationReport::ok: the other kinds are warnings, an empty key too.   *)
ErrorKinds == {"DepthExceeded", "MalformedKeyval", "ItemCountMismatch",
               "DuplicateMetadataKey"}

report_ok(issues) == ToSet(issues) \cap ErrorKinds = {}

(* walk(): the calls a visitor gets, in order.                             *)
RECURSIVE walk_record(_, _)

walk_record(r, depth) ==
  IF r.tag \notin Nested THEN << << "scalar", r, depth >> >>
  ELSE << << "enter", r, depth >> >>
         \o FlattenSeq([i \in DOMAIN r.children |->
                          walk_record(r.children[i], depth + 1)])
         \o << << "leave", r, depth >> >>

walk(c) ==
  FlattenSeq([i \in DOMAIN c.sections |->
    << << "enter_section", c.sections[i], i >> >>
      \o FlattenSeq([j \in DOMAIN c.sections[i].records |->
                       walk_record(c.sections[i].records[j], 0)])
      \o << << "leave_section", c.sections[i], i >> >>])

(* summarize(): the lines of the dump, a section or a record and its       *)
(* indentation.                                                            *)
RECURSIVE dump_record(_, _)

dump_record(r, depth) ==
  << << r, depth >> >>
    \o FlattenSeq([i \in DOMAIN r.children |-> dump_record(r.children[i], depth + 1)])

summarize(c) ==
  FlattenSeq([i \in DOMAIN c.sections |->
    << << c.sections[i], 0 >> >>
      \o FlattenSeq([j \in DOMAIN c.sections[i].records |->
                       dump_record(c.sections[i].records[j], 1)])])

(* collect_records(c, tag, recursive) of query.cpp.                        *)
RECURSIVE collect_into(_, _)

collect_into(recs, tag) ==
  FlattenSeq([i \in DOMAIN recs |->
    (IF recs[i].tag = tag THEN << recs[i] >> ELSE << >>)
      \o collect_into(recs[i].children, tag)])

collect_records(c, tag) ==
  FlattenSeq([i \in DOMAIN c.sections |-> collect_into(c.sections[i].records, tag)])

(* The other lookups of query.cpp; a result that may be nullptr or nullopt *)
(* is a sequence of at most one element.                                   *)
AtMostOne(s) == IF s = << >> THEN << >> ELSE << Head(s) >>

find_sections(c, type) == SelectSeq(c.sections, LAMBDA s : s.type = type)

find_section(c, type) == AtMostOne(find_sections(c, type))

metadata_value(c, key) ==
  LET hits == SelectSeq(c.metadata, LAMBDA kv : kv[1] = key)
  IN  AtMostOne([i \in DOMAIN hits |-> hits[i][2]])

(* metadata_string, metadata_uint and metadata_int, told apart by the tag. *)
metadata_typed(c, key, tag) ==
  SelectSeq(metadata_value(c, key), LAMBDA v : v.tag = tag)

-----------------------------------------------------------------------------
built == file # << >> \/ damage > 0

Unparsed == Fail("unparsed")

Init ==
  /\ sections = << >> /\ has_trailer_crc = FALSE
  /\ file = << >> /\ damage = 0
  /\ strict \in BOOLEAN /\ parsed = Unparsed

add_section(type) ==
  /\ ~built /\ Len(sections) < MaxSections
  /\ sections' = Append(sections, [type |-> type, records |-> << >>,
                                   item_count |-> 0, explicit |-> FALSE])
  /\ UNCHANGED << has_trailer_crc, file, damage, strict, parsed >>

RecordCount ==
  FoldFunctionOnSet(+, 0, [i \in DOMAIN sections |-> Len(sections[i].records)],
                    DOMAIN sections)

(* Without a section, add_record and set_item_count do nothing.            *)
add_record(r) ==
  /\ ~built /\ sections # << >> /\ RecordCount < MaxRecords
  /\ sections' = [sections EXCEPT ![Len(sections)].records = Append(@, r)]
  /\ UNCHANGED << has_trailer_crc, file, damage, strict, parsed >>

set_item_count(n) ==
  /\ ~built /\ sections # << >>
  /\ sections' = [sections EXCEPT ![Len(sections)].item_count = n,
                                  ![Len(sections)].explicit = TRUE]
  /\ UNCHANGED << has_trailer_crc, file, damage, strict, parsed >>

set_has_trailer_crc ==
  /\ ~built
  /\ has_trailer_crc' = ~has_trailer_crc
  /\ UNCHANGED << sections, file, damage, strict, parsed >>

build ==
  /\ ~built
  /\ file' = BuiltFile
  /\ UNCHANGED << sections, has_trailer_crc, damage, strict, parsed >>

(* What a damaged symbol may become.                                       *)
Damages(symbol) ==
  CASE symbol[1] = "byte" -> {Byte(symbol[2] + 1)} \cup
                             {Byte(n) : n \in {symbol[2] - 1} \cap Nat}
    [] symbol[1] = "header" ->
         {<< "header", h, symbol[3] >> : h \in
            {[symbol[2] EXCEPT !.magic = "?"], [symbol[2] EXCEPT !.version = 2],
             [symbol[2] EXCEPT !.has_trailer = ~@],
             [symbol[2] EXCEPT !.section_count = @ + 1],
             [symbol[2] EXCEPT !.section_count = IF @ = 0 THEN 0 ELSE @ - 1]}}
    [] symbol[1] = "entry" ->
         {<< "entry", e >> : e \in
            {[symbol[2] EXCEPT !.offset = @ + 1], [symbol[2] EXCEPT !.offset = 0],
             [symbol[2] EXCEPT !.length = @ + 1], [symbol[2] EXCEPT !.item_count = @ + 1],
             [symbol[2] EXCEPT !.type = "FREE"], [symbol[2] EXCEPT !.type = "?"]}}
    [] symbol[1] = "trailer" -> {<< "trailer", << >> >>}

Damage(i) ==
  /\ parsed = Unparsed /\ damage < MaxDamage
  /\ \E symbol \in Damages(file[i]) : file' = [file EXCEPT ![i] = symbol]
  /\ damage' = damage + 1
  /\ UNCHANGED << sections, has_trailer_crc, strict, parsed >>

Cut ==
  /\ parsed = Unparsed /\ file # << >> /\ damage < MaxDamage
  /\ file' = Front(file)
  /\ damage' = damage + 1
  /\ UNCHANGED << sections, has_trailer_crc, strict, parsed >>

Open ==
  /\ built /\ parsed = Unparsed
  /\ \E stray \in Readings : parsed' = parse(stray)
  /\ UNCHANGED << sections, has_trailer_crc, file, damage, strict >>

Next ==
  \/ \E t \in SectionTypes : add_section(t)
  \/ \E r \in RecordSpecs : add_record(r)
  \/ \E n \in Counts : set_item_count(n)
  \/ set_has_trailer_crc \/ build
  \/ \E i \in DOMAIN file : Damage(i)
  \/ Cut \/ Open

Spec == Init /\ [][Next]_vars

-----------------------------------------------------------------------------
(* The container, once parse() has returned one.                           *)
Parsed == parsed.error = "none"

TypeOK ==
  /\ Len(sections) <= MaxSections
  /\ \A i \in DOMAIN sections : /\ sections[i].type \in SectionTypes
                                /\ sections[i].item_count \in Nat
  /\ parsed.error \in {"none", "unparsed", "BadMagic", "BadVersion", "BadLength",
                       "BadType", "ShortRead", "DepthExceeded", "Truncated"}
                      \cup (IF strict THEN {"BadChecksum"} ELSE {})

RECURSIVE Depth(_)

Depth(r) == 1 + Max({0} \cup {Depth(r.children[i]) : i \in DOMAIN r.children})

(***************************************************************************)
(* parse() is the inverse of build(): an undamaged file comes back with    *)
(* the records that were added, its checksums good and its metadata        *)
(* complete, unless a record is nested deeper than the parser allows.      *)
(***************************************************************************)
RoundTrip ==
  damage = 0 /\ parsed # Unparsed =>
    LET kept == SelectSeq(sections, LAMBDA s : s.type # "FREE")
        deep == \E i \in DOMAIN kept : \E j \in DOMAIN kept[i].records :
                  Depth(kept[i].records[j]) > max_depth + 1
        c    == parsed.value
    IN  IF deep THEN parsed.error = "DepthExceeded"
        ELSE /\ Parsed /\ c.checksum_ok
             /\ Len(c.sections) = Len(sections)
             /\ \A i \in DOMAIN sections :
                  /\ c.sections[i].type = sections[i].type
                  /\ c.sections[i].records =
                       IF sections[i].type = "FREE" THEN << >>
                       ELSE sections[i].records
             /\ \A i \in DOMAIN sections : \A j \in DOMAIN sections[i].records :
                  LET r == sections[i].records[j] IN
                  << r.key, IF r.tag = "KEYVAL" THEN r.children[1] ELSE r >>
                    \in ToSet(c.metadata)
                  <=> \E k \in DOMAIN sections : \E l \in DOMAIN sections[k].records :
                        /\ sections[k].type = "METADATA"
                        /\ r.tag = "KEYVAL" /\ sections[k].records[l] = r

(***************************************************************************)
(* With a trailer no damage goes unseen: a strict parse of a changed file  *)
(* fails, and a lenient one that succeeds reports checksum_ok = false,     *)
(* wherever the change is (the section table has no CRC of its own).       *)
(***************************************************************************)
DamageShows ==
  has_trailer_crc /\ parsed # Unparsed /\ file # BuiltFile =>
    IF strict THEN ~Parsed ELSE Parsed => ~parsed.value.checksum_ok

(***************************************************************************)
(* On everything that parse() returns, damaged files included, and for any *)
(* options, validate() finds an error exactly when an item count is off    *)
(* and counts are checked, a metadata key is repeated, or a record lies    *)
(* deeper than its own limit (ValidateOptions::max_depth, which is not the *)
(* parser's).  It reports each of these once: below the limit it does not  *)
(* look, so a subtree that goes deeper is one issue, and no warning comes  *)
(* from inside it.  The parser already guarantees the shape of keyvals.    *)
(* An empty key is a warning, as validate.cpp has it.                      *)
(***************************************************************************)
ReportExact ==
  Parsed => \A opts \in Options :
    LET c == parsed.value
        issues == validate(c, opts)
        Count(kind) == Len(SelectSeq(issues, LAMBDA x : x = kind))
        visits == SelectSeq(walk(c), LAMBDA x : x[1] \in {"scalar", "enter"})
        off == {i \in DOMAIN c.sections :
                  /\ opts.check_item_count /\ c.sections[i].type # "FREE"
                  /\ c.sections[i].item_count # Len(c.sections[i].records)}
        repeated == Len(c.metadata) - Cardinality({c.metadata[i][1] : i \in DOMAIN c.metadata})
        cut == {i \in DOMAIN visits : visits[i][3] = opts.max_depth + 1}
        within == {i \in DOMAIN visits : visits[i][3] <= opts.max_depth}
        keyless == {i \in within : visits[i][2].tag = "KEYVAL" /\ visits[i][2].key = << >>}
        hollow == {i \in within : /\ visits[i][2].tag \in {"ARRAY", "GROUP"}
                                  /\ visits[i][2].children = << >>}
    IN  /\ Count("ItemCountMismatch") = Cardinality(off)
        /\ Count("DuplicateMetadataKey") = repeated
        /\ Count("DepthExceeded") = Cardinality(cut)
        /\ Count("EmptyMetadataKey") = Cardinality(keyless)
        /\ Count("EmptyArray") + Count("EmptyGroup") = Cardinality(hollow)
        /\ opts.max_depth >= max_depth => cut = {}
        /\ report_ok(issues) <=> off = {} /\ repeated = 0 /\ cut = {}

(***************************************************************************)
(* A visitor sees what the queries find and the dump shows: for each tag,  *)
(* the records that walk() announces are those that collect_records        *)
(* returns, in the same order, each announced before its children and left *)
(* after them; and summarize() has a line for each announcement, indented  *)
(* by its depth.                                                           *)
(***************************************************************************)
WalkMatchesCollect ==
  Parsed =>
    LET calls == walk(parsed.value)
        shown == SelectSeq(calls, LAMBDA x : x[1] \notin {"leave", "leave_section"})
        seen(tag) == SelectSeq(calls, LAMBDA x : x[1] \in {"scalar", "enter"} /\ x[2].tag = tag)
    IN  /\ \A i \in DOMAIN Tags :
             LET s == seen(Tags[i]) IN
             [j \in DOMAIN s |-> s[j][2]] = collect_records(parsed.value, Tags[i])
        /\ \A i \in DOMAIN calls :
             calls[i][1] = "enter" =>
               \E j \in (i + 1) .. Len(calls) :
                 /\ calls[j] = << "leave", calls[i][2], calls[i][3] >>
                 /\ \A k \in (i + 1) .. (j - 1) : calls[k][3] > calls[i][3]
        /\ summarize(parsed.value) =
             [i \in DOMAIN shown |->
                << shown[i][2], IF shown[i][1] = "enter_section" THEN 0
                                                                ELSE shown[i][3] + 1 >>]

(***************************************************************************)
(* A metadata lookup gives the value of the first pair with its key in the *)
(* METADATA sections, in file order, and nothing only if there is no such  *)
(* pair: of several pairs that validate() would flag, the later ones never *)
(* show.  A typed lookup never goes on to a later pair of its type.        *)
(***************************************************************************)
MetadataExact ==
  Parsed =>
    LET c     == parsed.value
        metas == find_sections(c, "METADATA")
        pairs == UNION {{<< i, j >> : j \in {n \in DOMAIN metas[i].records :
                                             metas[i].records[n].tag = "KEYVAL"}} :
                        i \in DOMAIN metas}
        pair(p)  == metas[p[1]].records[p[2]]
        ahead(p, q) == p[1] < q[1] \/ (p[1] = q[1] /\ p[2] < q[2])
        hits(k)  == {p \in pairs : pair(p).key = k}
    IN  \A k \in {pair(p).key : p \in pairs} \cup {<< >>} :
          /\ metadata_value(c, k) = << >> <=> hits(k) = {}
          /\ \A p \in hits(k) : (\A q \in hits(k) : ~ahead(q, p)) =>
               \A t \in DOMAIN Tags :
                 metadata_typed(c, k, Tags[t]) =
                   SelectSeq(pair(p).children, LAMBDA v : v.tag = Tags[t])
          /\ find_section(c, "METADATA") = << >> => metadata_value(c, k) = << >>

(***************************************************************************)
(* Those who read a parsed container agree with its content and with each  *)
(* other: validate(), walk(), summarize() and the lookups.                 *)
(***************************************************************************)
ReadersAgree == ReportExact /\ WalkMatchesCollect /\ MetadataExact
=============================================================================
