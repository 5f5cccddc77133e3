# A TLA+ development of bytewright

bytewright is a single-threaded C++17 library that decodes four binary or text
formats.  It has no concurrency of its own; what makes it hard are inputs that
arrive lost, duplicated, reordered, truncated or corrupt, state that two data
structures keep in step, counters at the limit of their width, and long
sequences of legal calls.

## 1. Inventory

| Component | State | Operations | Interacts with | Correct when |
|---|---|---|---|---|
| streamcodec `FlowController` (`control.cpp`) | per stream: advertised, sent, acked, cached `blocked` | on_window_update, on_ack, try_send, blocked, state | the application at both ends of a stream | acked <= sent <= advertised under any stale, repeated or overflowing input; no overrun of the receiver; the window reopens |
| streamcodec `Reassembler` (`reassembler.cpp`) | `store_` (vector of partial messages), `index_` (key -> slot) | accept_data, reset_stream (slot_for, remove_slot, add_range, is_complete) | called by `decode()` | an emitted message consists of its own bytes; `index_` and `store_` agree |
| streamcodec `StreamTable` (`stream_state.cpp`) | per stream: frames, gaps, duplicates, resets, last_seq, seeded | observe, note_reset, snapshot | called by `decode()` for each frame | the statistics tell the truth across seq wraps and RESETs |
| streamcodec `DeliveryQueue` (`delivery.cpp`) | per stream: cursor, buffered messages; gaps, duplicates | offer, flush_stream | fed by the application with `decode()`'s messages | each message at most once, in order, none vanishes, counters exact |
| streamcodec `FrameEncoder` (`encoder.cpp`) | none | encode_frame, encode_message | the inverse of the decoder | fragments cover the payload, FIN on the last |
| streamcodec `decode()` (`decoder.cpp`) | the above, for one input | one round per frame | frame reader, reassembler, stream table | end to end: payloads intact |
| streamcodec `FrameReader` (`frame_reader.cpp`) | read position | align_to_sync, next | called by `decode()` | resynchronises within its window, never reads beyond the input |
| streamcodec transform (`transform.cpp`) | none | rle_compress, rle_decompress | the application | decompression inverts compression; the output cap holds |
| minidb journal (`journal.cpp`) | committed store, open transaction, staged ops, counters | replay of BEGIN, INSERT, UPDATE, DELETE, COMMIT, ROLLBACK | last stage of `open()`; seeded by the pages | the store is what the journal says; transactions are atomic; a bad tail keeps the prefix |
| minidb pages, strings, records (`header.cpp`, `pages.cpp`, `strings.cpp`, `record.cpp`) | decoded model | parse_header, parse_pages, parse_string_table, decode_record | stages of `open()` | spans within the file, slots within their page |
| minidb overflow chains, index pages, cursor (`overflow.cpp`, `btree.cpp`, `cursor.cpp`) | visited pages, one sorted index page, read position | chain walk, lookup, range, next/seek | read the decoded pages | the walk ends on cycles and respects its caps; lookups agree with a scan; order of iteration |
| minidb catalog, summary | none | text and table views | read the model | the slot counts agree with the records that were taken |
| binpack parser, builder, validator (`parser.cpp`, `record_parser.cpp`, `builder.cpp`, `validate.cpp`) | header, section table, records, checksums | parse, build, validate | builder output is parser input | what the builder accepts the parser reads back, up to the depth limit; damage is seen; the report is exact |
| binpack query, visitor, summary | none | traversals, lookups by type and key | read the model | the readers agree with each other; a lookup gives the first pair of its key |
| cfgscript evaluator, document, environment | chain of scopes, nodes built so far | evaluate, define, lookup, build_nodes | consumes the parser's tree | lexical scope, arithmetic within the width, lazy operators, depth guards; an include is kept as data and never opened |
| cfgscript lexer, parser, serializer, query, schema, flatten | position, tree | text <-> tree, paths, diff | read the document | the parser computes the grammar; canonical text re-parses; a diff is a patch; a query finds what flatten lists; scanners read exactly their languages; a schema reports what is wrong and nothing else |
| common readers and writers | position | bounded reads, varints, bits, UTF-8 | used by all | never beyond the buffer; round trips |
| bwdump, fuzz targets | none | I/O | the facades | - |

The hard behaviours, each at its line, are the `hazards` of PROJECT.json.

## 2. Plan

1. streamcodec core: flow control, reassembly, statistics, ordered delivery,
   and their composition end to end.  *(done)*
2. minidb journal replay.  *(done)*
3. Proofs about flow control and reassembly, and the refinement of the slot
   store.  *(done)*
4. The wire format: frame encoder, frame reader, CONTROL and ACK records.
   *(done)*
5. binpack: builder, parser, validator and walk against each other.  *(done)*
6. cfgscript: expressions, documents, scopes, canonical text, diff, query.
   *(done, without floats and strings)*
7. minidb storage: pages, slots, strings, records, index pages and overflow
   chains over cut files, and the record cursor.  *(done; the header's checks
   are left)*
8. Pure algorithms: run-length coder, byte and bit cursors, UTF-8, the lexer,
   string escapes, query paths.  *(done)*
9. cfgscript schema, on top of the query.  *(done, numbers only)*
10. Proofs: the link, the delivery queue, the journal's replay, and minidb's
    slots, overflow walk, index pages and cursor.  *(done)*
11. Proofs: the transfer end to end, from the proofs of its parts.  *(done)*
12. Proof of what the frame reader returns.  *(done)*
13. Proof of TruncationOnlyLoses of minidb.  *(done)*

## 3. Modules

    FlowControl <--EXTENDS-- FlowLink <-- MC_FlowLink
    Coverage <-- Fragments <-- ReassemblyMap          (abstract)
                       ^------ Reassembler <-- MC_Reassembler   (implements ReassemblyMap)
    Coverage <-- RangeList                             (span list = set)
    StreamTable, ReassemblyMap, DeliveryQueue --INSTANCE--> StreamTransfer <-- MC_StreamTransfer
    DeliveryQueue, RangeList, Rle, ByteIO, CfgLexer, CfgPath <-- Units <-- MC_Units
    Utf8 <-- CfgLexer
    Journal <-- MC_Journal
    Storage <-- OverflowChain; Journal, OverflowChain, Cursor <-- Minidb <-- MC_Minidb
    FrameReader <-- MC_FrameReader
    BinRecord <-- Binpack <-- MC_Binpack
    CfgExpr <-- CfgScript <-- CfgSchema <-- MC_CfgScript
    *_proofs: theorems about the module they are named after
    FlowLink_proofs also has those about FlowControl
    Minidb_proofs also has those about Journal
    Fragments_proofs <-- ReassemblyMap_proofs, Reassembler_proofs;
    Reassembler_proofs also has the theorem about RangeList;
    ReassemblyMap_proofs, DeliveryQueue_proofs --INSTANCE--> StreamTransfer_proofs

* **FlowControl** - one action per handler of `FlowController`.  The u64 width
  is the constant `MaxU64`; `Ceiling` is the guarded addition of
  on_window_update, `AfterSend` keeps the wrap of `sent += admit`.
* **FlowLink** - environment for one stream of it: a receiver with a finite
  buffer, and sets of updates and acks that the network may deliver any number
  of times, in any order, or never.  Receiver and network are external; they
  follow the contract control.hpp states.  The other streams receive arbitrary
  inputs.
* **Coverage**, **RangeList** - the filled ranges of a partial as a set of
  offsets, and the sorted coalesced list that the code keeps.  RangeList shows
  the two to be the same thing, fragment by fragment, so that the other modules use the set.
* **Fragments** - what one DATA frame does to one partial: clamp of the end,
  resize, copy, add_range, high-water mark, FIN.  A payload byte is its
  provenance (stream, message, number of RESETs its stream had seen, offset),
  so "the right bytes" can be stated.
* **ReassemblyMap** - the abstract reassembler: a map from keys to partials.
* **Reassembler** - the real one, with `store_` and `index_`: slot_for, swap
  and pop, compaction with the index slide exactly as written.  An access
  beyond `store_` sets `fault`, after which nothing is promised.
* **StreamTable** - seq accounting with the 16-bit wrap (`SeqRange`).
* **DeliveryQueue** - offer in its four outcomes, flush_stream.  A call is
  modelled by the set of ids it returns (the code pops them off an ordered
  map); `released` counts them.  The u32 cursor wraps at `IdMod`.
* **StreamTransfer** - encode_message, a transport that drops, repeats and
  swaps frames, one round of `decode()` per step (StreamTable and reassembler
  step together, as in the loop), and the DeliveryQueue behind it.  The
  reassembler is taken by its abstract specification: what the run shows
  holds apart from finding 1.  A message id is any u32 but the last
  (`MsgRange`), and `DataFrames` are the frames encode_message can build.
  The bound on offers to the queue, 7, is never in the way: six frames and one
  repeat arrive at most.
* **Journal** - one action per journal entry, entries chosen as they are read;
  `log` is the journal so far.  Record bytes are opaque; `BadValues` are those
  decode_record throws on.
* **Storage** - what open() derives from a file: page spans, slot directories,
  the string table, the records of DATA pages and their fields, index pages.
  All are functions of the file; the file loses its tail symbol by symbol
  (external), so that a property can compare a file with what is left of it.
  A symbol is a unit that is read in one piece (half a page header, a slot
  entry, a varint, an index entry, a byte).
* **OverflowChain** - the loop of reconstruct_overflow, one action per way
  through it, guards in the order of the code.
* **Cursor** - next and seek over a set of keys; the iterator is the key it
  stands on.  Ghost variables keep where the scan began and what it has met.
* **Minidb** - Journal, OverflowChain and Cursor in one specification.  The
  journal takes from the pages only the store that it starts from, a cursor
  from the journal only which keys hold a record, and both start from every
  such state, so that a behaviour is about one of the three.
* **FrameReader** - encode_frame onto a tape; a transport (external) that adds
  noise between frames, damages a header or cuts the tail; align_to_sync and
  next with all their errors; the CRC tally and the CONTROL and ACK records of
  `decode()`.  The header bytes behind the sync word are one symbol of the
  tape, a CRC is another, and two headers have the same CRC only when they are
  the same.  Ghost variables keep where each frame was written and the noise
  before the first frame and behind each, so that the properties can tell noise
  within a gap, also when it came in several runs.  `Symbols` are what payloads
  and noise consist of; a payload may hold sync words, headers and CRCs.
  `Carried` is the payload that reaches the wire, cut to `kMaxFramePayload` as
  encode_frame does with the bytes and the length alike; parse_control reads
  its two words of `kWord` symbols one after the other.
* **BinRecord**, **Binpack** - the recursive records, then the container: the
  calls on `Builder`, build, damage to or loss of symbols, parse in both
  modes, validate, walk, the lines of summarize, collect_records and the
  lookups by section type and metadata key.  Header, table entry and trailer
  are one symbol each, and a CRC is the sequence that it was computed over.
  When a damaged section_count makes the table longer than it was written, the
  extra slots lie on body or trailer bytes; what they read as is any of
  `Garbage`, known types included.  `Options` are the ValidateOptions of the
  callers of validate(): its depth limit is advisory and has nothing to do with
  the constant max_depth that the parser is given.
* **CfgExpr** - expressions as token sequences; the parser is a function of
  text and position, one definition per production; the reference it is
  compared with derives all trees of a text by splitting it.
  Integers have `Width` bits.  A text is typed token by token, so a run sees
  every text over its alphabets.
* **CfgScript** - one action per statement; the open calls of build_nodes are
  the frames.  The code parses the whole document and then evaluates it; since
  either error discards everything, the model does both statement by
  statement.  Expression and document are independent parts of one run.
* **CfgSchema** - the builder of a schema and validate() on the documents of
  CfgScript.  The conversion of an integer to double is modelled by what it
  does: rounding to `Mantissa` significant bits, ties to even.
* **Rle** - both directions of the run-length transform, byte by byte.
* **ByteIO** - ByteWriter, ByteReader and BitReader.  A byte has `kByteBits`
  bits and a value `kValueBits`, so that a varint of the greatest length, and
  one too long, are short sequences.
* **Utf8** - decode, validate, count, encode and to_codepoints on real bytes.
* **CfgLexer** - the lexer on real bytes: trivia, words, numbers, strings with
  their escapes, operators, and escape_string of the serializer.  An integer
  has `kIntBits` bits.  The reference describes each lexeme on its own and says
  that a token is the longest lexeme at its place.
* **CfgPath** - tokenize of query.cpp and the keys that flatten writes.
* **Units** - the parts that share no state with another one in a single
  specification: a behaviour drives the delivery queue, or the span list, or
  writes one text of a family, and the text is then given to the functions.

Definitions named `X_something` directly before `X` are mutations of `X`, each
a plausible slip in the code; PROJECT.json pairs every property with one that
breaks it.

## 4. Runs

| Run | Shows |
|---|---|
| flow_link | 2 streams, counters 0..3.  Safety of the controller under all inputs on one stream, safety and progress of the link on the other. |
| wire | up to 2 frames whose payloads look like frames, window updates of 1, 2 and 5 symbols in words of 2, payloads truncated at 4, 2 faults, a window of 3 symbols: small noise is tolerated, CRC tally, ACKs and window updates are exact, no frame is invented or shortened, damage shows in the CRC, decode ends. |
| units | delivery queue: 2 streams, 5 ids, window 2, 7 offers, flushes anywhere; span list: all fragments [b, e) of a 9-value offset space in any order, 256 coverage sets, all lists; all texts of the families of MC_Units. |
| rle_bound | *violated*: finding 4. |
| reassembler | 3 messages on 2 streams, every fragment of one of them in a 4-value offset space (overlaps, holes, repeats, clamp, early and repeated FIN), the concrete slot store; refinement of ReassemblyMap. |
| reassembly_cover | *violated*: finding 2. |
| reassembler_reset | *violated*: finding 1. |
| binpack | up to 2 sections with up to 2 records, one damaged or lost symbol, max_depth 2, with validate() limited to 0 and to 2, checking item counts or not: parse inverts build, with a trailer no damage goes unseen, the report, the traversals and the lookups are exact. |
| cfgscript | all texts of up to 5 tokens from two alphabets of 10 tokens and some longer ones, kMaxDepth 5, 3-bit integers; all documents of up to 5 statements, each held against three schemas. |
| minidb | all journals of up to 5 entries, 2 keys, 2 values of which one is undecodable, all seeds, ending by EOF, unknown op or short read anywhere; all files of 3 pages out of 10 page images, cut anywhere, with an overflow walk from every page; cursors over every set of 4 keys, moved up to 6 times. |
| journal_torn | *violated*: finding 3. |
| transfer | 4 messages in 6 frames on 2 streams, one RESET per stream, up to 2 transport faults of different kinds, a seq of 2 bits that wraps. |

**Bounds.**  The counters' widths (`MaxU64`, `OffMax`, `SeqRange`, `IdMod`) are
small so that overflow, clamp and wrap are reached in a few steps; none of the
code depends on their size.  Three partials are enough for a hole at the head,
in the middle and at the tail of the store.  A window of two with five ids lets
an id be late, duplicate, buffered, skipped and flushed, and two gaps occur in
one stream.  Five journal entries hold a nested BEGIN, two transactions, or a
transaction that writes one key twice.  Two faults on two frames put noise
before, between and behind frames or combine it with damage; a resync window of
three symbols is shorter, equal to and longer than the runs of noise.  A
CONTROL payload holds less than a word, one word, or two and is then truncated.
A max_depth of two is met by records of three levels and crossed by one of four,
and validate()'s own limit of zero is crossed by every record inside another;
kMaxDepth 5 is crossed by the longer texts, and 3-bit integers overflow in one
subtraction from the least of them.

Texts are as long as the decisions of their scanner are deep.  With tokens of
up to four bytes, inputs of the run-length coder end, meet and cross the limit
in runs and in literals.  Bytes of three bits and values of five make a varint
of three bytes the longest and leave it a spare bit, as ten bytes do for 64.
UTF-8 is checked on real bytes from both sides of every boundary of the Unicode
table.  With one significant bit the doubles are 0, 1, 2 and 4, so that 3 is
rounded onto a bound.  Six moves run a cursor over four records, to the end
and beyond, with seeks in between.

Three pages hold chains of every shape that the guards tell apart (cycles of one
and two pages, chains of three, a link out of the file), and the limits
of two pages and seven symbols are both reached in the middle of a chain.

**Properties.**  Some invariants are conjunctions of named parts: LinkSafe
(FlowLink), ListMatchesSet (RangeList), ReadersAgree (Binpack), EvaluateExact
(CfgExpr), QueryExact (CfgScript), ChainExact (OverflowChain), SlotsConfined and
ReadsExact (Minidb), RleExact, BytesExact and ScannersExact (Units),
DeliveryIntact and AllArrive (StreamTransfer).  A module's TypeOK says which
values its variables take; LinkSafe includes that of FlowLink.

**Deadlock** is not checked where the system really stops: a finished replay, a
bounded number of offers, a transfer whose messages have all been sent.

**Fairness.**  FlowLink assumes what the protocol needs: both ends keep
working, and of the updates that would raise the ceiling one gets through in
the end; single copies may be lost.  StreamTransfer assumes that the caller
encodes all its messages and that `decode()` runs to the end of its input,
which its loop does; FrameReader assumes the latter too.  Faults, RESETs and
flushes are never forced.

## 5. Findings

1. `reset_stream` slides every index entry behind the first hole by exactly
   one, although the comment above it promises to "keep the map and the store
   in agreement".  A RESET that drops two partials leaves entries that point to
   another message's slot or past the end (run reassembler_reset).  All
   positive results about the slot store are therefore stated for executions in
   which a RESET finds at most one message of its stream in flight
   (`OneHoleSpec`); for these they are proved.
2. `is_complete` wants one single span, so a covered message with a stray
   fragment beyond `total_len` stays in flight, against the header's "When FIN
   is seen and the filled ranges cover [0, total_len) the message is complete"
   (run reassembly_cover).
3. A journal whose last entry is cut short makes `open()` throw and lose the
   records committed before it, against "A corrupt journal tail must not
   discard a valid prefix" (run journal_torn).

4. A run of two between literals is always made a token of its own, so the
   output can outgrow the stated bound: "abbcdd" becomes eight bytes, against
   "The result is at most input.size() + ceil(n/128) bytes" of transform.hpp
   (run rle_bound).

Further differences show in the models and have no run of their own:

* An unknown journal tag ends the replay silently (`unknown_op`), while
  minidb.hpp lists it among the errors that throw.
* The delivery cursor wraps to 0 after the id 0xFFFFFFFF, after which released
  ids are accepted again (the units run keeps its ids below the last one).
* A chain that runs into a page whose header was cut off ends COMPLETE, since
  such a page keeps the default link 0xFFFF; only `truncated` tells.
* align_to_sync gives up at exactly kResyncWindow bytes of noise without
  looking for a sync word there, and noise behind the last frame makes next()
  throw, so that the frames before it are lost too.  SmallNoiseTolerated states
  where the line runs.
* serializer.hpp "aims to emit text that re-parses into an equivalent
  Document".  RoundTrip states the two exceptions: the least integer, whose
  digits the lexer rejects, and a value nested through names more deeply than
  the parser allows.
* A long chain of left-associative operators parses and is then rejected by the
  evaluator's depth guard (DepthGuardsAgree, in EvaluateExact).
* A decimal literal out of range is an error; a hexadecimal one of any length
  wraps (IntOf).  The index of a query path wraps too (CfgPath).
* tokenize takes "a.[1]" and "a[1]b" although its comment wants a '.' to
  separate two names; PathExact describes the language it does read.
* The bounds of a schema are doubles: an integer that is rounded onto a bound
  is accepted on the wrong side of it.  A required path that ends at a block
  counts as absent.  SchemaHonest names both exceptions.
* visitor.hpp:120 lists "a KEYVAL without exactly one child or with empty key"
  under kMalformedKeyval, which is an error; validate() reports an empty key as
  a kEmptyMetadataKey warning (validate.cpp:116, as its own header comment in
  line 12 and visitor.hpp:122 have it), and the report stays ok().
  ReportExact (in ReadersAgree) states what the code does.
* "a hand-built oversized spec can never desynchronize the stream"
  (encoder.cpp:38-39) holds, but the payload comes back truncated, and nothing
  tells the caller; SmallNoiseTolerated states that too.
* Of several metadata pairs with one key the lookups only ever see the first,
  even when its type is not the one asked for (MetadataExact).
* Of repeated assignments to one path a query returns the first, while scope
  and diff use the last (QueryExact).

## 6. Proofs

`tlapm` checks them for every value of the constants allowed by the named
assumptions (`FlowAssumption`, `CoverageAssumption`, `FragmentsAssumption`,
`DeliveryAssumption`, `FrameReaderAssumption`, `JournalAssumption`,
`StorageAssumption`, `OverflowAssumption`, `CursorAssumption`,
`IndexAssumption`, `StreamTransferAssumption`), which say what the code's types say: counters and offsets are naturals, a page image consists of
symbols whose numbers are unsigned, a key is a sequence of bytes, the fragment
size is positive.  Bounds of the model (MaxOffers, MaxEntries, MaxMoves,
MaxResets) are arbitrary naturals in them.

* **Fragments_proofs** - placing a frame keeps a partial exact
  (`FragmentExact`), a fresh one is (`FreshExact`), and what is_complete
  accepts emits its own bytes (`EmittedExact`).
* **ReassemblyMap_proofs** - CoverageExact, EmittedWhole and
  NothingCompleteHeld; their conjunction with the type invariant is inductive.
* **Reassembler_proofs** - `SlotInv`: index and store agree in both directions,
  no fault, every slot exact.  Agreement is shown separately for slot_for,
  overwriting a slot, remove_slot, and for the compaction with no or one hole,
  where the slide by one is right (`ResetAgrees`).  From it
  `IndexAgreesAlways`, and with the mapping `Held` the refinement
  `OneHoleSpec => Map!Spec` (`ReassemblerRefinesMap`): each accept_data is a
  Fill or an Emit of the map, each reset_stream a Reset.  From the refinement
  and SlotInv follow `SlotCoverageExact`, `SlotEmittedWhole` and
  `SlotNothingCompleteHeld`, the map's properties of the slot store.
  Also `ListMatchesSetAlways` of the span list, which is why the other modules
  may use a set of offsets: std::sort is a permutation in order of the begins
  (`SortedExact`), each round of the merge loop leaves spans with gaps that
  cover what the spans read so far cover (`MergeRound`), hence add_range adds
  its span's offsets and no other (`AddExact`).

* **FlowLink_proofs** - of the controller, TypeOK, WindowOrdered and
  BlockedExact as invariants and CountersMonotone as an action property.  The
  inductive invariant adds to WindowOrdered that a known stream's flag equals
  `sent >= advertised` and that an unknown stream is all zero.  Each handler is
  shown to move a well-formed FlowState to a well-formed one; the steps then
  only lift that to the map.  Then LinkSafe and WindowOrdered of the link.  NoOverrun is
  not inductive: an old update or ack may still be under way.  `LinkInv`
  therefore says of every update under way that it offers no more than the
  receiver still stands by, of every ack that its bytes have arrived
  (UpdatesHonest, AcksHonest), that the sender's ceiling is no higher either
  (CeilingHonest), and that consumed <= received <= sent <= Total (Counted).
* **DeliveryQueue_proofs** - PendingAhead for every window and every width of
  the ids.  AtMostOnce, InOrder and AccountsExact need `IdMod - 1 \notin Ids`:
  once the last u32 is released the cursor wraps to 0 and old ids are accepted
  again, so that the three are false without it.  All calls are shown to have
  one shape (some ids leave the buffer, the cursor moves behind the highest of
  them), and the invariants are proved of that shape once.  `CursorBehind` is
  the strengthening: the cursor stands right behind the highest id released.
  AccountsExact counts (stream, id) pairs and needs finitely many streams.
* **FrameReader_proofs** - SmallNoiseTolerated, NoFalseFrame and DamageNoticed
  for every set of frames and of noise and every scan window.  `Laid` describes
  the tape by the ghosts: where each frame stands, what symbols it consists of,
  what fills the gaps; each fault keeps it (`LaidWrite`, `LaidDisturb`,
  `LaidDamage`, `LaidCut`).  From the end of a frame, over noise in which no
  sync word hides, no position before the next frame looks like one, not even
  the pair of the last byte of noise and the first of the frame (`ClearRun`);
  hence align_to_sync stops there or throws (`AlignFacts`).  What next() then
  returns is the frame written, when its header is undamaged or its CRC good
  (`NextFound`), and it returns when nothing is missing (`NextClean`).
  `ReadInv` says that the reader stands at the end of the last frame it
  returned, whatever sync words the payload behind it held.  What comes back is
  `Carried`, the payload up to kMaxFramePayload.  Its part `Tallied` says that
  the CRC tally counts the sealed frames so far and that the ACKs and CONTROLs
  are the lists of their values (`Listed`, kept by `ListedStep`), where the two
  guarded reads of parse_control find the words announced (`ControlParsed`).
* **Minidb_proofs** - the properties of the run `minidb` for journals of any
  length, every set of page images, every cut and all limits.
  - ReplayExact classifies entries by looking backwards and forwards in the
    log; `ReplayInv` says how that classification meets the state: in_txn is
    "a BEGIN is open", staged are the entries behind it, and the nearest and
    the last entry that the definition chooses exist.  One lemma per kind of
    entry shows which entries change their class when it is read
    (`ReadReclassifies`).  It holds of the journal alone, and again with the
    other parts running beside it.
  - SlotsConfined: in what is left of a file every page walked still starts
    with its header (`Framed`), hence a slot's fields are numbers and the
    checks of parse_pages and seed_from_pages confine the record.  The catalog
    and the store are compared by an injection between their slots, onto when
    the page is whole.
  - ChainExact: `WalkInv` adds that a walk under way stands on the page that
    the last one visited points to, and that an idle walk holds nothing while
    the file may still change.
  - CursorExact: `CursorInv` adds that the iterator stands on the last key met.
    A least key exists by minimising the page and then the slot.
  - ReadsExact: key_compare is a strict total order, so the place that
    stable_sort gives an entry (one more than the number of entries that go
    ahead of it) is a permutation of the page (`SortExists`).  The entries
    below a key are then an initial interval of the sorted page
    (`InitialInterval`), and the binary search ends at its border: every
    window of `lookup` ends at the border or at the end of the window nearest
    to it (`Nearest`, by induction over the window's width).  `range` takes
    the entries between two such borders, and the listing that ReadsExact asks
    for is the permutation restricted to them (`RangeLists`).
  - TruncationOnlyLoses: only a cut changes the file, and what it leaves heads
    what there was (`Heads`).  So do then the body of every page (`CutBody`),
    its slots (`CutPage`) and the clean entries of an index page
    (`CleanHeads`); a record that is still taken is the same bytes
    (`CutRecords`).  A read of the string table that succeeds in the shorter
    body succeeds at the same place in the longer one (`ReadsHeads`), and the
    reads that succeed come before those that fail (`GoodExists`).  The cursor
    of decode_record does not depend on the string table, so the fields stand
    at the same places and only a reference can change (`FieldsAlike`).

* **StreamTransfer_proofs** - all three invariants of the run `transfer`.
  - DeliveryIntact: what encode_message builds satisfies the assumptions of
    the reassembler (`DataFramesWellCut`), a step of `decode()` is one of the
    map and at most one of the queue, and so their invariants carry over
    (`TransferInv`).  That an emitted payload has its full length follows from
    `LengthInv`: FIN only comes on the frame that ends the message.
  - StatsHonest: observe() sees numbers modulo SeqRange, so it can be deceived
    by a frame that is a whole turn of the counter out of place, and only by
    that (`StatsHonestWhileNear`).  `LagInv` bounds how far out of place a
    frame can be: listing the frames of a stream from the last to arrive to
    the next to be sent, K faults leave two of them at most K further apart
    than their ranks, or K + 1 in the wrong order (`Line`).  Each fault adds
    one; sending and receiving add nothing.  Hence SeqRange - 2 faults in all
    never deceive it (`StatsHonestAlways`), a bound that the run's two faults
    with a counter of four values meet.
  - NoSilentLoss: the number of a frame is FirstSeqOf its message plus its
    place in it (`Settled`).  While frames arrive without a jump or a repeat,
    the number of the last one tells how far each message is: not begun, its
    first bytes up to a multiple of the fragment size covered and nothing
    else, or emitted (`Tracked`).  The frame with FIN then meets exactly the
    bytes it lacks (`Lands`).  With StatsHonest, gaps and duplicates of zero
    mean that there was no jump and no repeat.

Induction over numbers enters in the form of a set: a nonempty set of naturals
has a least element (`NatMin`, `LeastNat`, from the well-foundedness of <), so a
set with 0 that is closed under successor holds all of them (`SetInduction`).
That suffices for what the recursive functions FirstSeqOf (`FirstSeqs`) and
those in FlattenSeq (`FlattenAppend`, `FlattenUniform`), `Merged`, `lookup`,
`range`, `string_table` and `decode_record` compute: each is shown to exist first,
by exhibiting it, and then to have that value at every argument.

Only model-checked:
* Binpack, CfgScript, CfgSchema, Rle, ByteIO, Utf8, CfgLexer and
  CfgPath, whose parsers are RECURSIVE operators.
* All liveness properties.

## 7. Not modelled

The checks of the minidb header.  In cfgscript, floats (their arithmetic, std::stod
and std::to_string, which does not keep all their digits), strings as values of
documents and with them the allowed values of a schema, and the layout options
of the serializer.  Section ids of binpack.  Copying reads of whole byte ranges
(read_bytes, read_string), which are skip with a result.  And for good the
text output (wording of summaries, hexdump, bwdump, line and column numbers of
messages), hashing and checksum arithmetic, and the fuzz harnesses: text and
tables without state, of which no property tells more than the code itself.
