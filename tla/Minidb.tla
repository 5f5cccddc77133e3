------------------------------- MODULE Minidb -------------------------------
(***************************************************************************)
(* The parts of minidb in one specification.  open() parses the pages and  *)
(* then replays the journal; reconstruct_overflow and cursors work on the  *)
(* result, which open() has finished and nothing changes.  The replay      *)
(* takes from the pages only the store it starts from, and a cursor takes  *)
(* from the replay only which keys hold a record; both modules start from  *)
(* every such state.  So a behaviour is about one of the three: `part'     *)
(* tells which, and the variables of the others rest.                      *)
(***************************************************************************)
EXTENDS Journal, OverflowChain, Cursor

CONSTANT IndexKeys   \* the keys looked up in index pages

ASSUME IndexAssumption == IndexKeys \subseteq Seq(Nat)

VARIABLE part

storage == << data, walk >>

NoSeed == seed = [k \in Keys |-> Absent]

InitMinidb ==
  /\ InitWalk /\ Init /\ InitCursor
  /\ \/ part = "journal" /\ data = << >> /\ rows = {}
     \/ part = "storage" /\ data \in Files /\ rows = {} /\ NoSeed
     \/ part = "cursor" /\ data = << >> /\ NoSeed

CutFile ==
  /\ part = "storage" /\ chain_status = "idle" /\ Cut
  /\ UNCHANGED << vars, walk, cursorvars, part >>

StartWalk ==
  /\ part = "storage" /\ UNCHANGED << vars, data, cursorvars, part >>
  /\ \E i \in 0 .. page_count : reconstruct_overflow(i)

Walk == part = "storage" /\ NextWalk /\ UNCHANGED << vars, data, cursorvars, part >>

Replay == part = "journal" /\ Next /\ UNCHANGED << storage, cursorvars, part >>

Scan == part = "cursor" /\ NextCursor /\ UNCHANGED << vars, storage, part >>

NextMinidb == CutFile \/ StartWalk \/ Walk \/ Replay \/ Scan

SpecMinidb == InitMinidb /\ [][NextMinidb]_<< vars, storage, cursorvars, part >>

-----------------------------------------------------------------------------
(***************************************************************************)
(* Cutting the file's tail only loses, and what is left is intact: the     *)
(* promise of pages.cpp and strings.cpp for truncated files.               *)
(***************************************************************************)
TruncationOnlyLoses == [][data' # data => Degrades]_data

(***************************************************************************)
(* Slots cannot make open() read outside their page or the file, and the   *)
(* catalog's count of used slots agrees with the records open() took.      *)
(***************************************************************************)
SlotsConfined == chain_status = "idle" => RecordsInPlace /\ CatalogAgrees

(***************************************************************************)
(* What is read back is what is there.  Lookups in index pages agree with  *)
(* a scan of what was written, however the page was cut and in whatever    *)
(* order its entries stand; a cursor meets every record once, in order,    *)
(* wherever it is sent in between.                                         *)
(***************************************************************************)
ReadsExact ==
  /\ chain_status = "idle" => LookupExact(IndexKeys)
  /\ CursorExact
=============================================================================
