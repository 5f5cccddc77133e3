--------------------------- MODULE OverflowChain ---------------------------
(***************************************************************************)
(* reconstruct_overflow (overflow.cpp): the walk along the overflow_next   *)
(* links of a possibly cut file, one action per way through the loop.  The *)
(* links may form cycles or leave the file; two limits bound the walk.     *)
(***************************************************************************)
EXTENDS Storage

CONSTANTS max_pages, max_bytes   \* OverflowLimits

ASSUME OverflowAssumption == max_pages \in Nat /\ max_bytes \in Nat

VARIABLES
  chain_status,   \* "idle", "walking", or the OverflowStatus
  current,
  visited,        \* result.visited; `seen' is its range
  bytes           \* result.bytes

walk == << chain_status, current, visited, bytes >>

InitWalk == chain_status = "idle" /\ current = 0 /\ visited = << >> /\ bytes = << >>

(* derive_spans: the same geometry from the decoded pages alone.           *)
derive_spans == [i \in Walked |->
  [file_offset |-> PageOff(i),
   length |-> IF PageOff(i) >= Len(data) THEN 0
              ELSE Smaller(Len(data) - PageOff(i), page_size)]]

(* [kPageHeaderSize, free_start), clamped to what exists of the page.      *)
Payload(i) ==
  LET end == Smaller(PageAt(i).free_start, derive_spans[i].length)
  IN  IF end > kPageHeaderSize
        THEN Bytes(derive_spans[i].file_offset + kPageHeaderSize, end - kPageHeaderSize)
        ELSE << >>

reconstruct_overflow(start_page) ==
  /\ chain_status = "idle"
  /\ chain_status' = IF start_page \in Walked THEN "walking" ELSE "BAD_START"
  /\ current' = start_page
  /\ UNCHANGED << visited, bytes >>

Stop(why) == chain_status' = why /\ UNCHANGED current

Seen == ToSet(visited)

cycle ==
  /\ chain_status = "walking" /\ current \in Seen
  /\ Stop("CYCLE") /\ UNCHANGED << visited, bytes >>

page_limit ==
  /\ chain_status = "walking" /\ current \notin Seen /\ Len(visited) >= max_pages
  /\ Stop("PAGE_LIMIT") /\ UNCHANGED << visited, bytes >>

(* Mutation of Visit: the limit is looked at after the page is taken.      *)
Visit_late ==
  /\ chain_status = "walking" /\ current \notin Seen /\ Len(visited) <= max_pages
  /\ visited' = Append(visited, current)

Visit ==
  /\ chain_status = "walking" /\ current \notin Seen /\ Len(visited) < max_pages
  /\ visited' = Append(visited, current)

Fits == Len(bytes) + Len(Payload(current)) <= max_bytes

(* The page counts as visited, its payload is refused.                     *)
length_limit == Visit /\ ~Fits /\ Stop("LENGTH_LIMIT") /\ UNCHANGED bytes

follow ==
  /\ Visit /\ Fits
  /\ bytes' = bytes \o Payload(current)
  /\ LET nxt == PageAt(current).overflow_next
     IN  \/ nxt = kNoOverflow /\ Stop("COMPLETE")
         \/ nxt # kNoOverflow /\ nxt \notin Walked /\ Stop("DANGLING_PAGE")
         \/ nxt # kNoOverflow /\ nxt \in Walked /\ current' = nxt /\ UNCHANGED chain_status

NextWalk == cycle \/ page_limit \/ length_limit \/ follow

-----------------------------------------------------------------------------
(***************************************************************************)
(* The walk follows the links from page to page, never twice over one, and *)
(* "status records exactly why it stopped" (overflow.hpp): the payloads of *)
(* the pages visited, in order, up to the first reason to stop.            *)
(***************************************************************************)
Link(i) == PageAt(i).overflow_next

Refused == IF chain_status = "LENGTH_LIMIT" THEN 1 ELSE 0

Follows ==
  /\ \A n \in 1 .. (Len(visited) - 1) : visited[n + 1] = Link(visited[n])
  /\ Cardinality(Seen) = Len(visited)
  /\ Seen \subseteq Walked
  /\ Len(visited) <= max_pages
  /\ Len(bytes) <= max_bytes
  /\ LET taken == SubSeq(visited, 1, Len(visited) - Refused)
     IN  bytes = FlattenSeq([n \in DOMAIN taken |->
           SubSeq(data, PageOff(taken[n]) + kPageHeaderSize + 1,
                  Smaller(PageOff(taken[n]) + Smaller(PageAt(taken[n]).free_start, page_size),
                          Len(data)))])

StopExplained ==
  LET last == visited[Len(visited)]
  IN  /\ chain_status = "COMPLETE" => Link(last) = kNoOverflow
      /\ chain_status = "CYCLE" => Link(last) \in Seen
      /\ chain_status = "DANGLING_PAGE" => Link(last) # kNoOverflow /\ Link(last) \notin Walked
      /\ chain_status = "PAGE_LIMIT" =>
           /\ Len(visited) = max_pages
           /\ visited # << >> => Link(last) \in Walked \ Seen
      /\ chain_status = "LENGTH_LIMIT" => Len(bytes) + Len(Payload(last)) > max_bytes
      /\ chain_status = "BAD_START" => current \notin Walked /\ visited = << >>

ChainExact == Follows /\ StopExplained
=============================================================================
