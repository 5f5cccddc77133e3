------------------------------ MODULE CfgScript ------------------------------
(***************************************************************************)
(* Documents of cfgscript: statements executed in scopes (parser.cpp,      *)
(* document.cpp, environment.hpp), and what is done with the result: the   *)
(* canonical text (serializer.cpp), path queries (query.cpp), flattening   *)
(* and diff (flatten.cpp).                                                 *)
(*                                                                         *)
(* One action per statement; a statement is chosen when it is reached, so  *)
(* the behaviours are all documents.  parse() parses a whole document      *)
(* before it evaluates any of it; since either error discards everything,  *)
(* the model does both a statement at a time.  Each level of recursion of  *)
(* build_nodes is a frame: the nodes built so far and the scope.           *)
(***************************************************************************)
EXTENDS CfgExpr

CONSTANTS
  Paths,          \* dotted paths of assignments, as sequences of names
  Rhs,            \* right-hand sides, as texts with balanced brackets
  Headers,        \* block headers, << name, label >>
  NoLabel,        \* the label of a block without one
  IncludePath,    \* the path of every include
  MaxStatements   \* bound on the statements of a document, braces included

ASSUME CfgScriptAssumption ==
  \A p \in Paths : p # << >>

VARIABLES
  frames,   \* one per open build_nodes call, the innermost last
  status,   \* "open", then "done" or "failed" (parse() threw)
  log       \* the statements executed, braces included

docvars == << frames, status, log >>

Top        == frames[Len(frames)]
EmptyTable == << >>
Frame(h)   == [head |-> h, out |-> << >>, table |-> EmptyTable]

Assignment(p, v) == << "assign", p, v >>
Block(h, out)    == << "block", h, out >>
Include          == << "include", IncludePath >>

-----------------------------------------------------------------------------
(* Environment: define binds in the innermost scope, lookup walks outward. *)
Rebind(t, n, v) == [x \in DOMAIN t \cup {n} |-> IF x = n THEN v ELSE t[x]]

(* Mutation of define: a name bound in an outer scope is rebound there.    *)
define_outer(fs, n, v) ==
  LET at == {i \in DOMAIN fs : n \in DOMAIN fs[i].table}
      i  == IF at = {} THEN Len(fs) ELSE CHOOSE j \in at : \A k \in at : k <= j
  IN  [fs EXCEPT ![i].table = Rebind(@, n, v)]

define(fs, n, v) == [fs EXCEPT ![Len(fs)].table = Rebind(@, n, v)]

Visible(fs) ==
  LET names == UNION {DOMAIN fs[i].table : i \in DOMAIN fs}
      At(n) == {i \in DOMAIN fs : n \in DOMAIN fs[i].table}
  IN  [n \in names |-> fs[CHOOSE i \in At(n) : \A j \in At(n) : j <= i].table[n]]

-----------------------------------------------------------------------------
InitDoc ==
  /\ frames = << Frame(<< >>) >>
  /\ status = "open"
  /\ log = << >>

fail ==
  /\ status' = "failed"
  /\ UNCHANGED << frames, log >>

Emit(fs, node) == [fs EXCEPT ![Len(fs)].out = Append(@, node)]

(* parse_statement: the guard on nesting precedes every statement.         *)
Statement ==
  /\ status = "open"
  /\ Len(frames) <= kMaxDepth
  /\ Len(log) < MaxStatements

too_deep ==
  /\ status = "open"
  /\ Len(frames) > kMaxDepth
  /\ fail

(* The leaf of the path is bound, whatever the rest of it.                 *)
assign(p, s) ==
  LET v == Outcome(s, Visible(frames)) IN
  /\ Statement
  /\ \/ Failed(v) /\ fail
     \/ /\ ~Failed(v)
        /\ frames' = Emit(define(frames, p[Len(p)], v), Assignment(p, v))
        /\ log' = Append(log, << "assign", p[Len(p)], v >>)
        /\ UNCHANGED status

open_block(h) ==
  /\ Statement
  /\ frames' = Append(frames, Frame(h))
  /\ log' = Append(log, << "open" >>)
  /\ UNCHANGED status

(* The child scope is discarded with its frame.                            *)
close_block ==
  /\ status = "open"
  /\ Len(frames) > 1
  /\ frames' = Emit(Front(frames), Block(Top.head, Top.out))
  /\ log' = Append(log, << "close" >>)
  /\ UNCHANGED status

(* A '}' at the top level is no statement.                                 *)
stray_brace ==
  /\ status = "open"
  /\ Len(frames) = 1
  /\ fail

(* An include is data only: it is recorded, never opened.                  *)
include ==
  /\ Statement
  /\ frames' = Emit(frames, Include)
  /\ log' = Append(log, << "include" >>)
  /\ UNCHANGED status

end_of_text ==
  /\ status = "open"
  /\ status' = IF Len(frames) = 1 THEN "done" ELSE "failed"
  /\ UNCHANGED << frames, log >>

NextDoc ==
  \/ too_deep
  \/ \E p \in Paths, s \in Rhs : assign(p, s)
  \/ \E h \in Headers : open_block(h)
  \/ close_block
  \/ stray_brace
  \/ include
  \/ end_of_text

(***************************************************************************)
(* The expression typed and the document executed are independent: while   *)
(* one moves, the other is in its initial state.                           *)
(***************************************************************************)
InitAll == Init /\ InitDoc

NextAll ==
  \/ log = << >> /\ status = "open" /\ Next /\ UNCHANGED docvars
  \/ text = << >> /\ alphabet = {} /\ NextDoc /\ UNCHANGED << alphabet, text >>

SpecAll == InitAll /\ [][NextAll]_<< alphabet, text, frames, status, log >>

-----------------------------------------------------------------------------
(***************************************************************************)
(* flatten: one entry << path, scalar >> per leaf.  A path is a sequence   *)
(* of components; the label of a block and the index of an element are     *)
(* both written in brackets, and are the same component.                   *)
(***************************************************************************)
Name(n) == << "name", n >>
At(k)   == << "at", k >>

RECURSIVE flatten_into(_, _), flatten_nodes(_, _)

flatten_into(prefix, v) ==
  IF v[1] \in Literals \/ v[2] = << >> THEN << << prefix, v >> >>
  ELSE FlattenSeq([i \in DOMAIN v[2] |->
         IF v[1] = "array" THEN flatten_into(Append(prefix, At(i - 1)), v[2][i])
         ELSE flatten_into(Append(prefix, Name(v[2][i][1])), v[2][i][2])])

block_prefix(prefix, h) ==
  prefix \o (IF h[2] = NoLabel THEN << Name(h[1]) >> ELSE << Name(h[1]), At(h[2]) >>)

NameSteps(p) == [i \in DOMAIN p |-> Name(p[i])]

flatten_nodes(prefix, nodes) ==
  FlattenSeq([i \in DOMAIN nodes |->
    LET n == nodes[i] IN
    CASE n[1] = "assign" -> flatten_into(prefix \o NameSteps(n[2]), n[3])
      [] n[1] = "block"  -> flatten_nodes(block_prefix(prefix, n[2]), n[3])
      [] OTHER           -> << << Append(prefix, Name("include")), n >> >>])

flatten(nodes) == flatten_nodes(<< >>, nodes)

(* Mutation of LastOf: of a repeated path the first entry wins.            *)
LastOf_first(flat) ==
  [p \in {e[1] : e \in Range(flat)} |->
     flat[CHOOSE i \in DOMAIN flat :
            flat[i][1] = p /\ \A j \in DOMAIN flat : flat[j][1] = p => i <= j][2]]

(* The index diff builds: of a repeated path the last entry wins.          *)
LastOf(flat) ==
  [p \in {e[1] : e \in Range(flat)} |->
     flat[CHOOSE i \in DOMAIN flat :
            flat[i][1] = p /\ \A j \in DOMAIN flat : flat[j][1] = p => j <= i][2]]

(* The paths of a flat list, in order, each once.                          *)
PathsOnce(flat) ==
  LET first == {i \in DOMAIN flat : \A j \in 1..(i - 1) : flat[j][1] # flat[i][1]}
      Keep(i) == i \in first
      at == SelectSeq([i \in DOMAIN flat |-> i], Keep)
  IN  [k \in DOMAIN at |-> flat[at[k]][1]]

diff(a, b) ==
  LET ia == LastOf(a)
      ib == LastOf(b)
      Gone(p)    == p \notin DOMAIN ib
      Differs(p) == p \notin DOMAIN ia \/ ia[p] # ib[p]
      removed    == SelectSeq(PathsOnce(a), Gone)
      present    == SelectSeq(PathsOnce(b), Differs)
  IN  [k \in DOMAIN removed |-> << "removed", removed[k], ia[removed[k]] >>] \o
      [k \in DOMAIN present |->
         << IF present[k] \in DOMAIN ia THEN "changed" ELSE "added",
            present[k], ib[present[k]] >>]

-----------------------------------------------------------------------------
(* query: a path resolved over nodes, then inside the value reached.       *)
Absent == << "absent" >>

RECURSIVE walk_value(_, _), walk_nodes(_, _)

walk_value(v, steps) ==
  IF steps = << >> THEN v
  ELSE LET c == Head(steps) IN
       CASE c[1] = "at" /\ v[1] = "array" ->
              IF c[2] < Len(v[2]) THEN walk_value(v[2][c[2] + 1], Tail(steps))
              ELSE Absent
         [] c[1] = "name" /\ v[1] = "object" ->
              LET at == {i \in DOMAIN v[2] : v[2][i][1] = c[2]} IN
              IF at = {} THEN Absent
              ELSE walk_value(v[2][CHOOSE i \in at : \A j \in at : i <= j][2], Tail(steps))
         [] OTHER -> Absent

(* match_assignment_path, for the whole path of an assignment.             *)
Matches(p, steps) == IsPrefix(NameSteps(p), steps)

(* Mutation of FoundInBlock: only the first block of the name is entered.  *)
FoundInBlock_first(nodes, steps) ==
  LET named == {i \in DOMAIN nodes :
                  nodes[i][1] = "block" /\ Name(nodes[i][2][1]) = Head(steps)}
  IN  {i \in named : (\A j \in named : i <= j)
                      /\ walk_nodes(nodes[i][3], Tail(steps)) # Absent}

(* The blocks of that name in which the rest of the path is found.         *)
FoundInBlock(nodes, steps) ==
  {i \in DOMAIN nodes : /\ nodes[i][1] = "block"
                        /\ Name(nodes[i][2][1]) = Head(steps)
                        /\ walk_nodes(nodes[i][3], Tail(steps)) # Absent}

(* Blocks first; the first assignment that matches then decides.           *)
walk_nodes(nodes, steps) ==
  IF steps = << >> \/ Head(steps)[1] = "at" THEN Absent
  ELSE LET blocks  == FoundInBlock(nodes, steps)
           assigns == {i \in DOMAIN nodes :
                         nodes[i][1] = "assign" /\ Matches(nodes[i][2], steps)}
           First(at) == nodes[CHOOSE i \in at : \A j \in at : i <= j]
       IN  CASE blocks # {} -> walk_nodes(First(blocks)[3], Tail(steps))
             [] blocks = {} /\ assigns # {} ->
                  LET n == First(assigns)
                  IN  walk_value(n[3], SubSeq(steps, Len(n[2]) + 1, Len(steps)))
             [] OTHER -> Absent

query(nodes, steps) == walk_nodes(nodes, steps)

-----------------------------------------------------------------------------
TypeOK ==
  /\ status \in {"open", "done", "failed"}
  /\ Len(frames) \in 1..(kMaxDepth + 1)
  /\ \A i \in DOMAIN frames :
       \A n \in DOMAIN frames[i].table : ~Failed(frames[i].table[n])
  /\ status = "done" => Len(frames) = 1

Document == Top.out
Finished == status = "done"

(***************************************************************************)
(* Lexical scope: at every point of every document, a name means what the  *)
(* last assignment to it says among those whose block is still open.  No   *)
(* binding outlives its block, and none of an outer scope is changed from  *)
(* an inner one.                                                           *)
(***************************************************************************)
LevelAfter(i) ==
  Cardinality({j \in 1..i : log[j][1] = "open"})
    - Cardinality({j \in 1..i : log[j][1] = "close"})

InScope(n) ==
  {i \in DOMAIN log : /\ log[i][1] = "assign" /\ log[i][2] = n
                      /\ \A j \in i..Len(log) : LevelAfter(j) >= LevelAfter(i)}

ScopeExact ==
  status = "open" =>
    LET env == Visible(frames)
        assigned == {log[i][2] : i \in {j \in DOMAIN log : log[j][1] = "assign"}}
    IN  /\ DOMAIN env = {n \in assigned : InScope(n) # {}}
        /\ \A n \in DOMAIN env :
             \E i \in InScope(n) :
               env[n] = log[i][3] /\ \A j \in InScope(n) : j <= i

(***************************************************************************)
(* The serializer "aims to emit text that re-parses into an equivalent     *)
(* Document" (serializer.hpp).  Of each value of a document, without the   *)
(* keys, labels and braces around it, the canonical text re-parses to the  *)
(* same value, except for exactly two kinds that evaluation can build and  *)
(* no literal can: the least integer, whose digits are out of range for    *)
(* the lexer, and aggregates nested, through references to names, deeper   *)
(* than the parser goes.                                                   *)
(***************************************************************************)
RECURSIVE Parts(_), RenderDepth(_)

Members(v) == CASE v[1] = "array"  -> Range(v[2])
                [] v[1] = "object" -> {f[2] : f \in Range(v[2])}
                [] OTHER           -> {}

Parts(v) == {v} \cup UNION {Parts(m) : m \in Members(v)}

(* The depth at which the parser reads the innermost token.                *)
RenderDepth(v) ==
  LET inner == {RenderDepth(m) : m \in Members(v)}
  IN  IF inner # {} THEN 2 + (CHOOSE d \in inner : \A x \in inner : x <= d)
      ELSE IF IsInt(v) /\ v[2] < 0 THEN 3 ELSE 2

RECURSIVE ValuesOf(_)
ValuesOf(nodes) ==
  UNION {CASE n[1] = "assign" -> {n[3]}
           [] n[1] = "block"  -> ValuesOf(n[3])
           [] OTHER           -> {} : n \in Range(nodes)}

RoundTrip ==
  Finished =>
    \A v \in ValuesOf(Document) :
      Outcome(render_value(v), EmptyTable) = v
        <=> Integer(MinInt) \notin Parts(v) /\ RenderDepth(v) <= kMaxDepth

(***************************************************************************)
(* A diff is a patch: read as a list of writes and removals, it turns what *)
(* the entries of one document write, in order, into what those of the     *)
(* other write, and it has no entry to spare.  Checked between every       *)
(* beginning of a document, the rest of it, and the whole.                 *)
(***************************************************************************)
Write(m, p, v) == [x \in DOMAIN m \cup {p} |-> IF x = p THEN v ELSE m[x]]
Erase(m, p)    == [x \in DOMAIN m \ {p} |-> m[x]]

Written(flat) == FoldLeft(LAMBDA m, e : Write(m, e[1], e[2]), EmptyTable, flat)

Patched(m, d) ==
  FoldLeft(LAMBDA x, e : IF e[1] = "removed" THEN Erase(x, e[2])
                         ELSE Write(x, e[2], e[3]), m, d)

IsPatch(d, a, b) ==
  LET wa == Written(a)
      wb == Written(b)
      same == {p \in DOMAIN wa \cap DOMAIN wb : wa[p] = wb[p]}
  IN  /\ Patched(wa, d) = wb
      /\ Len(d) = Cardinality((DOMAIN wa \cup DOMAIN wb) \ same)

DiffIsPatch ==
  Finished =>
    \A i \in 0..Len(Document) :
      LET begin == flatten(SubSeq(Document, 1, i))
          rest  == flatten(SubSeq(Document, i + 1, Len(Document)))
          whole == flatten(Document)
      IN  /\ IsPatch(diff(begin, rest), begin, rest)
          /\ IsPatch(diff(begin, whole), begin, whole)
          /\ IsPatch(diff(whole, begin), whole, begin)

(***************************************************************************)
(* query against flatten, which lists a document completely.  A query sees *)
(* no labels, so both are taken without them.  Whatever a query finds is   *)
(* in the flat list at that path, with all its leaves.  Conversely, every  *)
(* leaf is found, provided the document assigns no path twice and none     *)
(* below another assigned path: then blocks that share a name hide nothing *)
(* of each other, and neither does a block an assignment.                  *)
(***************************************************************************)
RECURSIVE Plain(_, _)
Plain(nodes, bare) ==
  [i \in DOMAIN nodes |->
     LET n == nodes[i] IN
     CASE n[1] = "assign" -> IF bare THEN Assignment(n[2], << "null" >>) ELSE n
       [] n[1] = "block"  -> Block(<< n[2][1], NoLabel >>, Plain(n[3], bare))
       [] OTHER           -> n]

Leaves(nodes) ==
  LET IsValue(e) == e[2][1] # "include"
  IN  SelectSeq(flatten(Plain(nodes, FALSE)), IsValue)

Unambiguous(nodes) ==
  LET IsValue(e) == e[2][1] # "include"
      targets == SelectSeq(flatten(Plain(nodes, TRUE)), IsValue)
      leaves  == Leaves(nodes)
  IN  /\ \A i, j \in DOMAIN targets :
           i # j => ~IsPrefix(targets[i][1], targets[j][1])
      /\ \A i, j \in DOMAIN leaves : leaves[i][1] = leaves[j][1] => i = j

QuerySteps(nodes) ==
  LET components == UNION {Range(e[1]) : e \in Range(Leaves(nodes))}
  IN  UNION {[1..n -> components] : n \in 1..3}

QuerySound ==
  Finished =>
    \A steps \in QuerySteps(Document) :
      LET v == query(Document, steps) IN
      v # Absent => Range(flatten_into(steps, v)) \subseteq Range(Leaves(Document))

QueryComplete ==
  Finished /\ Unambiguous(Document) =>
    \A e \in Range(Leaves(Document)) : query(Document, e[1]) = e[2]

(***************************************************************************)
(* query() and the flat list of a document tell the same, in both          *)
(* directions.                                                             *)
(***************************************************************************)
QueryExact == QuerySound /\ QueryComplete
=============================================================================
