------------------------------ MODULE CfgExpr ------------------------------
(***************************************************************************)
(* Expressions of cfgscript: the precedence-climbing parser (parser.cpp),  *)
(* the evaluator (evaluator.cpp) and the canonical renderer of a value     *)
(* (serializer.cpp, render_value).                                         *)
(*                                                                         *)
(* The text is a sequence of tokens; the lexer contributes only the range  *)
(* of a decimal literal.  A token is a tuple whose first component is its  *)
(* kind; the literals carry their value and are written as the value they  *)
(* denote.  Integers have Width bits instead of 64.  Floats and strings    *)
(* are left out.                                                           *)
(*                                                                         *)
(* The state is the text of one expression, typed token by token, so that  *)
(* the invariants are evaluated on every text over an alphabet up to a     *)
(* length, and on the longer texts of Texts.                               *)
(***************************************************************************)
EXTENDS Integers, Sequences, FiniteSets, SequencesExt
LOCAL INSTANCE Bitwise

CONSTANTS
  kMaxDepth,         \* the recursion guard shared by parser and evaluator
  Width,             \* bits of an integer
  InlineThreshold,   \* SerializeOptions::inline_threshold
  Alphabets,         \* sets of tokens to type texts from
  Texts,             \* further texts
  MaxText,           \* bound on the length of a typed text
  Known              \* what the identifiers of a typed text are bound to

MaxInt == 2^(Width - 1) - 1
MinInt == -(2^(Width - 1))

VARIABLES
  alphabet,   \* the tokens this text is typed from
  text        \* the tokens of the expression, without the closing ';'

-----------------------------------------------------------------------------
(* Values and outcomes.                                                    *)
Bool(b)    == << "bool", b >>
Integer(i) == << "int", i >>
Array(s)   == << "array", s >>
Object(s)  == << "object", s >>
Error(c)   == << "error", c >>

Failed(v) == v[1] = "error"
IsInt(v)  == v[1] = "int"

Literals == {"null", "bool", "int"}

(* Value::truthy.                                                          *)
truthy(v) ==
  CASE v[1] = "null" -> FALSE
    [] v[1] = "bool" -> v[2]
    [] v[1] = "int"  -> v[2] # 0
    [] OTHER         -> v[2] # << >>

-----------------------------------------------------------------------------
(***************************************************************************)
(* The parser.  A production takes the text, the position of the lookahead *)
(* token and the depth, and returns the tree with the position after it.   *)
(***************************************************************************)
binary_precedence(k) ==
  CASE k \in {"*", "/", "%"}        -> 11
    [] k \in {"+", "-"}             -> 10
    [] k \in {"<<", ">>"}           -> 9
    [] k \in {"<", "<=", ">", ">="} -> 8
    [] k \in {"==", "!="}           -> 7
    [] k = "&"                      -> 6
    [] k = "^"                      -> 5
    [] k = "|"                      -> 4
    [] k = "&&"                     -> 3
    [] k = "||"                     -> 2
    [] OTHER                        -> -1

UnaryOps == {"-", "!", "~"}

(* The statement's ';' follows the text, and nothing follows that.         *)
Kind(s, p) == IF p <= Len(s) THEN s[p][1]
              ELSE IF p = Len(s) + 1 THEN ";" ELSE "eof"

Ok(t, p)    == [tree |-> t, next |-> p]
Fail(c, p)  == [tree |-> Error(c), next |-> p]
Bad(r)      == Failed(r.tree)
Then(r, F(_)) == IF Bad(r) THEN r ELSE F(r)

expect(s, r, k) ==
  Then(r, LAMBDA q : IF Kind(s, q.next) = k THEN Ok(q.tree, q.next + 1)
                     ELSE Fail("bad_type", q.next))

Guarded(p, d, r) == IF d > kMaxDepth THEN Fail("depth", p) ELSE r

RECURSIVE parse_expr(_, _, _), parse_binary(_, _, _, _), Climb(_, _, _, _),
          parse_unary(_, _, _), parse_primary(_, _, _),
          Elements(_, _, _, _), Fields(_, _, _, _)

(* parse_ternary; the branches associate to the right.                     *)
parse_expr(s, p, d) ==
  Guarded(p, d,
    Then(parse_binary(s, p, 1, d), LAMBDA c :
      IF Kind(s, c.next) # "?" THEN c
      ELSE Then(expect(s, parse_expr(s, c.next + 1, d + 1), ":"), LAMBDA a :
             Then(parse_expr(s, a.next, d + 1), LAMBDA b :
               Ok(<< "ternary", c.tree, a.tree, b.tree >>, b.next)))))

parse_binary(s, p, min, d) ==
  Guarded(p, d, Climb(s, parse_unary(s, p, d + 1), min, d))

(* Mutation of Climb: the right operand may hold the same level.           *)
Climb_right(s, lhs, min, d) ==
  LET op   == Kind(s, lhs.next)
      prec == binary_precedence(op)
  IN  IF Bad(lhs) \/ prec < min THEN lhs
      ELSE Climb(s,
             Then(parse_binary(s, lhs.next + 1, prec, d + 1), LAMBDA r :
               Ok(<< "binary", op, lhs.tree, r.tree >>, r.next)), min, d)

(* The loop of parse_binary: every level associates to the left.           *)
Climb(s, lhs, min, d) ==
  LET op   == Kind(s, lhs.next)
      prec == binary_precedence(op)
  IN  IF Bad(lhs) \/ prec < min THEN lhs
      ELSE Climb(s,
             Then(parse_binary(s, lhs.next + 1, prec + 1, d + 1), LAMBDA r :
               Ok(<< "binary", op, lhs.tree, r.tree >>, r.next)), min, d)

parse_unary(s, p, d) ==
  Guarded(p, d,
    IF Kind(s, p) \in UnaryOps
      THEN Then(parse_unary(s, p + 1, d + 1), LAMBDA e :
             Ok(<< "unary", Kind(s, p), e.tree >>, e.next))
      ELSE parse_primary(s, p, d))

parse_primary(s, p, d) ==
  LET k == Kind(s, p) IN
  Guarded(p, d,
    CASE k \in Literals -> Ok(<< "literal", s[p] >>, p + 1)
      [] k = "ident"    -> Ok(s[p], p + 1)
      [] k = "("        -> expect(s, parse_expr(s, p + 1, d + 1), ")")
      [] k = "["        -> Elements(s, p + 1, d, << >>)
      [] k = "{"        -> Fields(s, p + 1, d, << >>)
      [] OTHER          -> Fail("bad_type", p))

(* Mutation of Elements: no trailing comma before the closing bracket.     *)
Elements_strict(s, p, d, es) ==
  IF Kind(s, p) = "]" /\ es = << >> THEN Ok(Array(es), p + 1)
  ELSE Then(parse_expr(s, p, d + 1), LAMBDA e :
         IF Kind(s, e.next) = ","
           THEN Elements(s, e.next + 1, d, Append(es, e.tree))
           ELSE expect(s, Ok(Array(Append(es, e.tree)), e.next), "]"))

(* parse_array, from the token after '[' or ','.                           *)
Elements(s, p, d, es) ==
  IF Kind(s, p) = "]" THEN Ok(Array(es), p + 1)
  ELSE Then(parse_expr(s, p, d + 1), LAMBDA e :
         IF Kind(s, e.next) = ","
           THEN Elements(s, e.next + 1, d, Append(es, e.tree))
           ELSE expect(s, Ok(Array(Append(es, e.tree)), e.next), "]"))

(* parse_object, from the token after '{' or ';'.                          *)
Fields(s, p, d, fs) ==
  CASE Kind(s, p) = "}" -> Ok(Object(fs), p + 1)
    [] Kind(s, p) = ";" -> Fields(s, p + 1, d, fs)
    [] Kind(s, p) = "ident" ->
         Then(expect(s, Ok(s[p], p + 1), "="), LAMBDA k :
           Then(expect(s, parse_expr(s, k.next, d + 1), ";"), LAMBDA e :
             Fields(s, e.next, d, Append(fs, << s[p][2], e.tree >>))))
    [] OTHER -> Fail("bad_type", p)

(* Lexer::lex_number: a decimal literal that does not fit is an error.     *)
OutOfRange(s) == \E i \in DOMAIN s : IsInt(s[i]) /\ s[i][2] > MaxInt

(* parse_assignment after its '=': the tree, or the error thrown.          *)
Parse(s) ==
  IF OutOfRange(s) THEN Error("bad_length")
  ELSE LET r == parse_expr(s, 1, 1) IN
       IF ~Bad(r) /\ r.next # Len(s) + 1 THEN Error("bad_type") ELSE r.tree

-----------------------------------------------------------------------------
(* The evaluator.  Casting through uint64 makes + - * and unary - wrap.    *)
Unsigned(i) == i % 2^Width
Wrap(i)     == LET u == Unsigned(i) IN IF u > MaxInt THEN u - 2^Width ELSE u

eval_arith(op, l, r) ==
  IF ~IsInt(l) \/ ~IsInt(r) THEN Error("bad_type")
  ELSE Integer(Wrap(CASE op = "+" -> l[2] + r[2]
                  [] op = "-" -> l[2] - r[2]
                  [] op = "*" -> l[2] * r[2]))

(* Division of C++: the quotient is truncated towards zero.                *)
Abs(i) == IF i < 0 THEN -i ELSE i
Quotient(x, y) == LET q == Abs(x) \div Abs(y) IN IF (x < 0) = (y < 0) THEN q ELSE -q

eval_div_mod(op, l, r) ==
  CASE ~IsInt(l) \/ ~IsInt(r) -> Error("bad_type")
    [] OTHER ->
       CASE r[2] = 0 -> Error("state")
         [] r[2] = -1 /\ l[2] = MinInt -> Integer(IF op = "/" THEN MinInt ELSE 0)
         [] OTHER -> Integer(IF op = "/" THEN Quotient(l[2], r[2])
                         ELSE l[2] - r[2] * Quotient(l[2], r[2]))

Shift(op, l, r) ==
  CASE ~IsInt(l) \/ ~IsInt(r) -> Error("bad_type")
    [] OTHER ->
       CASE r[2] < 0 \/ r[2] > Width - 1 -> Error("state")
         [] op = "<<" -> Integer(Wrap(Unsigned(l[2]) * 2^r[2]))
         [] OTHER     -> Integer(l[2] \div 2^r[2])

BitOp(op, l, r) ==
  IF ~IsInt(l) \/ ~IsInt(r) THEN Error("bad_type")
  ELSE LET x == Unsigned(l[2])
           y == Unsigned(r[2])
       IN  Integer(Wrap(CASE op = "&" -> x & y
                      [] op = "|" -> x | y
                      [] op = "^" -> x ^^ y))

Compare(op, l, r) ==
  CASE op = "==" -> Bool(l = r)
    [] op = "!=" -> Bool(l # r)
    [] ~IsInt(l) \/ ~IsInt(r) -> Error("bad_type")
    [] OTHER -> Bool(CASE op = "<"  -> l[2] < r[2]
                       [] op = "<=" -> l[2] <= r[2]
                       [] op = ">"  -> l[2] > r[2]
                       [] op = ">=" -> l[2] >= r[2])

Binary(op, l, r) ==
  CASE op \in {"+", "-", "*"} -> eval_arith(op, l, r)
    [] op \in {"/", "%"}      -> eval_div_mod(op, l, r)
    [] op \in {"<<", ">>"}    -> Shift(op, l, r)
    [] op \in {"&", "^", "|"} -> BitOp(op, l, r)
    [] OTHER                  -> Compare(op, l, r)

Unary(op, v) ==
  CASE op = "!"  -> Bool(~truthy(v))
    [] ~IsInt(v) -> Error("bad_type")
    [] OTHER     -> Integer(Wrap(IF op = "-" THEN -v[2] ELSE -v[2] - 1))

(* The error of the first part that has one, otherwise v.                  *)
FirstError(parts, v) ==
  LET bad == {i \in DOMAIN parts : Failed(parts[i])}
  IN  IF bad = {} THEN v ELSE parts[CHOOSE i \in bad : \A j \in bad : i <= j]

RECURSIVE evaluate(_, _, _)

(* Mutation of Logical: the right operand is evaluated whatever the left.  *)
Logical_strict(e, env, d) ==
  LET l == evaluate(e[3], env, d + 1)
      r == evaluate(e[4], env, d + 1)
  IN  FirstError(<< l, r >>,
        Bool(IF e[2] = "&&" THEN truthy(l) /\ truthy(r) ELSE truthy(l) \/ truthy(r)))

(* && and || evaluate the right operand only when the left does not decide.*)
Logical(e, env, d) ==
  LET l == evaluate(e[3], env, d + 1) IN
  IF Failed(l) THEN l
  ELSE IF truthy(l) = (e[2] = "||") THEN Bool(truthy(l))
  ELSE LET r == evaluate(e[4], env, d + 1) IN
       IF Failed(r) THEN r ELSE Bool(truthy(r))

evaluate(e, env, d) ==
  LET Sub(x) == evaluate(x, env, d + 1) IN
  IF d > kMaxDepth THEN Error("depth")
  ELSE CASE e[1] = "literal" -> e[2]
         [] e[1] = "ident" ->
              IF e[2] \in DOMAIN env THEN env[e[2]] ELSE Error("state")
         [] e[1] = "array" ->
              LET vs == [i \in DOMAIN e[2] |-> Sub(e[2][i])]
              IN  FirstError(vs, Array(vs))
         [] e[1] = "object" ->
              LET vs == [i \in DOMAIN e[2] |-> Sub(e[2][i][2])]
              IN  FirstError(vs, Object([i \in DOMAIN vs |-> << e[2][i][1], vs[i] >>]))
         [] e[1] = "unary" ->
              LET v == Sub(e[3]) IN IF Failed(v) THEN v ELSE Unary(e[2], v)
         [] e[1] = "ternary" ->
              LET c == Sub(e[2])
              IN  IF Failed(c) THEN c ELSE IF truthy(c) THEN Sub(e[3]) ELSE Sub(e[4])
         [] e[1] = "binary" /\ e[2] \in {"&&", "||"} -> Logical(e, env, d)
         [] OTHER ->
              LET l == Sub(e[3])
                  r == Sub(e[4])
              IN  IF Failed(l) THEN l ELSE IF Failed(r) THEN r ELSE Binary(e[2], l, r)

(* A statement's right-hand side: parsed, then evaluated from depth 1.     *)
Outcome(s, env) ==
  LET e == Parse(s) IN IF Failed(e) THEN e ELSE evaluate(e, env, 1)

-----------------------------------------------------------------------------
(* render_value: a negative integer is printed with its sign, and a long   *)
(* array over several lines, with a comma after every element.             *)
RECURSIVE render_value(_)
render_value(v) ==
  CASE v[1] \in {"null", "bool"} -> << v >>
    [] v[1] = "int" ->
         IF v[2] < 0 THEN << << "-" >>, Integer(-v[2]) >> ELSE << v >>
    [] v[1] = "array" ->
         LET Item(i) == render_value(v[2][i]) \o
                          (IF i < Len(v[2]) \/ Len(v[2]) > InlineThreshold
                             THEN << << "," >> >> ELSE << >>)
         IN  << << "[" >> >> \o FlattenSeq([i \in DOMAIN v[2] |-> Item(i)])
                             \o << << "]" >> >>
    [] v[1] = "object" ->
         LET Field(i) == << << "ident", v[2][i][1] >>, << "=" >> >> \o
                         render_value(v[2][i][2]) \o << << ";" >> >>
         IN  << << "{" >> >> \o FlattenSeq([i \in DOMAIN v[2] |-> Field(i)])
                             \o << << "}" >> >>

-----------------------------------------------------------------------------
Init ==
  \/ alphabet \in Alphabets /\ text = << >>
  \/ alphabet = {} /\ text \in Texts

type_token(t) ==
  /\ Len(text) < MaxText
  /\ text' = Append(text, t)
  /\ UNCHANGED alphabet

Next == \E t \in alphabet : type_token(t)

Spec == Init /\ [][Next]_<< alphabet, text >>

-----------------------------------------------------------------------------
(***************************************************************************)
(* The reference grammar of parser.hpp, by splitting a text instead of     *)
(* reading it from left to right: the set of all trees a text derives.     *)
(***************************************************************************)
Before(s, i) == SubSeq(s, 1, i - 1)
After(s, i)  == SubSeq(s, i + 1, Len(s))
Inside(s)    == SubSeq(s, 2, Len(s) - 1)
Enclosed(s, a, b) == Len(s) >= 2 /\ s[1][1] = a /\ s[Len(s)][1] = b

RECURSIVE ExprTrees(_), LevelTrees(_, _), UnaryTrees(_), ElementTrees(_), FieldTrees(_)

ExprTrees(s) ==
  LevelTrees(s, 2) \cup
  UNION {{<< "ternary", c, a, b >> :
            c \in LevelTrees(Before(s, i), 2),
            a \in ExprTrees(SubSeq(s, i + 1, j - 1)),
            b \in ExprTrees(After(s, j))} :
         << i, j >> \in {ij \in (DOMAIN s) \X (DOMAIN s) :
                          ij[1] < ij[2] /\ s[ij[1]][1] = "?" /\ s[ij[2]][1] = ":"}}

(* level := next_level (op next_level)*, associating to the left.          *)
LevelTrees(s, prec) ==
  IF prec > 11 THEN UnaryTrees(s)
  ELSE LevelTrees(s, prec + 1) \cup
       UNION {{<< "binary", s[i][1], l, r >> :
                 l \in LevelTrees(Before(s, i), prec),
                 r \in LevelTrees(After(s, i), prec + 1)} :
              i \in {j \in DOMAIN s : binary_precedence(s[j][1]) = prec}}

UnaryTrees(s) ==
  CASE s = << >> -> {}
    [] s # << >> /\ s[1][1] \in UnaryOps ->
         {<< "unary", s[1][1], e >> : e \in UnaryTrees(Tail(s))}
    [] Len(s) = 1 /\ s[1][1] \in Literals -> {<< "literal", s[1] >>}
    [] Len(s) = 1 /\ s[1][1] = "ident" -> {s[1]}
    [] Enclosed(s, "(", ")") -> ExprTrees(Inside(s))
    [] Enclosed(s, "[", "]") -> {Array(es) : es \in ElementTrees(Inside(s))}
    [] Enclosed(s, "{", "}") -> {Object(fs) : fs \in FieldTrees(Inside(s))}
    [] OTHER -> {}

ElementTrees(s) ==
  IF s = << >> THEN {<< >>}
  ELSE {<< e >> : e \in ExprTrees(s)} \cup
       UNION {{<< e >> \o es : e \in ExprTrees(Before(s, i)),
                               es \in ElementTrees(After(s, i))} :
              i \in {j \in DOMAIN s : s[j][1] = ","}}

FieldTrees(s) ==
  IF s = << >> THEN {<< >>}
  ELSE (IF s[1][1] = ";" THEN FieldTrees(Tail(s)) ELSE {}) \cup
       UNION {{<< << s[1][2], e >> >> \o fs : e \in ExprTrees(SubSeq(s, 3, i - 1)),
                                            fs \in FieldTrees(After(s, i))} :
              i \in {j \in DOMAIN s : /\ j > 3 /\ s[j][1] = ";"
                                      /\ s[1][1] = "ident" /\ s[2][1] = "="}}

(***************************************************************************)
(* Precedence climbing computes the grammar: a text that is accepted has   *)
(* exactly one tree, the one returned, and a text rejected for its syntax  *)
(* has none.                                                               *)
(***************************************************************************)
ParseExact ==
  LET t == Parse(text) IN
  /\ ~Failed(t) => ExprTrees(text) = {t}
  /\ t = Error("bad_type") => ExprTrees(text) = {}

(***************************************************************************)
(* What each integer operator computes, by the laws that define it: the    *)
(* result fits the width (the quotient of the least integer by -1          *)
(* included), + - * << agree with the unbounded result modulo 2^Width,     *)
(* quotient and remainder recompose the dividend, and & | ^ add up.        *)
(***************************************************************************)
Congruent(x, y) == (x - y) % 2^Width = 0

IntLaw(op, x, y, v) ==
  LET Of(o) == Binary(o, Integer(x), Integer(y))[2] IN
  /\ IsInt(v) => v[2] \in MinInt..MaxInt
  /\ op = "+" => Congruent(v[2], x + y)
  /\ op = "-" => Congruent(v[2], x - y)
  /\ op = "*" => Congruent(v[2], x * y)
  /\ op \in {"/", "%"} =>
       IF y = 0 THEN v = Error("state")
       ELSE /\ Congruent(Of("/") * y + Of("%"), x)
            /\ Abs(Of("%")) < Abs(y)
            /\ Of("%") * x >= 0
  /\ op \in {"<<", ">>"} =>
       IF y \notin 0..(Width - 1) THEN v = Error("state")
       ELSE IF op = "<<" THEN Congruent(v[2], x * 2^y)
       ELSE v[2] * 2^y <= x /\ x < (v[2] + 1) * 2^y
  /\ op \in {"&", "^", "|"} =>
       /\ Congruent(x + y, Of("^") + 2 * Of("&"))
       /\ Congruent(Of("|"), Of("^") + Of("&"))

ArithmeticLaws ==
  LET t == Parse(text) IN
  t[1] = "binary" /\ t[2] \notin {"&&", "||"} =>
    LET l == evaluate(t[3], Known, 1)
        r == evaluate(t[4], Known, 1)
    IN  IsInt(l) /\ IsInt(r) => IntLaw(t[2], l[2], r[2], Binary(t[2], l, r))

(***************************************************************************)
(* && and || are lazy: an operand the left one makes irrelevant is not     *)
(* evaluated, so its error (a division by zero, an unknown name) does not  *)
(* fail the document.  Stated as the equivalence with the ternary and as   *)
(* De Morgan's law, errors included (the depth guard is kept out of reach).*)
(***************************************************************************)
Truth(b)   == << "literal", Bool(b) >>
Negated(e) == << "unary", "!", e >>

LazyLogic ==
  LET t == Parse(text)
      V(e) == evaluate(e, Known, -2 * Len(text))
  IN  t[1] = "binary" /\ t[2] \in {"&&", "||"} =>
        LET l    == t[3]
            r    == t[4]
            rest == << "ternary", r, Truth(TRUE), Truth(FALSE) >>
            dual == IF t[2] = "&&" THEN "||" ELSE "&&"
        IN  /\ V(t) = V(IF t[2] = "&&" THEN << "ternary", l, rest, Truth(FALSE) >>
                                       ELSE << "ternary", l, Truth(TRUE), rest >>)
            /\ V(Negated(t)) = V(<< "binary", dual, Negated(l), Negated(r) >>)

(***************************************************************************)
(* The parser's recursion guard covers the evaluator's, except for one     *)
(* shape: a chain of left-associative operators costs the parser's loop no *)
(* depth and the evaluator one level per operator.  So an expression that  *)
(* parses and is then rejected for its depth contains such a chain.        *)
(***************************************************************************)
RECURSIVE HasChain(_)
HasChain(t) ==
  CASE t[1] = "unary"   -> HasChain(t[3])
    [] t[1] = "binary"  -> t[3][1] = "binary" \/ HasChain(t[3]) \/ HasChain(t[4])
    [] t[1] = "ternary" -> HasChain(t[2]) \/ HasChain(t[3]) \/ HasChain(t[4])
    [] t[1] = "array"   -> \E i \in DOMAIN t[2] : HasChain(t[2][i])
    [] t[1] = "object"  -> \E i \in DOMAIN t[2] : HasChain(t[2][i][2])
    [] OTHER            -> FALSE

DepthGuardsAgree ==
  Outcome(text, Known) = Error("depth") /\ ~Failed(Parse(text)) => HasChain(Parse(text))

(***************************************************************************)
(* evaluate() by its laws: arithmetic, lazy operators, and a depth guard   *)
(* that strikes after parsing only in left-associative chains.             *)
(***************************************************************************)
EvaluateExact == ArithmeticLaws /\ LazyLogic /\ DepthGuardsAgree
=============================================================================
