---------------------------- MODULE MC_CfgScript ----------------------------
(* Instance of CfgSchema and CfgScript for TLC.                            *)
EXTENDS CfgSchema

one     == Integer(1)
Id(n)   == << "ident", n >>
P(k)    == << k >>

(* One alphabet for the shape of expressions, one for what they compute:   *)
(* "m" is the least integer and "u" is unbound.                            *)
mcAlphabets ==
  {{one, Id("u"), P("-"), P("*"), P("||"), P("&&"), P("?"), P(":"), P("("), P(")")},
   {one, Id("m"), P("-"), P("/"), P("%"), P("<<"), P(">>"), P("&"), P("["), P("]")}}

mcKnown == [n \in {"m"} |-> Integer(MinInt)]

(* Longer texts: a left-associative chain past the depth guard, a run of   *)
(* unary operators, nested ternaries, and aggregates.                      *)
Chain == << one, P("-"), one, P("-"), one, P("-"), one, P("-"), one, P("-"), one >>
Signs == << P("-"), P("-"), P("-"), P("-"), P("-"), one >>
Choice == << one, P("?"), one, P(":"), one, P("?"), one, P(":"), one, P("<"), one >>
Fields2 == << P("{"), Id("a"), P("="), one, P(";"), P(";"),
              Id("b"), P("="), P("!"), one, P(";"), P("}") >>
Trailing == << P("["), one, P(","), one, P(","), P("]") >>

mcTexts == {<< >>, Chain, Signs, Choice, Fields2, Trailing}

mcPaths == {<< "a" >>, << "s", "b" >>}

(* The largest literal, the least integer, an array and an object of references.     *)
mcRhs == {<< Integer(MaxInt) >>,
          << P("-"), Integer(MaxInt), P("-"), one >>,
          << P("["), Id("a"), P(","), one, P("]") >>,
          << P("{"), Id("a"), P("="), Id("b"), P(";"), P("}") >>}

(* With one significant bit the doubles are 0, 1, 2, 4: 3 becomes 4.       *)
mcSchemas ==
  LET a  == << Name("a") >>
      sb == << Name("s"), Name("b") >>
      b1 == << Name("s"), Name("b"), At(1) >>
  IN  { range(require(<< >>, a, "int"), 1, 2),
        min(require(optional(<< >>, sb, "array"), a, "float"), 4),
        max(optional(require(min(<< >>, 1), << Name("s") >>, "object"), b1, "int"), 1) }

mcHeaders == {<< "s", NoLabel >>, << "s", 0 >>}
=============================================================================
