------------------------------ MODULE CfgSchema ------------------------------
(***************************************************************************)
(* Schema validation of a document (schema.hpp, schema.cpp).               *)
(*                                                                         *)
(* A bound is a double and an integer is converted to one before it is     *)
(* compared, so the conversion is modelled: a double holds Mantissa        *)
(* significant bits, and an integer that needs more is rounded.  Strings,  *)
(* and with them the set of allowed values, are not modelled.              *)
(***************************************************************************)
EXTENDS CfgScript

CONSTANTS
  Mantissa,   \* significant bits of a double, 53 in the code
  Schemas     \* the schemas that documents are held against

ASSUME CfgSchemaAssumption == Mantissa \in Nat \ {0}

-----------------------------------------------------------------------------
(* The builder: a rule is added, then bounds are attached to the last one. *)
FieldRule(path, type, required) ==
  [path |-> path, type |-> type, required |-> required,
   has_min |-> FALSE, min_value |-> 0, has_max |-> FALSE, max_value |-> 0]

require(rules, path, type)  == Append(rules, FieldRule(path, type, TRUE))
optional(rules, path, type) == Append(rules, FieldRule(path, type, FALSE))

min(rules, value) ==
  IF rules = << >> THEN rules
  ELSE [rules EXCEPT ![Len(rules)].has_min = TRUE, ![Len(rules)].min_value = value]

max(rules, value) ==
  IF rules = << >> THEN rules
  ELSE [rules EXCEPT ![Len(rules)].has_max = TRUE, ![Len(rules)].max_value = value]

range(rules, low, high) == max(min(rules, low), high)

-----------------------------------------------------------------------------
(* A rule for a float takes an integer too.                                *)
type_matches(v, expected) == v[1] = expected \/ (expected = "float" /\ IsInt(v))

(* static_cast<double> of an integer: to the nearest number of Mantissa    *)
(* significant bits, to the one with an even last bit when two are near.   *)
as_double(i) ==
  LET n    == IF i < 0 THEN -i ELSE i
      ulp  == 2 ^ (CHOOSE e \in 0 .. Width : /\ n < 2 ^ (Mantissa + e)
                                             /\ e = 0 \/ n >= 2 ^ (Mantissa + e - 1))
      down == n \div ulp
      up   == \/ 2 * (n % ulp) > ulp
              \/ 2 * (n % ulp) = ulp /\ down % 2 = 1
      near == ulp * (IF up THEN down + 1 ELSE down)
  IN  IF i < 0 THEN -near ELSE near

Offence(kind, path) == << [kind |-> kind, path |-> path] >>

Unless(ok, violations) == IF ok THEN << >> ELSE violations

(* Mutation of check_range: the bounds exclude themselves.                 *)
check_range_strict(rule, v) ==
  IF ~IsInt(v) THEN << >>
  ELSE Unless(~(rule.has_min /\ as_double(v[2]) <= rule.min_value),
              Offence("kBelowMinimum", rule.path))
         \o Unless(~(rule.has_max /\ as_double(v[2]) >= rule.max_value),
                   Offence("kAboveMaximum", rule.path))

check_range(rule, v) ==
  IF ~IsInt(v) THEN << >>
  ELSE Unless(~(rule.has_min /\ as_double(v[2]) < rule.min_value),
              Offence("kBelowMinimum", rule.path))
         \o Unless(~(rule.has_max /\ as_double(v[2]) > rule.max_value),
                   Offence("kAboveMaximum", rule.path))

(* A wrong type makes the bounds meaningless; they are skipped.            *)
check_rule(nodes, rule) ==
  LET v == query(nodes, rule.path) IN
  CASE v = Absent -> Unless(~rule.required, Offence("kMissingRequired", rule.path))
    [] v # Absent /\ ~type_matches(v, rule.type) -> Offence("kTypeMismatch", rule.path)
    [] OTHER -> check_range(rule, v)

validate(nodes, rules) ==
  FlattenSeq([i \in DOMAIN rules |-> check_rule(nodes, rules[i])])

-----------------------------------------------------------------------------
(* What a rule asks for, in terms of the flat list of the document and of  *)
(* integers as they are.                                                   *)
LeavesAt(nodes, path) == {e \in Range(Leaves(nodes)) : IsPrefix(path, e[1])}

ScalarAt(nodes, path) == {e \in LeavesAt(nodes, path) : e[1] = path}

OutOfBounds(rule, i) ==
  \/ rule.has_min /\ i < rule.min_value
  \/ rule.has_max /\ i > rule.max_value

Meets(nodes, rule) ==
  LET scalars == ScalarAt(nodes, rule.path)
      deeper  == LeavesAt(nodes, rule.path) \ scalars
  IN  IF LeavesAt(nodes, rule.path) = {} THEN ~rule.required
      ELSE CASE rule.type \in {"int", "float"} ->
                  /\ deeper = {}
                  /\ \A e \in scalars : IsInt(e[2]) /\ ~OutOfBounds(rule, e[2][2])
             [] rule.type = "array" ->
                  \/ \E e \in scalars : e[2][1] = "array"
                  \/ \E e \in deeper : e[1][Len(rule.path) + 1][1] = "at"
             [] rule.type = "object" ->
                  \/ \E e \in scalars : e[2][1] = "object"
                  \/ \E e \in deeper : e[1][Len(rule.path) + 1][1] = "name"

(* A bound that the conversion moves an integer onto hides the offence.    *)
Hidden(nodes, rule) ==
  \E e \in ScalarAt(nodes, rule.path) :
    /\ IsInt(e[2]) /\ as_double(e[2][2]) # e[2][2]
    /\ as_double(e[2][2]) \in {rule.min_value, rule.max_value}

(* A path that ends at a block, or in the middle of a dotted one, has      *)
(* leaves below it and no value.                                           *)
StopsShort(nodes, rule) ==
  LeavesAt(nodes, rule.path) # {} /\ query(nodes, rule.path) = Absent

(***************************************************************************)
(* validate() against the document as flatten() lists it, when no path is  *)
(* assigned twice: no rule that the document meets is reported, and every  *)
(* rule it breaks is, unless the offending integer is rounded onto the     *)
(* bound by its conversion to double, or the path stops short of a value,  *)
(* which counts as absent.  The report follows the order of the rules.     *)
(***************************************************************************)
SchemaHonest ==
  Finished /\ Unambiguous(Document) =>
    \A rules \in Schemas :
      LET Reported(i) == check_rule(Document, rules[i]) # << >>
          places == [k \in DOMAIN validate(Document, rules) |->
                       CHOOSE i \in DOMAIN rules :
                         rules[i].path = validate(Document, rules)[k].path]
      IN  /\ \A i \in DOMAIN rules :
               IF StopsShort(Document, rules[i]) THEN Reported(i) <=> rules[i].required
               ELSE /\ Reported(i) => ~Meets(Document, rules[i])
                    /\ ~Reported(i) => \/ Meets(Document, rules[i])
                                       \/ Hidden(Document, rules[i])
          /\ \A j, k \in DOMAIN places : j < k => places[j] <= places[k]
=============================================================================
