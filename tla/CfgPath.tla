------------------------------- MODULE CfgPath -------------------------------
(***************************************************************************)
(* Paths as text: the tokenizer of query() (query.cpp), and the keys that  *)
(* flatten() writes (flatten.cpp), which are meant to be such paths.       *)
(*                                                                         *)
(* A text is a sequence of ASCII codes, positions count from 1.            *)
(***************************************************************************)
EXTENDS Integers, Sequences, SequencesExt, FiniteSetsExt

CONSTANT kSizeBits    \* bits of std::size_t, 64 in the code

ASSUME CfgPathAssumption == kSizeBits \in Nat \ {0}

PathDot   == 46
OpenIndex == 91
EndIndex  == 93
PathDigit == 48 .. 57

Name(text_) == [is_index |-> FALSE, name |-> text_, index |-> 0]
Index(n)    == [is_index |-> TRUE, name |-> << >>, index |-> n]

Steps(ok_, out) == [ok |-> ok_, out |-> out]

(* The first position from i on whose byte is in the set, or one past the  *)
(* end.                                                                    *)
Until(path, i, stop) ==
  CHOOSE n \in i .. (Len(path) + 1) :
    /\ n = Len(path) + 1 \/ path[n] \in stop
    /\ \A k \in i .. (n - 1) : path[k] \notin stop

(* A size_t that takes one digit more; it wraps.                           *)
Digit(value, c) == (value * 10 + (c - 48)) % 2 ^ kSizeBits

(* The loop of tokenize, at i with `out' read.                             *)
RECURSIVE TokenizeFrom(_, _, _)
TokenizeFrom(path, i, out) ==
  LET dot  == i <= Len(path) /\ path[i] = PathDot
      j    == IF dot THEN i + 1 ELSE i
      dend == Until(path, j + 1, 0 .. 255 \ PathDigit)
      nend == Until(path, j, {PathDot, OpenIndex})
      index == FoldLeft(Digit, 0, SubSeq(path, j + 1, dend - 1))
  IN  IF i > Len(path) THEN Steps(TRUE, out)
      ELSE IF dot /\ (out = << >> \/ j > Len(path)) THEN Steps(FALSE, out)
      ELSE IF path[j] = OpenIndex
        THEN IF out = << >> \/ dend = j + 1 \/ dend > Len(path) \/ path[dend] # EndIndex
               THEN Steps(FALSE, out)
               ELSE TokenizeFrom(path, dend + 1, Append(out, Index(index)))
      ELSE IF nend = j THEN Steps(FALSE, out)
      ELSE TokenizeFrom(path, nend, Append(out, Name(SubSeq(path, j, nend - 1))))

tokenize(path) == TokenizeFrom(path, 1, << >>)

join_path(prefix, leaf) ==
  IF prefix = << >> THEN leaf ELSE Append(prefix, PathDot) \o leaf

RECURSIVE Decimal(_)
Decimal(n) == IF n < 10 THEN << 48 + n >> ELSE Append(Decimal(n \div 10), 48 + (n % 10))

join_index(prefix, index) ==
  prefix \o << OpenIndex >> \o Decimal(index) \o << EndIndex >>

(* The key that flatten() writes for a leaf behind these steps.            *)
KeyOf(steps) ==
  FoldLeft(LAMBDA prefix, step : IF step.is_index THEN join_index(prefix, step.index)
                                                  ELSE join_path(prefix, step.name),
           << >>, steps)

-----------------------------------------------------------------------------
IsName(w) == w # << >> /\ ToSet(w) \cap {PathDot, OpenIndex} = {}

IsIndex(w) ==
  /\ Len(w) >= 3 /\ w[1] = OpenIndex /\ Last(w) = EndIndex
  /\ \A i \in 2 .. (Len(w) - 1) : w[i] \in PathDigit

IndexOf(w) ==
  FoldLeft(LAMBDA sum, i : sum + (w[i] - 48) * 10 ^ (Len(w) - 1 - i), 0,
           [k \in 1 .. (Len(w) - 2) |-> k + 1]) % 2 ^ kSizeBits

(* The ways to read w as what follows a path that ends in `prev'.  A dot   *)
(* is needed between two names, and allowed before any later step.         *)
RECURSIVE Readings(_, _)
Readings(w, prev) ==
  IF w = << >> THEN {<< >>}
  ELSE UNION { LET dotted == w[1] = PathDot
                   piece  == SubSeq(w, IF dotted THEN 2 ELSE 1, n)
                   step   == IF IsIndex(piece) THEN Index(IndexOf(piece)) ELSE Name(piece)
                   legal  == /\ IsName(piece) \/ IsIndex(piece)
                             /\ prev = "nothing" => IsName(piece) /\ ~dotted
                             /\ prev = "name" /\ IsName(piece) => dotted
               IN  IF ~legal THEN {}
                   ELSE { << step >> \o rest : rest \in
                            Readings(SubSeq(w, n + 1, Len(w)),
                                     IF IsIndex(piece) THEN "index" ELSE "name") }
             : n \in 1 .. Len(w) }

(***************************************************************************)
(* tokenize reads a path exactly when the grammar does, and as the grammar *)
(* does, an index modulo 2^64; and the key that flatten() writes for the   *)
(* steps of any path is read back as those steps.                          *)
(***************************************************************************)
PathExact(path) ==
  LET t == tokenize(path) IN
  /\ t.ok => Readings(path, "nothing") = {t.out}
  /\ ~t.ok => Readings(path, "nothing") = {}
  /\ t.ok => tokenize(KeyOf(t.out)) = t
=============================================================================
