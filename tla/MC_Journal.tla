----------------------------- MODULE MC_Journal -----------------------------
(***************************************************************************)
(* Every journal of up to five entries over two keys and two record        *)
(* values, one of them undecodable, on every seed store.  Five entries     *)
(* hold a nested BEGIN, two transactions, or a transaction that writes a   *)
(* key twice between auto-commits.                                         *)
(***************************************************************************)
EXTENDS Journal, TLC

CONSTANTS k1, k2, v1, bad

MCKeys      == {k1, k2}
MCValues    == {v1, bad}
MCBadValues == {bad}

(* Nothing tells one key from another.                                     *)
KeySymmetry == Permutations(MCKeys)
=============================================================================
