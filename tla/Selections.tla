----------------------------- MODULE Selections -----------------------------
(***************************************************************************)
(* Filters of lists, as the program's list comprehensions: stated by the    *)
(* indices that stay, so that a proof can count and type what is left.      *)
(***************************************************************************)
EXTENDS Integers, Sequences, FiniteSets

(* The elements of s at the indices of I, in their order. *)
AtIndices(s, I) ==
  [k \in 1..Cardinality(I) |->
     s[CHOOSE i \in I : Cardinality({j \in I : j <= i}) = k]]

(* The elements of s that pass a test, in their order. *)
Where(s, passes(_)) == AtIndices(s, {i \in DOMAIN s : passes(s[i])})
=============================================================================
