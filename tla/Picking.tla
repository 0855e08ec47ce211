------------------------------- MODULE Picking -------------------------------
(***************************************************************************)
(* The elements of a list at some of its indexes, in the list's own order: *)
(* what a comprehension over enumerate(...) with a filter returns.         *)
(***************************************************************************)
EXTENDS Integers, Sequences, FiniteSets

\* The indexes in I, from the lowest to the highest.
InOrder(I) ==
  LET ks == 1..Cardinality(I)
  IN CHOOSE f \in [ks -> I] : \A j, k \in ks : j < k => f[j] < f[k]

Pick(s, I) == LET at == InOrder(I) IN [k \in 1..Cardinality(I) |-> s[at[k]]]
=============================================================================
