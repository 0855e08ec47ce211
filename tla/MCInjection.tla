----------------------------- MODULE MCInjection -----------------------------
(***************************************************************************)
(* FakeInjection for TLC.                                                  *)
(***************************************************************************)
EXTENDS FakeInjection, TLC

ConnSymmetry == Permutations(Conns)
=============================================================================
