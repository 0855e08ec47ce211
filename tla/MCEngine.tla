------------------------------ MODULE MCEngine ------------------------------
(***************************************************************************)
(* EngineLifecycle for TLC: starts are interchangeable, so the safety runs *)
(* take one representative of each permutation of them.                    *)
(***************************************************************************)
EXTENDS EngineLifecycle, TLC

StartSymmetry == Permutations(Starts)
=============================================================================
