------------------------------- MODULE MCPool -------------------------------
(***************************************************************************)
(* RoutePool for TLC: three pairs on two addresses, the primary not among  *)
(* the configured combinations.                                            *)
(***************************************************************************)
EXTENDS RoutePool, TLC

CONSTANTS p0, p1, p2, i1, i2

MCPairs == {p0, p1, p2}
MCIpOf == p0 :> i1 @@ p1 :> i1 @@ p2 :> i2
ConnSymmetry == Permutations(Conns)
=============================================================================
