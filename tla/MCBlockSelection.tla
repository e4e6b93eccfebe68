-------------------------- MODULE MCBlockSelection -------------------------
(* BlockSelection on small instances.                                      *)
EXTENDS BlockSelection

CONSTANTS p1, p2, p3

MCThroughput == (p1 :> 2000) @@ (p2 :> 2000) @@ (p3 :> 1000)
MCLength == (p1 :> 2) @@ (p2 :> 1) @@ (p3 :> 2)
===========================================================================
