------------------------- MODULE MCSequenceManager -------------------------
(* SequenceManager on small instances: three blocks and two spans that     *)
(* overlap, so that one server alone leaves a gap.                         *)
EXTENDS SequenceManager, TLC

CONSTANTS p1, p2, c1

MCOverlapping == {<<0, 2>>, <<1, 3>>}
===========================================================================
