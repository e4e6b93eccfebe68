----------------------- MODULE MCSequentialAutograd ------------------------
(* SequentialAutograd on a small instance.                                 *)
EXTENDS SequentialAutograd
===========================================================================
