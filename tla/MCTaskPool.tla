----------------------------- MODULE MCTaskPool -----------------------------
(* TaskPool on a small instance: a pool of inference steps and a less      *)
(* urgent one of forward passes.                                           *)
EXTENDS TaskPool, TLC

CONSTANTS inference, forward

MCPriority == inference :> 1 @@ forward :> 2
===========================================================================
