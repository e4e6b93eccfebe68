------------------------ MODULE MCInferenceHandler ------------------------
(* InferenceHandler on small instances.                                *)
EXTENDS InferenceHandler, TLC
===========================================================================
