-------------------------- MODULE MCInferenceSession --------------------------
(* Small instances of InferenceSession for TLC. *)
EXTENDS InferenceSession
=============================================================================
