----------------------------- MODULE MCPushFlow -----------------------------
(* PushFlow on small instances.                                            *)
EXTENDS PushFlow, TLC
===========================================================================
