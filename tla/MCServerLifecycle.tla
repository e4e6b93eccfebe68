------------------------- MODULE MCServerLifecycle -------------------------
(* ServerLifecycle on small instances: two overlapping spans.              *)
EXTENDS ServerLifecycle

MCBlocks == 1..3
MCSpans == {{1, 2}, {2, 3}}
===========================================================================
