------------------------------ MODULE MCPagedKV ------------------------------
(* Instance of PagedKV for TLC: two sequences compete for three pages of two *)
(* tokens, so that writes cross pages and run out of them.                   *)
EXTENDS PagedKV, TLC
CONSTANTS s1, s2
Symmetry == Permutations({s1, s2})
=============================================================================
