---------------------------- MODULE MCMemoryCache ----------------------------
(***************************************************************************)
(* Instances of MemoryCache for TLC.  Every instance has a budget of three *)
(* tokens and requests of which some fit together and some do not.         *)
(***************************************************************************)
EXTENDS MemoryCache

CONSTANTS r1, r2, r3

\* Sizes 2, 2, 1: r1 and r2 compete, r3 fits beside either.
TokensCompeting == r1 :> 2 @@ r2 :> 2 @@ r3 :> 1
\* r3 can never be served.
TokensOversized == r1 :> 2 @@ r2 :> 2 @@ r3 :> 4

TimeoutsUnbounded == r1 :> "none" @@ r2 :> "none" @@ r3 :> "zero"
TimeoutsFinite == r1 :> "finite" @@ r2 :> "finite" @@ r3 :> "none"

OneHandler == [r \in Reqs |-> 1]
TwoHandlers == r1 :> 1 @@ r2 :> 2 @@ r3 :> 1
=============================================================================
