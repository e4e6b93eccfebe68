------------------------------- MODULE Spans -------------------------------
(***************************************************************************)
(* Records of the swarm and the spans computed from them (compute_spans in *)
(* src/bloombee/utils/dht.py).  A record is what one server declared for   *)
(* one block: its state and the first and one-past-last block of its span. *)
(* Blocks are numbered from 0.                                             *)
(***************************************************************************)
EXTENDS Integers, FiniteSets

CONSTANTS
    Peers,       \* servers, in the order of their peer ids
    NumBlocks    \* blocks of the model

ASSUME SpansAssumption == NumBlocks \in Nat \ {0}

Blocks == 0..(NumBlocks - 1)

(* ServerState values; a peer without a record for a block is Absent. *)
OFFLINE == 0
JOINING == 1
ONLINE == 2

Absent == [state |-> -1, start |-> 0, end |-> 0]
Records ==
    [state : {OFFLINE, JOINING, ONLINE}, start : Blocks, end : 1..NumBlocks] \cup {Absent}

NoSpan == [start |-> 0, end |-> 0, state |-> -1]

SetMax(S) == CHOOSE x \in S : \A y \in S : y <= x
SetMin(S) == CHOOSE x \in S : \A y \in S : x <= y

(* The loop over the blocks keeps, per peer, the first record of its       *)
(* highest state and stretches its end over later records of that state.   *)
SpanOf(infos, p, minState) ==
    LET found == {b \in Blocks : infos[b][p].state >= minState}
        top == SetMax({infos[b][p].state : b \in found})
        same == {b \in found : infos[b][p].state = top}
        first == infos[SetMin(same)][p]
    IN  IF found = {} THEN NoSpan
        ELSE [start |-> first.start,
              end |-> SetMax({first.end} \cup {b + 1 : b \in same \ {SetMin(same)}}),
              state |-> top]

compute_spans(infos, minState) == [p \in Peers |-> SpanOf(infos, p, minState)]

Covers(s, b) == s.start <= b /\ b < s.end
===========================================================================
