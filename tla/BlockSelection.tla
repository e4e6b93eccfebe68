--------------------------- MODULE BlockSelection --------------------------
(***************************************************************************)
(* How servers choose the blocks they serve and when they move             *)
(* (src/bloombee/server/block_selection.py, called by _choose_blocks and   *)
(* _should_choose_other_blocks of server.py).                              *)
(*                                                                         *)
(* Throughputs are integers, Unit for 1.0, and multiples of 1000, so that  *)
(* eps * throughput is exact; the rounding of floats is not modelled.  A   *)
(* check works on the records it read at its start and changes nothing, so *)
(* its steps are not interleaved with those of other servers; what it      *)
(* decides is acted on later.                                              *)
(***************************************************************************)
EXTENDS Spans, Sequences, TLC

CONSTANTS
    Throughput,      \* throughput of every server
    Length,          \* num_blocks of every server
    Unit,            \* the throughput 1.0
    BalanceQuality,  \* balance_quality in thousandths
    MaxChecks        \* balance checks in a behaviour

ASSUME SelectionAssumption ==
    /\ Unit \in Nat \ {0} /\ Unit % 1000 = 0 /\ MaxChecks \in Nat
    /\ \A p \in Peers : /\ Throughput[p] \in Nat \ {0} /\ Throughput[p] % 1000 = 0
                        /\ Length[p] \in 1..NumBlocks

VARIABLES
    server,   \* where every server is
    start,    \* first block of the span of every server
    checks,
    check     \* the check in progress

vars == <<server, start, checks, check>>

Starts(p) == 0..(NumBlocks - Length[p])
EPS == Unit \div 1000

NoCheck == [by |-> "nobody", starts |-> << >>, left |-> {}, moved |-> FALSE, initial |-> 0]

(* JOINING and ONLINE servers count.  The records of one server agree, so *)
(* its span is the one it declared.                                        *)
Declared == {p \in Peers : server[p] \in {"joining", "online", "leaving"}}
Visible == [p \in Declared |-> start[p]]

RECURSIVE SumOver(_)
SumOver(S) == IF S = {} THEN 0
              ELSE LET p == CHOOSE q \in S : TRUE IN Throughput[p] + SumOver(S \ {p})

Serves(starts, p, b) == starts[p] <= b /\ b < starts[p] + Length[p]

compute_throughputs(starts) ==
    [b \in Blocks |-> SumOver({p \in DOMAIN starts : Serves(starts, p, b)})]

Minimum(throughputs) == SetMin({throughputs[b] : b \in Blocks})

Sorted(throughputs, i, n) ==
    SortSeq([k \in 1..n |-> throughputs[i + k - 1]], LAMBDA x, y : x < y)

Before(s, t) ==
    \E k \in DOMAIN s : s[k] < t[k] /\ \A j \in 1..(k - 1) : s[j] = t[j]

(* The smallest sorted window; the first of equal ones. *)
_choose_best_start(throughputs, n) ==
    LET window == [i \in 0..(NumBlocks - n) |-> Sorted(throughputs, i, n)]
        best == {i \in DOMAIN window : \A j \in DOMAIN window : ~Before(window[j], window[i])}
    IN  SetMin(best)

choose_best_blocks(n) == _choose_best_start(compute_throughputs(Visible), n)

\* Mutant of WithoutServer: the server's own throughput is counted against its place
WithServer(starts, p) ==
    [b \in Blocks |-> compute_throughputs(starts)[b]
        - IF Serves(starts, p, b)
          THEN 0 ELSE 0]

(* Throughputs without the server, and a little less where it is now. *)
WithoutServer(starts, p) ==
    [b \in Blocks |-> compute_throughputs(starts)[b]
        - IF Serves(starts, p, b)
          THEN Throughput[p] + Throughput[p] \div 1000 ELSE 0]

BestStart(starts, p) == _choose_best_start(WithoutServer(starts, p), Length[p])

---------------------------------------------------------------------------
TypeOK ==
    /\ server \in [Peers -> {"online", "leaving", "gone", "chosen", "joining"}]
    /\ \A p \in Peers : start[p] \in Starts(p)
    /\ checks \in 0..MaxChecks
    /\ check.left \subseteq Peers /\ check.moved \in BOOLEAN
    /\ check # NoCheck =>
           /\ check.by \in Peers /\ DOMAIN check.starts \subseteq Peers
           /\ \A p \in DOMAIN check.starts : check.starts[p] \in Starts(p)

Init ==
    /\ server = [p \in Peers |-> "online"]
    /\ start \in {f \in [Peers -> Blocks] : \A p \in Peers : f[p] \in Starts(p)}
    /\ checks = 0
    /\ check = NoCheck

(* The beginning of should_choose_other_blocks: whether anything is gained *)
(* by moving this server at all.                                           *)
StartCheck(p) ==
    /\ check = NoCheck /\ checks < MaxChecks
    /\ server[p] = "online"
    /\ checks' = checks + 1
    /\ LET initial == Minimum(compute_throughputs(Visible))
           best == BestStart(Visible, p)
       IN  IF \/ initial > EPS /\ Minimum(WithoutServer(Visible, p)) <= 0
              \/ best = start[p]
           THEN check' = NoCheck
           ELSE check' = [by |-> p, starts |-> [Visible EXCEPT ![p] = best],
                          left |-> DOMAIN Visible, moved |-> FALSE, initial |-> initial]
    /\ UNCHANGED <<server, start>>

(* One server of the shuffled list is moved to its best place. *)
TryServer(p) ==
    /\ check # NoCheck /\ p \in check.left
    /\ LET best == BestStart(check.starts, p)
       IN  check' = [check EXCEPT !.left = @ \ {p}, !.starts[p] = best,
                                  !.moved = @ \/ best # check.starts[p]]
    /\ UNCHANGED <<server, start, checks>>

(* The while loop: another round if a server moved. *)
NextRound ==
    /\ check # NoCheck /\ check.left = {} /\ check.moved
    /\ check' = [check EXCEPT !.left = DOMAIN check.starts, !.moved = FALSE]
    /\ UNCHANGED <<server, start, checks>>

(* The end of should_choose_other_blocks; the server shuts its container   *)
(* down if the result is True.                                             *)
EndCheck ==
    /\ check # NoCheck /\ check.left = {} /\ ~check.moved
    /\ LET new == Minimum(compute_throughputs(check.starts))
           move == /\ new >= check.initial /\ new >= EPS
                   /\ check.initial * 1000 < (BalanceQuality - 1) * new
       IN  server' = [server EXCEPT ![check.by] = IF move THEN "leaving" ELSE @]
    /\ check' = NoCheck
    /\ UNCHANGED <<start, checks>>

(* OFFLINE is declared. *)
Leave(p) ==
    /\ check = NoCheck /\ server[p] = "leaving"
    /\ server' = [server EXCEPT ![p] = "gone"]
    /\ UNCHANGED <<start, checks, check>>


(* _choose_blocks reads the records and decides; they are declared later. *)
ChooseBlocks(p) ==
    /\ check = NoCheck /\ server[p] = "gone"
    /\ start' = [start EXCEPT ![p] = choose_best_blocks(Length[p])]
    /\ server' = [server EXCEPT ![p] = "chosen"]
    /\ UNCHANGED <<checks, check>>

Join(p) ==
    /\ check = NoCheck /\ server[p] \in {"chosen", "joining"}
    /\ server' = [server EXCEPT ![p] = IF @ = "chosen" THEN "joining" ELSE "online"]
    /\ UNCHANGED <<start, checks, check>>

Next ==
    \/ NextRound \/ EndCheck
    \/ \E p \in Peers : StartCheck(p) \/ TryServer(p) \/ Leave(p) \/ ChooseBlocks(p) \/ Join(p)

Spec == Init /\ [][Next]_vars

(* A check and a restart are carried on. *)
FairSpec ==
    /\ Spec
    /\ WF_vars(NextRound \/ EndCheck \/ \E p \in Peers : TryServer(p))
    /\ \A p \in Peers : WF_vars(Leave(p) \/ ChooseBlocks(p) \/ Join(p))

---------------------------------------------------------------------------
(* The properties.                                                         *)

(* The simulated rebalancing stops moving servers. *)
CheckEnds == (check # NoCheck) ~> (check = NoCheck)


===========================================================================
