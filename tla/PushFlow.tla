------------------------------ MODULE PushFlow ------------------------------
(***************************************************************************)
(* The adaptive limiter of the micro-batch pushes a server has in flight   *)
(* (AdaptivePushConcurrency, src/bloombee/server/s2s_flow.py), and the     *)
(* pushes that go through it (_push_microbatch and _do_rpc_push_async in   *)
(* src/bloombee/server/handler.py).                                        *)
(*                                                                         *)
(* All pushes run on one event loop: between two awaits a push runs alone, *)
(* and the bodies of acquire and release await only the condition.  The    *)
(* moving averages of the waiting and the sending time are abstracted to   *)
(* the comparisons the code makes with them.                               *)
(***************************************************************************)
EXTENDS Naturals, FiniteSets

CONSTANTS
    Pushers,     \* tasks that push micro-batches, one after the other
    MinLimit, MaxLimit, InitialLimit,
    Interval,    \* _decision_interval
    RecentCap    \* bound of _recent_failures

ASSUME FlowAssumption ==
    /\ MinLimit \in Nat \ {0} /\ MaxLimit \in Nat /\ InitialLimit \in Nat
    /\ MinLimit <= MaxLimit
    /\ Interval \in Nat \ {0} /\ RecentCap \in Nat
    /\ IsFiniteSet(Pushers)

VARIABLES
    phase,        \* per pusher: idle, ready (about to test the limit), waiting
                  \* (on the condition), sending (with a slot), bypassing
    limit,        \* _limit
    inFlight,     \* _in_flight
    releases,     \* _release_events % Interval
    recent,       \* _recent_failures
    consecutive   \* _consecutive_failures, up to the 2 it is compared with

vars == <<phase, limit, inFlight, releases, recent, consecutive>>

Min2(a, b) == IF a < b THEN a ELSE b
Max2(a, b) == IF a > b THEN a ELSE b

Phases == {"idle", "ready", "waiting", "sending", "bypassing"}

TypeOK ==
    /\ phase \in [Pushers -> Phases]
    /\ limit \in MinLimit..MaxLimit
    /\ inFlight \in Nat
    /\ releases \in 0..(Interval - 1)
    /\ recent \in 0..RecentCap
    /\ consecutive \in 0..2

Init ==
    /\ phase = [p \in Pushers |-> "idle"]
    /\ limit = Max2(MinLimit, Min2(MaxLimit, InitialLimit))
    /\ inFlight = 0
    /\ releases = 0
    /\ recent = 0
    /\ consecutive = 0

(* A push of micro-batch 0 does not go through the limiter. *)
Bypass(p) ==
    /\ phase[p] = "idle"
    /\ phase' = [phase EXCEPT ![p] = "bypassing"]
    /\ UNCHANGED <<limit, inFlight, releases, recent, consecutive>>

\* Mutant of BypassDone: a push that took no slot gives one back.
BypassReleases(p) ==
    /\ phase[p] = "bypassing"
    /\ phase' = [phase EXCEPT ![p] = "idle"]
    /\ inFlight' = Max2(1, inFlight) - 1
    /\ UNCHANGED <<limit, releases, recent, consecutive>>

BypassDone(p) ==
    /\ phase[p] = "bypassing"
    /\ phase' = [phase EXCEPT ![p] = "idle"]
    /\ UNCHANGED <<limit, inFlight, releases, recent, consecutive>>

(* acquire: the test of the limit, by a new push or one that was woken. *)
Acquire(p) ==
    /\ phase[p] \in {"idle", "ready"}
    /\ \/ /\ inFlight < limit
          /\ inFlight' = inFlight + 1
          /\ phase' = [phase EXCEPT ![p] = "sending"]
       \/ /\ inFlight >= limit
          /\ phase' = [phase EXCEPT ![p] = "waiting"]
          /\ UNCHANGED inFlight
    /\ UNCHANGED <<limit, releases, recent, consecutive>>

(* The task is cancelled while it waits for a slot. *)
Cancel(p) ==
    /\ phase[p] \in {"ready", "waiting"}
    /\ phase' = [phase EXCEPT ![p] = "idle"]
    /\ UNCHANGED <<limit, inFlight, releases, recent, consecutive>>

RecentAfter(success) ==
    IF success THEN Max2(1, recent) - 1 ELSE Min2(RecentCap, recent + 1)

ConsecutiveAfter(success) ==
    IF success THEN 0 ELSE Min2(2, consecutive + 1)

\* Mutant of Decisions: the limit grows without its upper bound.
DecisionsUnbounded(success, left) ==
    IF ConsecutiveAfter(success) >= 2 \/ RecentAfter(success) >= 3
    THEN {Max2(MinLimit, limit - 1)}
    ELSE {limit, Max2(MinLimit, limit - 1)}
           \cup (IF left >= Max2(1, limit - 1) THEN {limit + 1} ELSE {})

(* The limits release may decide on: back off after failures, else grow    *)
(* under queue pressure with nearly all slots taken, else back off when    *)
(* the network slows down, else keep the limit.                            *)
Decisions(success, left) ==
    IF ConsecutiveAfter(success) >= 2 \/ RecentAfter(success) >= 3
    THEN {Max2(MinLimit, limit - 1)}
    ELSE {limit, Max2(MinLimit, limit - 1)}
           \cup (IF left >= Max2(1, limit - 1) THEN {Min2(MaxLimit, limit + 1)} ELSE {})

Woken == [q \in Pushers |-> IF phase[q] = "waiting" THEN "ready" ELSE phase[q]]

\* Mutant of Release: notify_all is reached only when the limit is reconsidered.
ReleaseNotifiesOnDecision(p, success) ==
    LET left == Max2(1, inFlight) - 1
    IN  /\ phase[p] = "sending"
        /\ inFlight' = left
        /\ recent' = RecentAfter(success)
        /\ releases' = (releases + 1) % Interval
        /\ IF (releases + 1) % Interval = 0
           THEN /\ limit' \in Decisions(success, left)
                /\ consecutive' = IF ConsecutiveAfter(success) >= 2 \/ RecentAfter(success) >= 3
                                  THEN 0 ELSE ConsecutiveAfter(success)
           ELSE /\ UNCHANGED limit
                /\ consecutive' = ConsecutiveAfter(success)
        /\ phase' = [(IF (releases + 1) % Interval = 0 THEN Woken ELSE phase) EXCEPT ![p] = "idle"]

Release(p, success) ==
    LET left == Max2(1, inFlight) - 1
    IN  /\ phase[p] = "sending"
        /\ inFlight' = left
        /\ recent' = RecentAfter(success)
        /\ releases' = (releases + 1) % Interval
        /\ IF (releases + 1) % Interval = 0
           THEN /\ limit' \in Decisions(success, left)
                /\ consecutive' = IF ConsecutiveAfter(success) >= 2 \/ RecentAfter(success) >= 3
                                  THEN 0 ELSE ConsecutiveAfter(success)
           ELSE /\ UNCHANGED limit
                /\ consecutive' = ConsecutiveAfter(success)
        /\ phase' = [Woken EXCEPT ![p] = "idle"]

PushStep(p) == BypassDone(p) \/ (phase[p] = "ready" /\ Acquire(p)) \/ Release(p, TRUE) \/ Release(p, FALSE)

Next == \E p \in Pushers :
    Bypass(p) \/ BypassDone(p) \/ Acquire(p) \/ Cancel(p) \/ Release(p, TRUE) \/ Release(p, FALSE)

Spec == Init /\ [][Next]_vars

(* Every RPC ends, by its timeout at the latest, and a woken task runs.    *)
FairSpec == Spec /\ \A p \in Pushers : WF_vars(PushStep(p))

---------------------------------------------------------------------------
Holders == {p \in Pushers : phase[p] = "sending"}

(* The count of pushes in flight is the number of pushes that hold a slot: *)
(* a push that bypassed the limiter, failed or was cancelled while waiting *)
(* neither leaks a slot nor gives back another one's.                      *)
SlotsMatchHolders == inFlight = Cardinality(Holders)

(* The number of pushes that hold a slot never exceeds the hard maximum,   *)
(* although the limit moves under the pushes in flight.                    *)
NeverBeyondMaximum == Cardinality(Holders) <= MaxLimit

(* While a push waits on the condition all slots of the current limit are  *)
(* taken: no push sleeps through a free slot, not even one that a raised   *)
(* limit or a failed push has freed.                                       *)
NoSleepBesideFreeSlot ==
    (\E p \in Pushers : phase[p] = "waiting") => inFlight >= limit

(* No wake-up is lost: a push that waits is woken, whatever the limit does *)
(* and however the pushes in flight end.                                   *)
WaitEnds == \A p \in Pushers : (phase[p] = "waiting") ~> (phase[p] # "waiting")
===========================================================================
