--------------------------- MODULE PushFlowProofs ---------------------------
(***************************************************************************)
(* Proofs about PushFlow for any set of pushers and any limits.            *)
(*                                                                         *)
(* The slot count is compared with the set of holders by adding or taking  *)
(* away one element of a finite set.  NeverBeyondMaximum is not inductive: *)
(* it needs that the count is the number of holders, and that the limit    *)
(* stays below the maximum.                                                *)
(***************************************************************************)
EXTENDS PushFlow, FiniteSetTheorems, TLAPS

(* The inductive invariant. *)
Inv ==
    /\ TypeOK
    /\ SlotsMatchHolders
    /\ inFlight <= MaxLimit
    /\ NoSleepBesideFreeSlot

(* The set of holders is finite, so its cardinality is a natural number. *)
LEMMA HoldersFinite ==
    ASSUME TypeOK
    PROVE  IsFiniteSet(Holders) /\ Cardinality(Holders) \in Nat
<1>1. Holders \subseteq Pushers  BY DEF Holders
<1>2. IsFiniteSet(Holders)  BY <1>1, FS_Subset, FlowAssumption
<1> QED  BY <1>2, FS_CardinalityType

(* The initial limit is clamped to the bounds of AdaptivePushConcurrency. *)
LEMMA InitInv == Init => Inv
<1> SUFFICES ASSUME Init PROVE Inv  OBVIOUS
<1>1. TypeOK  BY FlowAssumption DEF Init, TypeOK, Phases, Max2, Min2
<1>2. Holders = {}  BY DEF Init, Holders
<1>3. SlotsMatchHolders  BY <1>2, FS_EmptySet DEF Init, SlotsMatchHolders
<1>4. inFlight <= MaxLimit  BY FlowAssumption DEF Init
<1>5. NoSleepBesideFreeSlot  BY DEF Init, NoSleepBesideFreeSlot
<1> QED  BY <1>1, <1>3, <1>4, <1>5 DEF Inv

(* A step that changes the phase of one pusher between two phases without  *)
(* a slot changes no holder.                                               *)
LEMMA SameHolders ==
    ASSUME TypeOK, NEW p \in Pushers, NEW to \in Phases,
           phase[p] # "sending", to # "sending",
           phase' = [phase EXCEPT ![p] = to]
    PROVE  Holders' = Holders /\ phase' \in [Pushers -> Phases]
BY DEF TypeOK, Holders, Phases

(* acquire admits one holder and counts it. *)
LEMMA AcquireKeeps ==
    ASSUME Inv, NEW p \in Pushers, Acquire(p)
    PROVE  Inv'
<1> USE FlowAssumption
<1>1. CASE inFlight < limit /\ inFlight' = inFlight + 1 /\ phase' = [phase EXCEPT ![p] = "sending"]
  <2>1. TypeOK'  BY <1>1 DEF Acquire, Inv, TypeOK, Phases
  <2>2. Holders' = Holders \cup {p} /\ p \notin Holders
    BY <1>1 DEF Acquire, Inv, TypeOK, Holders
  <2>3. Cardinality(Holders') = Cardinality(Holders) + 1
    BY <2>2, HoldersFinite, FS_AddElement DEF Inv
  <2>4. SlotsMatchHolders'  BY <1>1, <2>3 DEF Inv, SlotsMatchHolders
  <2>5. (inFlight <= MaxLimit)'  BY <1>1 DEF Inv, TypeOK
  <2>6. NoSleepBesideFreeSlot'
    BY <1>1 DEF Acquire, Inv, TypeOK, NoSleepBesideFreeSlot
  <2> QED  BY <2>1, <2>4, <2>5, <2>6 DEF Inv
<1>2. CASE inFlight >= limit /\ phase' = [phase EXCEPT ![p] = "waiting"] /\ UNCHANGED inFlight
  <2>1. Holders' = Holders /\ phase' \in [Pushers -> Phases]
    BY <1>2, SameHolders DEF Acquire, Inv, Phases
  <2>2. TypeOK'  BY <1>2, <2>1 DEF Acquire, Inv, TypeOK
  <2>3. SlotsMatchHolders'  BY <1>2, <2>1 DEF Inv, SlotsMatchHolders
  <2>4. NoSleepBesideFreeSlot'  BY <1>2 DEF Acquire, NoSleepBesideFreeSlot
  <2> QED  BY <1>2, <2>2, <2>3, <2>4 DEF Inv
<1> QED  BY <1>1, <1>2 DEF Acquire

(* The counters of release stay in their ranges. *)
LEMMA ReleaseTypes ==
    ASSUME TypeOK, NEW p \in Pushers, NEW success \in BOOLEAN, Release(p, success)
    PROVE  TypeOK'
<1> USE FlowAssumption
<1>1. phase' \in [Pushers -> Phases]  BY DEF Release, TypeOK, Woken, Phases
<1>2. inFlight' \in Nat  BY DEF Release, TypeOK, Max2
<1>3. recent' \in 0..RecentCap  BY DEF Release, TypeOK, RecentAfter, Max2, Min2
<1>4. ConsecutiveAfter(success) \in 0..2  BY DEF TypeOK, ConsecutiveAfter, Min2
<1>5. consecutive' \in 0..2  BY <1>4 DEF Release
<1>6. releases' \in 0..(Interval - 1)  BY DEF Release, TypeOK
<1>7. ASSUME NEW left \in Nat, NEW l \in Decisions(success, left) PROVE l \in MinLimit..MaxLimit
  BY <1>7 DEF TypeOK, Decisions, Max2, Min2
<1>8. limit' \in MinLimit..MaxLimit
  <2>1. Max2(1, inFlight) - 1 \in Nat  BY DEF TypeOK, Max2
  <2> QED  BY <2>1, <1>7 DEF Release, TypeOK
<1> QED  BY <1>1, <1>2, <1>3, <1>5, <1>6, <1>8 DEF TypeOK

(* release gives back exactly the slot of its push and wakes every waiter. *)
LEMMA ReleaseKeeps ==
    ASSUME Inv, NEW p \in Pushers, NEW success \in BOOLEAN, Release(p, success)
    PROVE  Inv'
<1> USE FlowAssumption
<1>1. TypeOK'  BY ReleaseTypes DEF Inv
<1>2. p \in Holders /\ Holders' = Holders \ {p}
  BY DEF Release, Inv, TypeOK, Holders, Woken
<1>3. Cardinality(Holders') = Cardinality(Holders) - 1
  BY <1>2, HoldersFinite, FS_RemoveElement DEF Inv
<1>4. Cardinality(Holders) # 0
  BY <1>2, HoldersFinite, FS_EmptySet DEF Inv
<1>5. inFlight' = inFlight - 1
  BY <1>4, HoldersFinite DEF Release, Inv, SlotsMatchHolders, Max2
<1>6. SlotsMatchHolders'  BY <1>3, <1>5 DEF Inv, SlotsMatchHolders
<1>7. (inFlight <= MaxLimit)'  BY <1>5 DEF Inv, TypeOK
<1>8. NoSleepBesideFreeSlot'
  BY DEF Release, Woken, Inv, TypeOK, NoSleepBesideFreeSlot
<1> QED  BY <1>1, <1>6, <1>7, <1>8 DEF Inv

(* Steps of a push that neither takes nor gives back a slot. *)
LEMMA OthersKeep ==
    ASSUME Inv, NEW p \in Pushers, Bypass(p) \/ BypassDone(p) \/ Cancel(p)
    PROVE  Inv'
<1>1. PICK to \in {"idle", "bypassing"} :
        phase[p] # "sending" /\ phase' = [phase EXCEPT ![p] = to]
  BY DEF Bypass, BypassDone, Cancel
<1>2. UNCHANGED <<limit, inFlight, releases, recent, consecutive>>
  BY DEF Bypass, BypassDone, Cancel
<1>3. Holders' = Holders /\ phase' \in [Pushers -> Phases]
  BY <1>1, SameHolders DEF Inv, Phases
<1>4. TypeOK'  BY <1>2, <1>3 DEF Inv, TypeOK
<1>5. SlotsMatchHolders'  BY <1>2, <1>3 DEF Inv, SlotsMatchHolders
<1>6. NoSleepBesideFreeSlot'  BY <1>1, <1>2 DEF Inv, TypeOK, NoSleepBesideFreeSlot
<1> QED  BY <1>2, <1>4, <1>5, <1>6 DEF Inv

(* Every step keeps the invariant. *)
LEMMA NextInv == Inv /\ [Next]_vars => Inv'
<1> SUFFICES ASSUME Inv, [Next]_vars PROVE Inv'  OBVIOUS
<1>1. CASE UNCHANGED vars
  BY <1>1 DEF vars, Inv, TypeOK, SlotsMatchHolders, Holders, NoSleepBesideFreeSlot
<1>2. CASE Next
  <2>1. PICK p \in Pushers : Bypass(p) \/ BypassDone(p) \/ Acquire(p) \/ Cancel(p)
                               \/ Release(p, TRUE) \/ Release(p, FALSE)
    BY <1>2 DEF Next
  <2> QED  BY <2>1, AcquireKeeps, ReleaseKeeps, OthersKeep
<1> QED  BY <1>1, <1>2

(* The invariant holds in every reachable state. *)
LEMMA AlwaysInv == Spec => []Inv
BY InitInv, NextInv, PTL DEF Spec

(* For any pushers and limits, the counter of AdaptivePushConcurrency is   *)
(* the number of pushes that hold a slot.                                  *)
THEOREM SlotsAreCounted == Spec => []SlotsMatchHolders
<1>1. Inv => SlotsMatchHolders  BY DEF Inv
<1> QED  BY <1>1, AlwaysInv, PTL

(* For any pushers and limits, no more than the maximum hold a slot. *)
THEOREM MaximumHolds == Spec => []NeverBeyondMaximum
<1>1. Inv => NeverBeyondMaximum  BY DEF Inv, SlotsMatchHolders, NeverBeyondMaximum
<1> QED  BY <1>1, AlwaysInv, PTL

(* For any pushers and limits, no push sleeps on the condition while the   *)
(* current limit leaves a slot free.                                       *)
THEOREM NoLostWakeup == Spec => []NoSleepBesideFreeSlot
<1>1. Inv => NoSleepBesideFreeSlot  BY DEF Inv
<1> QED  BY <1>1, AlwaysInv, PTL
=============================================================================
