-------------------------- MODULE MemoryCacheProofs --------------------------
(***************************************************************************)
(* Proofs about MemoryCache, for any set of requests, sizes, time limits   *)
(* and budget.                                                             *)
(***************************************************************************)
EXTENDS MemoryCache, TLAPS

USE ReqsAssumption, MaxTokensAssumption, TokensAssumption

\* What force_free writes under _lock_metadata has the right type.
LEMMA ReleaseType ==
    ASSUME TypeOK, NEW r \in Reqs, Release(r)
    PROVE  /\ groups' \subseteq Reqs /\ toSet' \subseteq Reqs
           /\ current' \in Nat /\ pipe' \in Seq(Message)
<1>1. groups' \subseteq Reqs /\ toSet' \subseteq Reqs
  BY DEF TypeOK, Release
<1>2. current' \in Nat
  <2>1. Tokens[r] \in Nat
    OBVIOUS
  <2>2. Monus(current, Tokens[r]) \in Nat
    BY <2>1 DEF TypeOK, Monus
  <2>3. QED
    BY <2>2 DEF TypeOK, Release
<1>3. pipe' \in Seq(Message)
  <2>1. [op |-> "delete", req |-> r] \in Message
    BY DEF Message
  <2>2. pipe \in Seq(Message)
    BY DEF TypeOK
  <2>3. Append(pipe, [op |-> "delete", req |-> r]) \in Seq(Message)
    BY <2>1, <2>2
  <2>4. QED
    BY <2>2, <2>3 DEF Release
<1>4. QED
  BY <1>1, <1>2, <1>3

\* Reading a message keeps the Runtime's tables and the pipe well typed.
LEMMA ProcessType ==
    ASSUME TypeOK, ProcessMessage
    PROVE  tensors' \subseteq Reqs /\ pipe' \in Seq(Message)
<1>1. pipe # <<>> /\ pipe \in Seq(Message)
  BY DEF TypeOK, ProcessMessage
<1>2. Head(pipe) \in Message /\ Tail(pipe) \in Seq(Message)
  BY <1>1
<1>3. Head(pipe).req \in Reqs
  BY <1>2 DEF Message
<1>4. tensors' \subseteq Reqs
  BY <1>3 DEF TypeOK, ProcessMessage, Apply
<1>5. QED
  BY <1>2, <1>4 DEF ProcessMessage

\* Every step keeps the type invariant.
LEMMA TypeStep == TypeOK /\ [Next]_vars => TypeOK'
<1> SUFFICES ASSUME TypeOK, [Next]_vars PROVE TypeOK'
  OBVIOUS
<1> USE DEF TypeOK, PCs, Waiting, Goto, runtimeVars, allocVars
<1>1. ASSUME NEW r \in Reqs, Coroutine(r) PROVE TypeOK'
  <2>1. CASE Enqueue(r)  BY <2>1 DEF Enqueue
  <2>2. CASE TryImmediate(r)  BY <2>2 DEF TryImmediate
  <2>3. CASE CheckFits(r)  BY <2>3 DEF CheckFits
  <2>4. CASE CheckFull(r)  BY <2>4 DEF CheckFull
  <2>5. CASE WaitDone(r)  BY <2>5 DEF WaitDone
  <2>6. CASE FinishFailed(r)  BY <2>6 DEF FinishFailed
  <2>7. CASE Dequeue(r)  BY <2>7 DEF Dequeue
  <2>8. CASE ScheduleAlloc(r)  BY <2>8 DEF ScheduleAlloc, Message
  <2>9. QED  BY <1>1, <2>1, <2>2, <2>3, <2>4, <2>5, <2>6, <2>7, <2>8 DEF Coroutine
<1>2. ASSUME NEW r \in Reqs, Thread(r) PROVE TypeOK'
  <2>1. CASE AcquireLock(r)  BY <2>1 DEF AcquireLock
  <2>2. CASE OrphanAcquire(r)  BY <2>2 DEF OrphanAcquire
  <2>3. CASE ThreadCheck(r)  BY <2>3 DEF ThreadCheck
  <2>4. CASE ThreadWait(r)  BY <2>4 DEF ThreadWait
  <2>5. CASE ThreadClear(r)  BY <2>5 DEF ThreadClear
  <2>6. QED  BY <1>2, <2>1, <2>2, <2>3, <2>4, <2>5 DEF Thread
<1>3. ASSUME NEW r \in Reqs, AsyncTimeout(r) PROVE TypeOK'
  BY <1>3 DEF AsyncTimeout
<1>4. ASSUME NEW r \in Reqs, ThreadDeadline(r) PROVE TypeOK'
  BY <1>4 DEF ThreadDeadline
<1>5. ASSUME NEW r \in Reqs, DeleteCache(r) PROVE TypeOK'
  BY <1>5, ReleaseType DEF DeleteCache
<1>6. ASSUME NEW r \in Reqs, Free(r) PROVE TypeOK'
  BY <1>6, ReleaseType DEF Free
<1>7. ASSUME NEW r \in Reqs, SetEvent(r) PROVE TypeOK'
  BY <1>7 DEF SetEvent
<1>8. ASSUME NEW r \in Reqs, Submit(r) PROVE TypeOK'
  BY <1>8 DEF Submit
<1>9. ASSUME Runtime PROVE TypeOK'
  <2>1. CASE ProcessMessage  BY <2>1, ProcessType DEF ProcessMessage
  <2>2. CASE Drained  BY <2>2 DEF Drained
  <2>3. CASE FinishUse  BY <2>3 DEF FinishUse
  <2>4. ASSUME NEW r \in Reqs, UseCache(r) PROVE TypeOK'  BY <2>4 DEF UseCache
  <2>5. QED  BY <1>9, <2>1, <2>2, <2>3, <2>4 DEF Runtime
<1>10. CASE UNCHANGED vars
  BY <1>10 DEF vars
<1>11. QED
  BY <1>1, <1>2, <1>3, <1>4, <1>5, <1>6, <1>7, <1>8, <1>9, <1>10 DEF Next, Terminated

\* The initial state is well typed.
LEMMA TypeInit == Init => TypeOK
<1> SUFFICES ASSUME Init PROVE TypeOK
  OBVIOUS
<1>1. pipe \in Seq(Message)
  BY DEF Init
<1>2. /\ pc \in [Reqs -> PCs]
      /\ thr \in [Reqs -> {"none", "check", "wait", "asleep", "woken", "clear", "ok", "fail"}]
  BY DEF Init, PCs
<1>3. event \in BOOLEAN
  BY DEF Init
<1>4. /\ orphans \subseteq Reqs /\ groups \subseteq Reqs /\ toSet \subseteq Reqs
      /\ tensors \subseteq Reqs /\ queued \subseteq Reqs /\ served \subseteq Reqs
  BY DEF Init
<1>5. /\ current \in Nat /\ enqueued \in Int
      /\ lock \in Reqs \cup {NoReq} /\ rtReq \in Reqs \cup {NoReq}
      /\ rtPhase \in {"idle", "drain", "need"}
  BY DEF Init
<1>6. QED
  BY <1>1, <1>2, <1>3, <1>4, <1>5 DEF TypeOK

\* The type invariant holds in every state: in particular the clamped
\* subtraction of force_free keeps _current_size a natural number.
THEOREM TypeCorrect == Spec => []TypeOK
BY TypeInit, TypeStep, PTL DEF Spec

-----------------------------------------------------------------------------
(***************************************************************************)
(* The budget with a single handler process.  WithinBudget is not          *)
(* inductive: a granted request raises the counter later, without a check. *)
(* The strengthening says that at most one request is between its check    *)
(* and its registration, and that its tokens still fit.                    *)
(***************************************************************************)

Granting(r) == pc[r] \in {"granted", "dequeued"}

LockOwned == \A r \in Reqs : pc[r] \in {"locked", "waiting"} => lock = r

GrantAlone ==
    \A r, q \in Reqs : Granting(r) /\ q # r => ~Granting(q) /\ pc[q] # "waiting"

GrantFits ==
    \A r \in Reqs : Granting(r) \/ (pc[r] = "waiting" /\ thr[r] = "ok") => Fits(r)

BudgetInv == TypeOK /\ LockOwned /\ GrantAlone /\ GrantFits /\ WithinBudget

SingleHandler == \A q, r \in Reqs : Handler[q] = Handler[r]

\* Giving memory back never raises the counter.
LEMMA ReleaseLowers ==
    ASSUME TypeOK, NEW r \in Reqs, Release(r)
    PROVE  current' \in Nat /\ current' <= current
BY DEF TypeOK, Release, Monus

\* A step of one request that only moves it from outside to outside the
\* critical labels, with the counter not raised, keeps the budget invariant.
LEMMA BudgetFrame ==
    ASSUME BudgetInv, TypeOK', current' <= current,
           \A q \in Reqs : pc'[q] \in {"locked", "waiting", "granted", "dequeued"} =>
               pc[q] = pc'[q],
           \A q \in Reqs : pc'[q] = "waiting" /\ thr'[q] = "ok" => thr[q] = "ok",
           lock' = lock \/ \A q \in Reqs : pc'[q] \notin {"locked", "waiting"}
    PROVE  BudgetInv'
<1>1. current \in Nat /\ current' \in Nat /\ \A q \in Reqs : Tokens[q] \in Nat
  BY DEF BudgetInv, TypeOK
<1>2. LockOwned'
  BY DEF BudgetInv, LockOwned
<1>3. GrantAlone'
  BY DEF BudgetInv, GrantAlone, Granting
<1>4. GrantFits'
  BY <1>1 DEF BudgetInv, GrantFits, Granting, Fits
<1>5. WithinBudget'
  BY <1>1 DEF BudgetInv, WithinBudget
<1>6. QED
  BY <1>2, <1>3, <1>4, <1>5 DEF BudgetInv

\* Every step of a server with one handler process keeps the budget invariant.
LEMMA BudgetStep ==
    ASSUME SingleHandler, BudgetInv, [Next]_vars
    PROVE  BudgetInv'
<1>1. TypeOK /\ TypeOK'
  BY TypeStep DEF BudgetInv
<1>2. /\ pc \in [Reqs -> PCs] /\ current \in Nat /\ lock \in Reqs \cup {NoReq}
      /\ thr \in [Reqs -> {"none", "check", "wait", "asleep", "woken", "clear", "ok", "fail"}]
      /\ \A q \in Reqs : Tokens[q] \in Nat
  BY <1>1 DEF TypeOK
<1>3. \A r \in Reqs : LoopFree(r) => \A q \in Reqs \ {r} : ~Granting(q)
  BY DEF SingleHandler, LoopFree, Granting
<1> USE DEF Goto, runtimeVars, allocVars
<1>4. ASSUME NEW r \in Reqs, Coroutine(r) PROVE BudgetInv'
  <2>1. CASE Enqueue(r)
    BY <2>1, <1>1, <1>2, BudgetFrame DEF Enqueue
  <2>2. CASE TryImmediate(r)
    BY <2>2, <1>1, <1>2, BudgetFrame DEF TryImmediate
  <2>3. CASE CheckFits(r)
    BY <2>3, <1>1, <1>2, <1>3
       DEF CheckFits, BudgetInv, LockOwned, GrantAlone, GrantFits, Granting, WithinBudget, Fits
  <2>4. CASE CheckFull(r)
    BY <2>4, <1>1, <1>2, <1>3
       DEF CheckFull, BudgetInv, LockOwned, GrantAlone, GrantFits, Granting, WithinBudget, Fits
  <2>5. CASE WaitDone(r)
    BY <2>5, <1>1, <1>2, <1>3
       DEF WaitDone, BudgetInv, LockOwned, GrantAlone, GrantFits, Granting, WithinBudget, Fits
  <2>6. CASE FinishFailed(r)
    BY <2>6, <1>1, <1>2, BudgetFrame DEF FinishFailed
  <2>7. CASE Dequeue(r)
    BY <2>7, <1>1, <1>2
       DEF Dequeue, BudgetInv, LockOwned, GrantAlone, GrantFits, Granting, WithinBudget, Fits
  <2>8. CASE ScheduleAlloc(r)
    BY <2>8, <1>1, <1>2
       DEF ScheduleAlloc, BudgetInv, LockOwned, GrantAlone, GrantFits, Granting, WithinBudget, Fits
  <2>9. QED
    BY <1>4, <2>1, <2>2, <2>3, <2>4, <2>5, <2>6, <2>7, <2>8 DEF Coroutine
<1>5. ASSUME NEW r \in Reqs, Thread(r) PROVE BudgetInv'
  <2>1. CASE AcquireLock(r)
    BY <2>1, <1>1, <1>2
       DEF AcquireLock, BudgetInv, LockOwned, GrantAlone, GrantFits, Granting, WithinBudget, Fits
  <2>2. CASE OrphanAcquire(r)
    BY <2>2, <1>1, <1>2, BudgetFrame DEF OrphanAcquire, BudgetInv, LockOwned
  <2>3. CASE ThreadCheck(r)
    BY <2>3, <1>1, <1>2
       DEF ThreadCheck, BudgetInv, LockOwned, GrantAlone, GrantFits, Granting, WithinBudget, Fits
  <2>4. CASE ThreadWait(r)
    BY <2>4, <1>1, <1>2, BudgetFrame DEF ThreadWait
  <2>5. CASE ThreadClear(r)
    BY <2>5, <1>1, <1>2, BudgetFrame DEF ThreadClear
  <2>6. QED
    BY <1>5, <2>1, <2>2, <2>3, <2>4, <2>5 DEF Thread
<1>6. ASSUME NEW r \in Reqs, AsyncTimeout(r) PROVE BudgetInv'
  BY <1>6, <1>1, <1>2, BudgetFrame DEF AsyncTimeout, BudgetInv, LockOwned
<1>7. ASSUME NEW r \in Reqs, ThreadDeadline(r) PROVE BudgetInv'
  BY <1>7, <1>1, <1>2, BudgetFrame DEF ThreadDeadline
<1>8. ASSUME NEW r \in Reqs, DeleteCache(r) PROVE BudgetInv'
  BY <1>8, <1>1, <1>2, BudgetFrame, ReleaseLowers DEF DeleteCache
<1>9. ASSUME NEW r \in Reqs, Free(r) PROVE BudgetInv'
  BY <1>9, <1>1, <1>2, BudgetFrame, ReleaseLowers DEF Free
<1>10. ASSUME NEW r \in Reqs, SetEvent(r) PROVE BudgetInv'
  BY <1>10, <1>1, <1>2, BudgetFrame DEF SetEvent
<1>11. ASSUME NEW r \in Reqs, Submit(r) PROVE BudgetInv'
  BY <1>11, <1>1, <1>2, BudgetFrame DEF Submit
<1>12. ASSUME Runtime \/ UNCHANGED vars PROVE BudgetInv'
  <2>1. UNCHANGED allocVars
    BY <1>12 DEF Runtime, ProcessMessage, Drained, FinishUse, UseCache, vars
  <2>2. QED
    BY <2>1, <1>1, <1>2, BudgetFrame
<1>13. QED
  BY <1>4, <1>5, <1>6, <1>7, <1>8, <1>9, <1>10, <1>11, <1>12 DEF Next, Terminated

\* With one handler process the token counter never exceeds max_size_tokens,
\* whatever times out, leaks the lock or disconnects.
THEOREM BudgetRespected ==
    ASSUME SingleHandler
    PROVE  Spec => []WithinBudget
<1>1. Init => BudgetInv
  <2> SUFFICES ASSUME Init PROVE BudgetInv
    OBVIOUS
  <2>1. TypeOK
    BY TypeInit
  <2>2. QED
    BY <2>1 DEF Init, BudgetInv, LockOwned, GrantAlone, GrantFits, Granting, WithinBudget
<1>2. BudgetInv /\ [Next]_vars => BudgetInv'
  BY BudgetStep
<1>3. BudgetInv => WithinBudget
  BY DEF BudgetInv
<1>4. QED
  BY <1>1, <1>2, <1>3, PTL DEF Spec

-----------------------------------------------------------------------------
(***************************************************************************)
(* No wakeup is lost as long as no request has a finite time limit: then   *)
(* a thread runs only while its request holds the lock, so the thread that *)
(* clears the event is the only one that could need it.                    *)
(***************************************************************************)

ThreadInLock == \A r \in Reqs : thr[r] # "none" => pc[r] = "waiting"

WakeupInv == TypeOK /\ LockOwned /\ ThreadInLock /\ NoLostWakeup

NoTimeLimit == \A r \in Reqs : Timeout[r] # "finite"

\* A step that touches neither the threads nor the event, does not lower the
\* counter and keeps the waiting requests waiting keeps the wakeup invariant.
LEMMA WakeupFrame ==
    ASSUME WakeupInv, TypeOK', thr' = thr, event' = event, current <= current', toSet' = toSet,
           \A q \in Reqs : pc[q] = "waiting" => pc'[q] = "waiting",
           LockOwned'
    PROVE  WakeupInv'
<1>1. current \in Nat /\ current' \in Nat /\ \A q \in Reqs : Tokens[q] \in Nat
  BY DEF WakeupInv, TypeOK
<1>2. ThreadInLock'
  BY DEF WakeupInv, ThreadInLock
<1>3. NoLostWakeup'
  BY <1>1 DEF WakeupInv, NoLostWakeup, Fits
<1>4. QED
  BY <1>2, <1>3 DEF WakeupInv

\* Every step keeps the wakeup invariant when there are no time limits.
LEMMA WakeupStep ==
    ASSUME NoTimeLimit, WakeupInv, [Next]_vars
    PROVE  WakeupInv'
<1>1. TypeOK /\ TypeOK'
  BY TypeStep DEF WakeupInv
<1>2. /\ pc \in [Reqs -> PCs] /\ current \in Nat /\ lock \in Reqs \cup {NoReq}
      /\ thr \in [Reqs -> {"none", "check", "wait", "asleep", "woken", "clear", "ok", "fail"}]
      /\ \A q \in Reqs : Tokens[q] \in Nat
  BY <1>1 DEF TypeOK
<1>3. \A q, r \in Reqs : thr[q] # "none" /\ thr[r] # "none" => q = r
  BY DEF WakeupInv, ThreadInLock, LockOwned
<1> USE DEF Goto, runtimeVars, allocVars
<1>4. ASSUME NEW r \in Reqs, Coroutine(r) PROVE WakeupInv'
  <2>1. CASE Enqueue(r)
    BY <2>1, <1>1, <1>2, WakeupFrame DEF Enqueue, WakeupInv, LockOwned
  <2>2. CASE TryImmediate(r)
    BY <2>2, <1>1, <1>2, WakeupFrame DEF TryImmediate, WakeupInv, LockOwned
  <2>3. CASE CheckFits(r)
    BY <2>3, <1>1, <1>2, WakeupFrame DEF CheckFits, WakeupInv, LockOwned
  <2>4. CASE CheckFull(r)
    BY <2>4, <1>1, <1>2
       DEF CheckFull, WakeupInv, LockOwned, ThreadInLock, NoLostWakeup, Fits
  <2>5. CASE WaitDone(r)
    BY <2>5, <1>1, <1>2
       DEF WaitDone, WakeupInv, LockOwned, ThreadInLock, NoLostWakeup, Fits
  <2>6. CASE FinishFailed(r)
    BY <2>6, <1>1, <1>2, WakeupFrame DEF FinishFailed, WakeupInv, LockOwned
  <2>7. CASE Dequeue(r)
    BY <2>7, <1>1, <1>2, WakeupFrame DEF Dequeue, WakeupInv, LockOwned
  <2>8. CASE ScheduleAlloc(r)
    BY <2>8, <1>1, <1>2, WakeupFrame DEF ScheduleAlloc, WakeupInv, LockOwned
  <2>9. QED
    BY <1>4, <2>1, <2>2, <2>3, <2>4, <2>5, <2>6, <2>7, <2>8 DEF Coroutine
<1>5. ASSUME NEW r \in Reqs, Thread(r) PROVE WakeupInv'
  <2>1. CASE AcquireLock(r)
    BY <2>1, <1>1, <1>2, WakeupFrame DEF AcquireLock, WakeupInv, LockOwned
  <2>2. CASE OrphanAcquire(r)
    BY <2>2, <1>1, <1>2, WakeupFrame DEF OrphanAcquire, WakeupInv, LockOwned
  <2>3. CASE ThreadCheck(r)
    BY <2>3, <1>1, <1>2
       DEF ThreadCheck, WakeupInv, LockOwned, ThreadInLock, NoLostWakeup, Fits
  <2>4. CASE ThreadWait(r)
    BY <2>4, <1>1, <1>2
       DEF ThreadWait, WakeupInv, LockOwned, ThreadInLock, NoLostWakeup, Fits
  <2>5. CASE ThreadClear(r)
    BY <2>5, <1>1, <1>2, <1>3
       DEF ThreadClear, WakeupInv, LockOwned, ThreadInLock, NoLostWakeup, Fits
  <2>6. QED
    BY <1>5, <2>1, <2>2, <2>3, <2>4, <2>5 DEF Thread
<1>6. ASSUME NEW r \in Reqs, AsyncTimeout(r) \/ ThreadDeadline(r) PROVE WakeupInv'
  BY <1>6 DEF AsyncTimeout, ThreadDeadline, NoTimeLimit
<1>7. ASSUME NEW r \in Reqs, DeleteCache(r) \/ Free(r) PROVE WakeupInv'
  <2>1. r \in toSet' /\ thr' = thr /\ event' = event /\ lock' = lock
    BY <1>7 DEF DeleteCache, Free, Release
  <2>2. LockOwned' /\ ThreadInLock'
    BY <1>7, <1>2, <2>1 DEF DeleteCache, Free, WakeupInv, LockOwned, ThreadInLock
  <2>3. NoLostWakeup'
    BY <2>1 DEF WakeupInv, NoLostWakeup
  <2>4. QED
    BY <1>1, <2>2, <2>3 DEF WakeupInv
<1>8. ASSUME NEW r \in Reqs, SetEvent(r) PROVE WakeupInv'
  BY <1>8, <1>1, <1>2
     DEF SetEvent, WakeupInv, LockOwned, ThreadInLock, NoLostWakeup
<1>9. ASSUME Runtime \/ UNCHANGED vars \/ \E r \in Reqs : Submit(r) PROVE WakeupInv'
  <2>1. UNCHANGED allocVars
    BY <1>9 DEF Runtime, ProcessMessage, Drained, FinishUse, UseCache, Submit, vars
  <2>2. QED
    BY <2>1, <1>1, <1>2, WakeupFrame DEF WakeupInv, LockOwned
<1>10. QED
  BY <1>4, <1>5, <1>6, <1>7, <1>8, <1>9 DEF Next, Terminated

\* Without time limits a thread that waits for _memory_freed_event waits only
\* while its request does not fit or a force_free is about to set the event.
THEOREM WakeupsKept ==
    ASSUME NoTimeLimit
    PROVE  Spec => []NoLostWakeup
<1>1. Init => WakeupInv
  <2> SUFFICES ASSUME Init PROVE WakeupInv
    OBVIOUS
  <2>1. TypeOK
    BY TypeInit
  <2>2. QED
    BY <2>1 DEF Init, WakeupInv, LockOwned, ThreadInLock, NoLostWakeup
<1>2. WakeupInv /\ [Next]_vars => WakeupInv'
  BY WakeupStep
<1>3. WakeupInv => NoLostWakeup
  BY DEF WakeupInv
<1>4. QED
  BY <1>1, <1>2, <1>3, PTL DEF Spec

=============================================================================
