----------------------------- MODULE MemoryCache -----------------------------
(***************************************************************************)
(* The attention-cache allocator of a BloomBee server                      *)
(* (src/bloombee/server/memory_cache.py): several connection-handler       *)
(* processes allocate and free token budgets through shared counters, one  *)
(* Runtime process materialises and drops the tensors by reading a pipe.   *)
(*                                                                         *)
(* A request is one call of KVCacheManager.allocate_cache: it queues       *)
(* (_wait_for_free_memory), is granted (_schedule_alloc), may run          *)
(* inference tasks on the cache (use_cache in the Runtime) and is freed    *)
(* (_free / force_free).  The handles of one request always travel         *)
(* together, so a request stands for its group of handles.                 *)
(***************************************************************************)
EXTENDS Integers, Sequences, FiniteSets, SequencesExt

CONSTANTS
    Reqs,        \* allocation requests (each is made at most once)
    NoReq,       \* not a request
    Tokens,      \* Tokens[r]: alloc_tokens_num of r
    Timeout,     \* Timeout[r]: "zero" | "finite" | "none" (None or inf)
    Handler,     \* Handler[r]: the connection-handler process that serves r
    MaxTokens,   \* max_size_tokens
    LeakyEnter,  \* a timed-out enter_asynchronously may keep the lock
    Disconnects  \* a session may end while one of its tasks is still queued

ASSUME ReqsAssumption == NoReq \notin Reqs
ASSUME MaxTokensAssumption == MaxTokens \in Nat
ASSUME TokensAssumption == Tokens \in [Reqs -> Nat \ {0}]
ASSUME TimeoutAssumption == Timeout \in [Reqs -> {"zero", "finite", "none"}]
ASSUME FlagsAssumption == LeakyEnter \in BOOLEAN /\ Disconnects \in BOOLEAN

VARIABLES
    pc,        \* where the coroutine _schedule_alloc of each request is
    thr,       \* its executor thread inside _wait_until_available
    orphans,   \* timed-out requests whose thread still waits for the lock
    lock,      \* holder of _lock_acquire_memory
    event,     \* _memory_freed_event
    current,   \* _current_size
    enqueued,  \* _enqueued_tokens
    groups,    \* requests with an entry in _allocation_tokens
    toSet,     \* requests inside force_free, before event.set()
    pipe,      \* messages from the handlers to the Runtime
    tensors,   \* _allocated_tensors of the Runtime
    queued,    \* requests with an inference task waiting in a task pool
    served,    \* requests whose task was submitted once
    rtPhase,   \* where the Runtime is in use_cache
    rtReq      \* the request it is using the cache of

allocVars == <<pc, thr, orphans, lock, event, current, enqueued, groups, toSet>>
runtimeVars == <<tensors, queued, served, rtPhase, rtReq>>
vars == <<allocVars, pipe, runtimeVars>>

Waiting == {"enqueued", "lockwait", "locked", "waiting", "granted", "failing"}
PCs == Waiting \cup {"idle", "dequeued", "live", "freed", "failed"}
Message == [op : {"create", "delete"}, req : Reqs]

TypeOK ==
    /\ pc \in [Reqs -> PCs]
    /\ thr \in [Reqs -> {"none", "check", "wait", "asleep", "woken", "clear", "ok", "fail"}]
    /\ orphans \subseteq Reqs
    /\ lock \in Reqs \cup {NoReq}
    /\ event \in BOOLEAN
    /\ current \in Nat
    /\ enqueued \in Int
    /\ groups \subseteq Reqs
    /\ toSet \subseteq Reqs
    /\ pipe \in Seq(Message)
    /\ tensors \subseteq Reqs
    /\ queued \subseteq Reqs
    /\ served \subseteq Reqs
    /\ rtPhase \in {"idle", "drain", "need"}
    /\ rtReq \in Reqs \cup {NoReq}

Init ==
    /\ pc = [r \in Reqs |-> "idle"]
    /\ thr = [r \in Reqs |-> "none"]
    /\ orphans = {}
    /\ lock = NoReq
    /\ event = FALSE
    /\ current = 0
    /\ enqueued = 0
    /\ groups = {}
    /\ toSet = {}
    /\ pipe = <<>>
    /\ tensors = {}
    /\ queued = {}
    /\ served = {}
    /\ rtPhase = "idle"
    /\ rtReq = NoReq

(***************************************************************************)
(* Between the release of the lock and the registration of the handles a   *)
(* coroutine does not await, so no other coroutine of the same process     *)
(* runs.  Executor threads and other processes do.                         *)
(***************************************************************************)
LoopFree(r) ==
    \A q \in Reqs \ {r} : Handler[q] = Handler[r] => pc[q] \notin {"granted", "dequeued"}

\* Mutant: the size of the request itself is left out of the comparison.
FitsWithoutSelf(r) == current <= MaxTokens

Fits(r) == current + Tokens[r] <= MaxTokens

Goto(r, l) == pc' = [pc EXCEPT ![r] = l]

-----------------------------------------------------------------------------
(* _wait_for_free_memory: queue, immediate refusal, the lock, the wait     *)

Enqueue(r) ==
    /\ pc[r] = "idle" /\ LoopFree(r)
    /\ enqueued' = enqueued + Tokens[r]
    /\ Goto(r, "enqueued")
    /\ UNCHANGED <<thr, orphans, lock, event, current, groups, toSet, pipe, runtimeVars>>

TryImmediate(r) ==
    /\ pc[r] = "enqueued" /\ LoopFree(r)
    /\ Goto(r, IF Timeout[r] = "zero" /\ current + enqueued > MaxTokens
               THEN "failing" ELSE "lockwait")
    /\ UNCHANGED <<thr, orphans, lock, event, current, enqueued, groups, toSet,
                   pipe, runtimeVars>>

\* The executor thread of enter_asynchronously gets the multiprocessing lock.
AcquireLock(r) ==
    /\ pc[r] = "lockwait" /\ lock = NoReq
    /\ lock' = r
    /\ Goto(r, "locked")
    /\ UNCHANGED <<thr, orphans, event, current, enqueued, groups, toSet, pipe, runtimeVars>>

\* Enough room: the `async with` block ends and releases the lock at once.
CheckFits(r) ==
    /\ pc[r] = "locked" /\ LoopFree(r) /\ Fits(r)
    /\ lock' = NoReq
    /\ Goto(r, "granted")
    /\ UNCHANGED <<thr, orphans, event, current, enqueued, groups, toSet, pipe, runtimeVars>>

\* No room: zero timeout fails, any other starts _wait_until_available.
CheckFull(r) ==
    /\ pc[r] = "locked" /\ LoopFree(r) /\ ~Fits(r)
    /\ IF Timeout[r] = "zero"
       THEN Goto(r, "failing") /\ lock' = NoReq /\ UNCHANGED thr
       ELSE /\ Goto(r, "waiting")
            /\ thr' = [thr EXCEPT ![r] = IF Tokens[r] > MaxTokens THEN "fail" ELSE "check"]
            /\ UNCHANGED lock
    /\ UNCHANGED <<orphans, event, current, enqueued, groups, toSet, pipe, runtimeVars>>

\* The coroutine resumes when its executor thread has finished.
WaitDone(r) ==
    /\ pc[r] = "waiting" /\ LoopFree(r) /\ thr[r] \in {"ok", "fail"}
    /\ lock' = NoReq
    /\ Goto(r, IF thr[r] = "ok" THEN "granted" ELSE "failing")
    /\ thr' = [thr EXCEPT ![r] = "none"]
    /\ UNCHANGED <<orphans, event, current, enqueued, groups, toSet, pipe, runtimeVars>>

\* Mutant: the time limit starts only once the lock is held.
AsyncTimeoutAfterLock(r) ==
    /\ Timeout[r] = "finite" /\ LoopFree(r)
    /\ \/ pc[r] = "locked" /\ lock' \in {NoReq, IF LeakyEnter THEN r ELSE NoReq}
       \/ pc[r] = "waiting" /\ lock' = NoReq
    /\ Goto(r, "failing")
    /\ UNCHANGED <<thr, orphans, event, current, enqueued, groups, toSet, pipe, runtimeVars>>

\* async_timeout cancels the coroutine.  While it waits for the lock, its thread
\* stays behind; once it waits for memory, the lock is released but the thread
\* inside _wait_until_available keeps running.
AsyncTimeout(r) ==
    /\ Timeout[r] = "finite" /\ LoopFree(r)
    /\ \/ /\ pc[r] = "lockwait"
          /\ orphans' \in {orphans, IF LeakyEnter THEN orphans \cup {r} ELSE orphans}
          /\ UNCHANGED lock
       \/ /\ pc[r] = "locked"
          /\ lock' \in {NoReq, IF LeakyEnter THEN r ELSE NoReq}
          /\ UNCHANGED orphans
       \/ /\ pc[r] = "waiting"
          /\ lock' = NoReq
          /\ UNCHANGED orphans
    /\ Goto(r, "failing")
    /\ UNCHANGED <<thr, event, current, enqueued, groups, toSet, pipe, runtimeVars>>

\* The thread left behind gets the lock; nobody will release it.
OrphanAcquire(r) ==
    /\ r \in orphans /\ lock = NoReq
    /\ lock' = r
    /\ orphans' = orphans \ {r}
    /\ UNCHANGED <<pc, thr, event, current, enqueued, groups, toSet, pipe, runtimeVars>>

\* Mutant: the `finally` branch forgets the queued tokens.
FinishFailedNoUndo(r) ==
    /\ pc[r] = "failing" /\ LoopFree(r)
    /\ Goto(r, "failed")
    /\ UNCHANGED <<thr, orphans, lock, event, current, enqueued, groups, toSet,
                   pipe, runtimeVars>>

FinishFailed(r) ==
    /\ pc[r] = "failing" /\ LoopFree(r)
    /\ enqueued' = enqueued - Tokens[r]
    /\ Goto(r, "failed")
    /\ UNCHANGED <<thr, orphans, lock, event, current, groups, toSet, pipe, runtimeVars>>

Dequeue(r) ==
    /\ pc[r] = "granted"
    /\ enqueued' = enqueued - Tokens[r]
    /\ Goto(r, "dequeued")
    /\ UNCHANGED <<thr, orphans, lock, event, current, groups, toSet, pipe, runtimeVars>>

-----------------------------------------------------------------------------
(* _wait_until_available, in an executor thread                            *)

ThreadCheck(r) ==
    /\ thr[r] = "check"
    /\ thr' = [thr EXCEPT ![r] = IF Fits(r) THEN "ok" ELSE "wait"]
    /\ UNCHANGED <<pc, orphans, lock, event, current, enqueued, groups, toSet,
                   pipe, runtimeVars>>

\* Mutant: the event is cleared before the wait instead of after it.
ThreadWaitClearFirst(r) ==
    /\ thr[r] = "wait"
    /\ thr' = [thr EXCEPT ![r] = "asleep"]
    /\ event' = FALSE
    /\ UNCHANGED <<pc, orphans, lock, current, enqueued, groups, toSet, pipe, runtimeVars>>

\* multiprocessing.Event.wait returns the flag: at once when it is set, else
\* after a notification, when it may have been cleared again (then: failure).
ThreadWait(r) ==
    /\ \/ thr[r] = "wait" /\ thr' = [thr EXCEPT ![r] = IF event THEN "clear" ELSE "asleep"]
       \/ thr[r] = "woken" /\ thr' = [thr EXCEPT ![r] = IF event THEN "clear" ELSE "fail"]
    /\ UNCHANGED <<pc, orphans, lock, event, current, enqueued, groups, toSet,
                   pipe, runtimeVars>>

ThreadClear(r) ==
    /\ thr[r] = "clear"
    /\ event' = FALSE
    /\ thr' = [thr EXCEPT ![r] = "check"]
    /\ UNCHANGED <<pc, orphans, lock, current, enqueued, groups, toSet, pipe, runtimeVars>>

\* event.wait(remaining_time) runs out.
ThreadDeadline(r) ==
    /\ thr[r] = "asleep" /\ Timeout[r] = "finite"
    /\ thr' = [thr EXCEPT ![r] = "fail"]
    /\ UNCHANGED <<pc, orphans, lock, event, current, enqueued, groups, toSet,
                   pipe, runtimeVars>>

-----------------------------------------------------------------------------
(* _schedule_alloc registers the handles; force_free gives them back       *)

\* Mutant: the Runtime is not told about the new handles.
ScheduleAllocNoSend(r) ==
    /\ pc[r] = "dequeued"
    /\ current' = current + Tokens[r]
    /\ groups' = groups \cup {r}
    /\ Goto(r, "live")
    /\ UNCHANGED <<thr, orphans, lock, event, enqueued, toSet, pipe, runtimeVars>>

ScheduleAlloc(r) ==
    /\ pc[r] = "dequeued"
    /\ current' = current + Tokens[r]
    /\ groups' = groups \cup {r}
    /\ pipe' = Append(pipe, [op |-> "create", req |-> r])
    /\ Goto(r, "live")
    /\ UNCHANGED <<thr, orphans, lock, event, enqueued, toSet, runtimeVars>>

Monus(a, b) == IF a >= b THEN a - b ELSE 0

\* Mutant: no table of live groups, so a second free counts again.
ReleaseAgain(r) ==
    /\ groups' = groups \ {r}
    /\ pipe' = Append(pipe, [op |-> "delete", req |-> r])
    /\ current' = current - Tokens[r]
    /\ toSet' = toSet \cup {r}

\* The part of force_free under _lock_metadata, for the handles of r.
Release(r) ==
    /\ groups' = groups \ {r}
    /\ IF r \in groups
       THEN /\ pipe' = Append(pipe, [op |-> "delete", req |-> r])
            /\ current' = Monus(current, Tokens[r])
       ELSE UNCHANGED <<pipe, current>>
    /\ toSet' = toSet \cup {r}

InUse(r) == r \in queued \/ rtReq = r

\* KVCacheManager.delete_cache: force_free before the session ends.
DeleteCache(r) ==
    /\ pc[r] = "live" /\ LoopFree(r) /\ r \in groups /\ r \notin toSet
    /\ Disconnects \/ ~InUse(r)
    /\ Release(r)
    /\ UNCHANGED <<pc, thr, orphans, lock, event, enqueued, runtimeVars>>

\* The `finally` of allocate_cache: _free at the end of the session.
Free(r) ==
    /\ pc[r] = "live" /\ LoopFree(r) /\ r \notin toSet
    /\ Disconnects \/ ~InUse(r)
    /\ Release(r)
    /\ Goto(r, "freed")
    /\ UNCHANGED <<thr, orphans, lock, event, enqueued, runtimeVars>>

\* event.set() wakes every thread that sleeps in event.wait().
SetEvent(r) ==
    /\ r \in toSet
    /\ event' = TRUE
    /\ thr' = [q \in Reqs |-> IF thr[q] = "asleep" THEN "woken" ELSE thr[q]]
    /\ toSet' = toSet \ {r}
    /\ UNCHANGED <<pc, orphans, lock, current, enqueued, groups, pipe, runtimeVars>>

-----------------------------------------------------------------------------
(* The Runtime: inference tasks of live sessions call use_cache            *)

Submit(r) ==
    /\ pc[r] = "live" /\ LoopFree(r) /\ r \in groups \ served
    /\ queued' = queued \cup {r}
    /\ served' = served \cup {r}
    /\ UNCHANGED <<allocVars, pipe, tensors, rtPhase, rtReq>>

\* A pooled task cannot be cancelled (submit_task disables MPFuture.cancel).
UseCache(r) ==
    /\ rtPhase = "idle" /\ r \in queued
    /\ queued' = queued \ {r}
    /\ rtPhase' = "drain"
    /\ rtReq' = r
    /\ UNCHANGED <<allocVars, pipe, tensors, served>>

Apply(msg, S) == IF msg.op = "create" THEN S \cup {msg.req} ELSE S \ {msg.req}

\* One message of the pipe: while polling, or blocking on a missing handle.
ProcessMessage ==
    /\ pipe # <<>>
    /\ \/ rtPhase = "drain"
       \/ rtPhase = "need" /\ rtReq \notin tensors
    /\ tensors' = Apply(Head(pipe), tensors)
    /\ pipe' = Tail(pipe)
    /\ UNCHANGED <<allocVars, queued, served, rtPhase, rtReq>>

Drained ==
    /\ rtPhase = "drain" /\ pipe = <<>>
    /\ rtPhase' = "need"
    /\ UNCHANGED <<allocVars, pipe, tensors, queued, served, rtReq>>

\* All handles are there: the task runs and use_cache returns.
FinishUse ==
    /\ rtPhase = "need" /\ rtReq \in tensors
    /\ rtPhase' = "idle"
    /\ rtReq' = NoReq
    /\ UNCHANGED <<allocVars, pipe, tensors, queued, served>>

-----------------------------------------------------------------------------
Coroutine(r) ==
    \/ Enqueue(r) \/ TryImmediate(r) \/ CheckFits(r) \/ CheckFull(r) \/ WaitDone(r)
    \/ FinishFailed(r) \/ Dequeue(r) \/ ScheduleAlloc(r)

Thread(r) ==
    \/ AcquireLock(r) \/ OrphanAcquire(r)
    \/ ThreadCheck(r) \/ ThreadWait(r) \/ ThreadClear(r)

Runtime == ProcessMessage \/ Drained \/ FinishUse \/ \E r \in Reqs : UseCache(r)

Terminated ==
    /\ \A r \in Reqs : pc[r] \in {"freed", "failed"} /\ thr[r] \in {"none", "ok", "fail"}
    /\ toSet = {} /\ queued = {} /\ rtPhase = "idle"
    /\ UNCHANGED vars

Next ==
    \/ \E r \in Reqs :
          \/ Coroutine(r) \/ Thread(r)
          \/ AsyncTimeout(r) \/ ThreadDeadline(r)
          \/ DeleteCache(r) \/ Free(r) \/ SetEvent(r) \/ Submit(r)
    \/ Runtime
    \/ Terminated

(***************************************************************************)
(* Event loops, executor threads, timers and the Runtime keep running, and *)
(* every session ends (rpc_inference runs under session_timeout).  A       *)
(* request need not be made, and a live session need not submit a task.    *)
(***************************************************************************)
Fairness ==
    /\ \A r \in Reqs :
          /\ WF_vars(pc[r] # "idle" /\ Coroutine(r))
          /\ WF_vars(Thread(r))
          /\ WF_vars(AsyncTimeout(r))
          /\ WF_vars(ThreadDeadline(r))
          /\ WF_vars(Free(r))
          /\ WF_vars(SetEvent(r))
    /\ WF_vars(Runtime)

Spec == Init /\ [][Next]_vars /\ Fairness

-----------------------------------------------------------------------------
(***************************************************************************)
(* Properties                                                              *)
(***************************************************************************)

\* The shared counters agree with the requests they count: _current_size is the
\* sum over the registered groups (each freed once, although delete_cache and
\* _free may both free it), _enqueued_tokens the sum over the requests that
\* wait, on every success, failure and timeout path.
Accounting ==
    /\ current = SumFunctionOnSet(Tokens, groups)
    /\ enqueued = SumFunctionOnSet(Tokens, {r \in Reqs : pc[r] \in Waiting})

Replay(msgs) == FoldLeft(LAMBDA S, m : Apply(m, S), tensors, msgs)

\* The messages still in the pipe turn the Runtime's tensors into exactly the
\* registered groups: no tensor is leaked, none is dropped early.
RuntimeMirrors == Replay(pipe) = groups

\* The budget the counters enforce: tokens_left (max - current) stays >= 0.
WithinBudget == current <= MaxTokens


\* A thread that waits for _memory_freed_event waits for a reason: unless a
\* force_free is still about to set the event, its request does not fit, and
\* a thread that was woken finds the event set.
NoLostWakeup ==
    \A r \in Reqs :
        /\ thr[r] \in {"wait", "asleep"} /\ ~event /\ toSet = {} => ~Fits(r)
        /\ thr[r] = "woken" => event

Resolved(r) == pc[r] \in {"live", "freed", "failed"}

\* A request without a time limit that fits the cache is granted in the end.
UnlimitedServed ==
    \A r \in Reqs : Timeout[r] = "none" /\ Tokens[r] <= MaxTokens
        => (pc[r] = "enqueued" ~> pc[r] \in {"live", "freed"})

\* A request with a time limit is granted or refused.
FiniteResolves ==
    \A r \in Reqs : Timeout[r] = "finite" => (pc[r] = "enqueued" ~> Resolved(r))


=============================================================================
