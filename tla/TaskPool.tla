------------------------------ MODULE TaskPool ------------------------------
(***************************************************************************)
(* The prioritized task pools of a server and the runtime that serves them *)
(* (src/bloombee/server/task_pool.py).  Connection handlers, in processes  *)
(* of their own, submit tasks; the thread of a pool moves them into its    *)
(* priority queue; the runtime (hivemind, external) picks the pool whose   *)
(* advertised priority is best among those with a token in their pipe,     *)
(* loads a task from it and sends back the result or the exception.        *)
(*                                                                         *)
(* submit_task and the end of load_batch_to_runtime share the advertised   *)
(* priority without a lock; each of its two fields is written on its own.  *)
(***************************************************************************)
EXTENDS Naturals, Sequences, FiniteSets

CONSTANTS
    Tasks,        \* tasks, each submitted once
    Pools,        \* PrioritizedTaskPool instances
    Priority,     \* per pool, what the prioritizer gives its tasks; lower is better
    Prefetch,     \* batches the runtime loads ahead of processing
    MayStop       \* TRUE when pools may be shut down

ASSUME PoolAssumption ==
    /\ Priority \in [Pools -> 0..98] /\ Prefetch \in Nat \ {0} /\ MayStop \in BOOLEAN
    /\ IsFiniteSet(Tasks) /\ Cardinality(Tasks) < 99

VARIABLES
    pc,          \* per task, how far its submit_task has got
    pool,        \* per task, the pool it is submitted to
    stamp,       \* per task, Task.time_submitted
    clock,       \* time.monotonic, one tick per task
    submitted,   \* per pool, submitted_tasks; Stop is the None of shutdown
    ordered,     \* per pool, the tasks in _ordered_tasks
    tokens,      \* per pool, the messages in its pipe
    advPriority, \* per pool, _priority
    advStamp,    \* per pool, _oldest_undispatched_timestamp
    running,     \* per pool, whether its thread has not stopped
    runtime,     \* what the runtime does, and with which pool
    batches,     \* tasks loaded and not yet processed, in order
    dispatched,  \* per pool, _dispatched_tasks
    outbox,      \* outcomes on their way back to the pool
    future       \* per task, the state of its future

taskVars == <<pool, stamp, clock>>
advVars == <<advPriority, advStamp>>
runtimeVars == <<runtime, batches>>
vars == <<pc, taskVars, submitted, ordered, tokens, advVars, running,
          runtimeVars, dispatched, outbox, future>>

Stop == "stop"
Infinity == 99
Stages == {"new", "created", "put", "sent", "setPriority", "setStamp", "submitted", "rejected"}
Selecting == [state |-> "select"]
Outcomes == {"result", "exception"}

TypeOK ==
    /\ pc \in [Tasks -> Stages]
    /\ pool \in [Tasks -> Pools]
    /\ stamp \in [Tasks -> 0..Cardinality(Tasks)]
    /\ clock \in 0..Cardinality(Tasks)
    /\ submitted \in [Pools -> Seq(Tasks \cup {Stop})]
    /\ ordered \in [Pools -> SUBSET Tasks]
    /\ tokens \in [Pools -> 0..Cardinality(Tasks)]
    /\ advPriority \in [Pools -> 0..Infinity]
    /\ advStamp \in [Pools -> 0..Cardinality(Tasks) \cup {Infinity}]
    /\ running \in [Pools -> BOOLEAN]
    /\ runtime \in {Selecting} \cup [state : {"load", "refresh"}, pool : Pools]
                      \cup [state : {"refreshStamp"}, pool : Pools, first : Tasks]
    /\ batches \in Seq(Tasks)
    /\ dispatched \in [Pools -> SUBSET Tasks]
    /\ outbox \subseteq Tasks \X Outcomes
    /\ future \in [Tasks -> {"pending"} \cup Outcomes]

Init ==
    /\ pc = [t \in Tasks |-> "new"]
    /\ pool \in [Tasks -> Pools]
    /\ stamp = [t \in Tasks |-> 0]
    /\ clock = 0
    /\ submitted = [p \in Pools |-> <<>>]
    /\ ordered = [p \in Pools |-> {}]
    /\ tokens = [p \in Pools |-> 0]
    /\ advPriority = [p \in Pools |-> Infinity]
    /\ advStamp = [p \in Pools |-> Infinity]
    /\ running = [p \in Pools |-> TRUE]
    /\ runtime = Selecting
    /\ batches = <<>>
    /\ dispatched = [p \in Pools |-> {}]
    /\ outbox = {}
    /\ future = [t \in Tasks |-> "pending"]

(* The order of Task and of the priority tuples. *)
Better(p1, s1, p2, s2) == p1 < p2 \/ (p1 = p2 /\ s1 < s2)

(* Inference steps go before forward and backward passes, which have pools *)
(* of their own.                                                           *)
prioritize(t) == Priority[pool[t]]

Best(t, S) == t \in S /\ \A u \in S \ {t} :
    ~Better(prioritize(u), stamp[u], prioritize(t), stamp[t])

---------------------------------------------------------------------------
(* submit_task, in a handler process.                                      *)

(* A task that is too large is refused at once. *)
Create(t) ==
    /\ pc[t] = "new"
    /\ clock' = clock + 1
    /\ stamp' = [stamp EXCEPT ![t] = clock + 1]
    /\ \/ /\ pc' = [pc EXCEPT ![t] = "created"]
          /\ UNCHANGED future
       \/ /\ pc' = [pc EXCEPT ![t] = "rejected"]
          /\ future' = [future EXCEPT ![t] = "exception"]
    /\ UNCHANGED <<pool, submitted, ordered, tokens, advVars, running,
                   runtimeVars, dispatched, outbox>>

Put(t) ==
    /\ pc[t] = "created"
    /\ submitted' = [submitted EXCEPT ![pool[t]] = Append(@, t)]
    /\ pc' = [pc EXCEPT ![t] = "put"]
    /\ UNCHANGED <<taskVars, ordered, tokens, advVars, running, runtimeVars,
                   dispatched, outbox, future>>

\* Mutant of Send: the pipe is written only for a task that is more urgent.
SendWhenBetter(t) ==
    /\ pc[t] = "put"
    /\ tokens' = [tokens EXCEPT ![pool[t]] = IF prioritize(t) < advPriority[pool[t]] THEN @ + 1 ELSE @]
    /\ pc' = [pc EXCEPT ![t] = "sent"]
    /\ UNCHANGED <<taskVars, submitted, ordered, advVars, running, runtimeVars,
                   dispatched, outbox, future>>

Send(t) ==
    /\ pc[t] = "put"
    /\ tokens' = [tokens EXCEPT ![pool[t]] = @ + 1]
    /\ pc' = [pc EXCEPT ![t] = "sent"]
    /\ UNCHANGED <<taskVars, submitted, ordered, advVars, running, runtimeVars,
                   dispatched, outbox, future>>

Compare(t) ==
    LET p == pool[t]
    IN  /\ pc[t] = "sent"
        /\ pc' = [pc EXCEPT ![t] =
               IF Better(prioritize(t), stamp[t], advPriority[p], advStamp[p])
               THEN "setPriority" ELSE "submitted"]
        /\ UNCHANGED <<taskVars, submitted, ordered, tokens, advVars, running,
                       runtimeVars, dispatched, outbox, future>>

SetPriority(t) ==
    /\ pc[t] = "setPriority"
    /\ advPriority' = [advPriority EXCEPT ![pool[t]] = prioritize(t)]
    /\ pc' = [pc EXCEPT ![t] = "setStamp"]
    /\ UNCHANGED <<taskVars, submitted, ordered, tokens, advStamp, running,
                   runtimeVars, dispatched, outbox, future>>

SetStamp(t) ==
    /\ pc[t] = "setStamp"
    /\ advStamp' = [advStamp EXCEPT ![pool[t]] = stamp[t]]
    /\ pc' = [pc EXCEPT ![t] = "submitted"]
    /\ UNCHANGED <<taskVars, submitted, ordered, tokens, advPriority, running,
                   runtimeVars, dispatched, outbox, future>>

SubmitStep(t) ==
    Create(t) \/ Put(t) \/ Send(t) \/ Compare(t) \/ SetPriority(t) \/ SetStamp(t)

---------------------------------------------------------------------------
(* The thread of a pool.                                                   *)

Run(p) ==
    /\ running[p] /\ submitted[p] # <<>>
    /\ submitted' = [submitted EXCEPT ![p] = Tail(@)]
    /\ LET t == Head(submitted[p])
       IN  \/ /\ t = Stop
              /\ running' = [running EXCEPT ![p] = FALSE]
              /\ UNCHANGED ordered
           \/ /\ t # Stop
              /\ ordered' = [ordered EXCEPT ![p] = @ \cup {t}]
              /\ UNCHANGED running
    /\ UNCHANGED <<pc, taskVars, tokens, advVars, runtimeVars, dispatched, outbox, future>>

Stopped(p) == ~running[p] \/ \E n \in 1..Len(submitted[p]) : submitted[p][n] = Stop

Shutdown(p) ==
    /\ MayStop /\ ~Stopped(p)
    /\ submitted' = [submitted EXCEPT ![p] = Append(@, Stop)]
    /\ UNCHANGED <<pc, taskVars, ordered, tokens, advVars, running, runtimeVars,
                   dispatched, outbox, future>>

---------------------------------------------------------------------------
(* The runtime.                                                            *)

Ready == {p \in Pools : tokens[p] > 0}

(* min over the pools whose pipe is readable, by advertised priority. *)
Select(p) ==
    /\ runtime = Selecting /\ Len(batches) <= Prefetch
    /\ p \in Ready
    /\ \A q \in Ready : ~Better(advPriority[q], advStamp[q], advPriority[p], advStamp[p])
    /\ runtime' = [state |-> "load", pool |-> p]
    /\ UNCHANGED <<pc, taskVars, submitted, ordered, tokens, advVars, running,
                   batches, dispatched, outbox, future>>

(* load_batch_to_runtime up to recv; get blocks while the queue is empty. *)
Load(p, t) ==
    /\ runtime = [state |-> "load", pool |-> p]
    /\ Best(t, ordered[p])
    /\ ordered' = [ordered EXCEPT ![p] = @ \ {t}]
    /\ dispatched' = [dispatched EXCEPT ![p] = @ \cup {t}]
    /\ tokens' = [tokens EXCEPT ![p] = @ - 1]
    /\ batches' = Append(batches, t)
    /\ runtime' = [state |-> "refresh", pool |-> p]
    /\ UNCHANGED <<pc, taskVars, submitted, advVars, running, outbox, future>>

(* The rest of it: the advertised priority becomes that of the first task  *)
(* left, if there is one.                                                  *)
Refresh(p) ==
    /\ runtime = [state |-> "refresh", pool |-> p]
    /\ \/ /\ ordered[p] = {}
          /\ runtime' = Selecting
          /\ UNCHANGED advPriority
       \/ \E t \in ordered[p] :
          /\ Best(t, ordered[p])
          /\ advPriority' = [advPriority EXCEPT ![p] = prioritize(t)]
          /\ runtime' = [state |-> "refreshStamp", pool |-> p, first |-> t]
    /\ UNCHANGED <<pc, taskVars, submitted, ordered, tokens, advStamp, running,
                   batches, dispatched, outbox, future>>

RefreshStamp ==
    /\ runtime.state = "refreshStamp"
    /\ advStamp' = [advStamp EXCEPT ![runtime.pool] = stamp[runtime.first]]
    /\ runtime' = Selecting
    /\ UNCHANGED <<pc, taskVars, submitted, ordered, tokens, advPriority, running,
                   batches, dispatched, outbox, future>>

(* process_func returns or raises; a sender thread hands the outcome over. *)
ProcessBatch ==
    /\ batches # <<>>
    /\ \E o \in Outcomes : outbox' = outbox \cup {<<Head(batches), o>>}
    /\ batches' = Tail(batches)
    /\ UNCHANGED <<pc, taskVars, submitted, ordered, tokens, advVars, running,
                   runtime, dispatched, future>>

\* Mutant of SendFromRuntime: the task stays in _dispatched_tasks.
SendKeepsTask(t, o) ==
    /\ <<t, o>> \in outbox
    /\ outbox' = outbox \ {<<t, o>>}
    /\ future' = [future EXCEPT ![t] = IF t \in dispatched[pool[t]] THEN o ELSE @]
    /\ UNCHANGED <<pc, taskVars, submitted, ordered, tokens, advVars, running, runtimeVars, dispatched>>

SendFromRuntime(t, o) ==
    /\ <<t, o>> \in outbox
    /\ outbox' = outbox \ {<<t, o>>}
    /\ dispatched' = [dispatched EXCEPT ![pool[t]] = @ \ {t}]
    /\ future' = [future EXCEPT ![t] = IF t \in dispatched[pool[t]] THEN o ELSE @]
    /\ UNCHANGED <<pc, taskVars, submitted, ordered, tokens, advVars, running, runtimeVars>>

---------------------------------------------------------------------------
RuntimeStep ==
    \/ \E p \in Pools : Select(p)
    \/ \E p \in Pools : \E t \in ordered[p] : Load(p, t)
    \/ \E p \in Pools : Refresh(p)
    \/ RefreshStamp

Next ==
    \/ \E t \in Tasks : SubmitStep(t)
    \/ \E p \in Pools : Run(p)
    \/ \E p \in Pools : Shutdown(p)
    \/ RuntimeStep
    \/ ProcessBatch
    \/ \E t \in Tasks, o \in Outcomes : SendFromRuntime(t, o)

Spec == Init /\ [][Next]_vars

(* Handlers, pool threads, the runtime and its senders keep running. *)
Fairness ==
    /\ \A t \in Tasks : WF_vars(SubmitStep(t) /\ pc[t] # "new")
    /\ \A p \in Pools : WF_vars(Run(p))
    /\ WF_vars(RuntimeStep)
    /\ WF_vars(ProcessBatch)
    /\ \A t \in Tasks, o \in Outcomes : WF_vars(SendFromRuntime(t, o))

FairSpec == Spec /\ Fairness
---------------------------------------------------------------------------
(* The properties.                                                         *)

Accepted == {"put", "sent", "setPriority", "setStamp", "submitted"}

TasksOf(p) == {t \in Tasks : \E n \in 1..Len(submitted[p]) : submitted[p][n] = t} \cup ordered[p]

(* A task that was handed to a pool is in exactly one place until its      *)
(* future is settled: waiting in its pool or dispatched.  It is neither    *)
(* lost nor processed again (run, load_batch_to_runtime, send_*_runtime).  *)
NoLostTask ==
    \A t \in Tasks : pc[t] \in Accepted =>
        /\ future[t] # "pending" => t \notin TasksOf(pool[t]) \cup dispatched[pool[t]]
        /\ future[t] = "pending" =>
               (t \in TasksOf(pool[t])) # (t \in dispatched[pool[t]])

(* The future of every task a handler began to submit is settled, whatever *)
(* the advertised priorities of the pools are in the meantime.             *)
TaskSettles ==
    \A t \in Tasks : (pc[t] # "new") ~>
        (future[t] # "pending" \/ \E p \in Pools : Stopped(p))

===========================================================================
