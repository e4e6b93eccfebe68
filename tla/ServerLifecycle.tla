-------------------------- MODULE ServerLifecycle --------------------------
(***************************************************************************)
(* The life of a server: the loop of Server.run that loads a span of       *)
(* blocks, serves it and moves to other blocks; the announcer thread of    *)
(* every module container; and the records the swarm sees in the DHT       *)
(* (src/bloombee/server/server.py, src/bloombee/utils/dht.py).             *)
(*                                                                         *)
(* Every pass of the loop makes a container, a generation here.  One       *)
(* ServerInfo object is shared by all of them: announce() writes its state *)
(* in the main thread and the announcer reads it, at the moment it is      *)
(* pickled for the DHT process and once more after the store.              *)
(***************************************************************************)
EXTENDS Naturals, FiniteSets

CONSTANTS
    Blocks,    \* blocks of the model
    Spans,     \* sets of blocks the server may choose
    MaxGen     \* containers made in a behaviour

ASSUME LifecycleAssumption ==
    /\ MaxGen \in Nat \ {0} /\ Spans # {} /\ \A S \in Spans : S \subseteq Blocks

VARIABLES
    main,       \* where Server.run is
    gen,        \* the current container
    returning,  \* whether stop was seen by the loop
    stop,       \* Server.stop
    healthy,    \* whether handler processes and pools are alive
    span,       \* per generation, the blocks of its announcer
    loaded,     \* generations whose blocks were all loaded
    state,      \* server_info.state
    announcer,  \* per generation, where its thread is
    snapshot,   \* per generation, the state its announcer is storing
    trigger,    \* per generation, the event that wakes the announcer
    records     \* per block, this server's record in the DHT

mainVars == <<main, gen, returning, stop, healthy, span, loaded, state>>
annVars == <<announcer, snapshot, trigger>>
vars == <<mainVars, annVars, records>>

Gens == 1..MaxGen
States == {"JOINING", "ONLINE", "OFFLINE"}
NoRecord == [state |-> "none", gen |-> 0]

TypeOK ==
    /\ main \in {"choose", "load", "start", "serve", "shutdown", "joinLoad", "join",
                 "clear", "returned", "raised", "dead"}
    /\ gen \in 0..MaxGen
    /\ returning \in BOOLEAN /\ stop \in BOOLEAN /\ healthy \in BOOLEAN
    /\ span \in [Gens -> SUBSET Blocks]
    /\ loaded \subseteq Gens
    /\ state \in States
    /\ announcer \in [Gens -> {"new", "declare", "store", "check", "wait", "clear", "done"}]
    /\ snapshot \in [Gens -> States]
    /\ trigger \in [Gens -> BOOLEAN]
    /\ records \in [Blocks -> [state : States, gen : Gens] \cup {NoRecord}]

Init ==
    /\ main = "choose" /\ gen = 0
    /\ returning = FALSE /\ stop = FALSE /\ healthy = TRUE
    /\ span = [g \in Gens |-> {}]
    /\ loaded = {}
    /\ state = "JOINING"
    /\ announcer = [g \in Gens |-> "new"]
    /\ snapshot = [g \in Gens |-> "JOINING"]
    /\ trigger = [g \in Gens |-> FALSE]
    /\ records = [b \in Blocks |-> NoRecord]

---------------------------------------------------------------------------
(* The main thread.                                                        *)

(* announce(): the state first, then the trigger. *)
Announce(g, s) ==
    /\ state' = s
    /\ trigger' = [trigger EXCEPT ![g] = TRUE]
    /\ UNCHANGED <<announcer, snapshot>>

\* Mutant of ChooseBlocks: the container is ONLINE before its blocks are loaded
ChooseBlocksOnline ==
    /\ main = "choose" /\ gen < MaxGen
    /\ gen' = gen + 1
    /\ \E S \in Spans : span' = [span EXCEPT ![gen + 1] = S]
    /\ state' = "ONLINE"
    /\ announcer' = [announcer EXCEPT ![gen + 1] = "declare"]
    /\ main' = "load"
    /\ UNCHANGED <<returning, stop, healthy, loaded, snapshot, trigger, records>>

(* _choose_blocks and the first half of ModuleContainer.create. *)
ChooseBlocks ==
    /\ main = "choose" /\ gen < MaxGen
    /\ gen' = gen + 1
    /\ \E S \in Spans : span' = [span EXCEPT ![gen + 1] = S]
    /\ state' = "JOINING"
    /\ announcer' = [announcer EXCEPT ![gen + 1] = "declare"]
    /\ main' = "load"
    /\ UNCHANGED <<returning, stop, healthy, loaded, snapshot, trigger, records>>

(* The blocks are loaded and the container constructed, which announces it *)
(* before its handlers run.                                                *)
LoadBlocks ==
    /\ main = "load"
    /\ loaded' = loaded \cup {gen}
    /\ Announce(gen, "ONLINE")
    /\ main' = "start"
    /\ UNCHANGED <<gen, returning, stop, healthy, span, records>>

(* Loading or the reachability check raises; announce waits for the thread. *)
LoadFails ==
    /\ main = "load"
    /\ Announce(gen, "OFFLINE")
    /\ main' = "joinLoad"
    /\ UNCHANGED <<gen, returning, stop, healthy, span, loaded, records>>

JoinLoad ==
    /\ main = "joinLoad" /\ announcer[gen] = "done"
    /\ main' = "raised"
    /\ UNCHANGED <<gen, returning, stop, healthy, span, loaded, state, annVars, records>>

StartHandlers ==
    /\ main = "start"
    /\ main' = "serve" /\ healthy' = TRUE
    /\ UNCHANGED <<gen, returning, stop, span, loaded, state, annVars, records>>

HandlerCrashes ==
    /\ main = "serve" /\ healthy
    /\ healthy' = FALSE
    /\ UNCHANGED <<main, gen, returning, stop, span, loaded, state, annVars, records>>

RequestStop ==
    /\ ~stop /\ main \notin {"returned", "raised", "dead"}
    /\ stop' = TRUE
    /\ UNCHANGED <<main, gen, returning, healthy, span, loaded, state, annVars, records>>

(* One balance check: stop, a crashed subprocess, or a better span.  MaxGen *)
(* bounds the restarts.                                                    *)
LeaveServing ==
    /\ main = "serve"
    /\ \/ stop /\ returning' = TRUE
       \/ ~stop /\ ~healthy /\ gen < MaxGen /\ UNCHANGED returning
       \/ ~stop /\ healthy /\ gen < MaxGen /\ UNCHANGED returning
    /\ main' = "shutdown"
    /\ UNCHANGED <<gen, stop, healthy, span, loaded, state, annVars, records>>

(* ModuleContainer.shutdown announces OFFLINE and waits for the announcer. *)
AnnounceOffline ==
    /\ main = "shutdown"
    /\ Announce(gen, "OFFLINE")
    /\ main' = "join"
    /\ UNCHANGED <<gen, returning, stop, healthy, span, loaded, records>>

\* Mutant of JoinAnnouncer: announce does not wait for the thread
JoinAnnouncerSkipped ==
    /\ main = "join"
    /\ main' = "clear"
    /\ UNCHANGED <<gen, returning, stop, healthy, span, loaded, state, annVars, records>>

JoinAnnouncer ==
    /\ main = "join" /\ announcer[gen] = "done"
    /\ main' = "clear"
    /\ UNCHANGED <<gen, returning, stop, healthy, span, loaded, state, annVars, records>>

(* Handlers, pools, runtime and backends are shut down. *)
ClearContainer ==
    /\ main = "clear"
    /\ main' = IF returning THEN "returned" ELSE "choose"
    /\ UNCHANGED <<gen, returning, stop, healthy, span, loaded, state, annVars, records>>

(* The process is killed; its threads die with it. *)
ProcessDies ==
    /\ main \notin {"returned", "raised", "dead"}
    /\ main' = "dead"
    /\ announcer' = [g \in Gens |-> IF g <= gen THEN "done" ELSE "new"]
    /\ UNCHANGED <<gen, returning, stop, healthy, span, loaded, state, snapshot, trigger, records>>

---------------------------------------------------------------------------
(* The announcer of generation g (ModuleAnnouncerThread.run).              *)

\* Mutant of Declare: the state is read once, when the thread starts
DeclareFirstState(g) ==
    /\ announcer[g] = "declare"
    /\ announcer' = [announcer EXCEPT ![g] = "store"]
    /\ UNCHANGED <<mainVars, snapshot, trigger, records>>

Declare(g) ==
    /\ announcer[g] = "declare"
    /\ snapshot' = [snapshot EXCEPT ![g] = state]
    /\ announcer' = [announcer EXCEPT ![g] = "store"]
    /\ UNCHANGED <<mainVars, trigger, records>>

Store(g) ==
    /\ announcer[g] = "store"
    /\ records' = [b \in Blocks |->
           IF b \in span[g] THEN [state |-> snapshot[g], gen |-> g] ELSE records[b]]
    /\ announcer' = [announcer EXCEPT ![g] = "check"]
    /\ UNCHANGED <<mainVars, snapshot, trigger>>

\* Mutant of CheckOffline: the check needs the trigger, which the loop cleared
CheckOfflineOnlyWhenTriggered(g) ==
    /\ announcer[g] = "check"
    /\ announcer' = [announcer EXCEPT
           ![g] = IF state = "OFFLINE" /\ trigger[g] THEN "done" ELSE "wait"]
    /\ UNCHANGED <<mainVars, snapshot, trigger, records>>

CheckOffline(g) ==
    /\ announcer[g] = "check"
    /\ announcer' = [announcer EXCEPT ![g] = IF state = "OFFLINE" THEN "done" ELSE "wait"]
    /\ UNCHANGED <<mainVars, snapshot, trigger, records>>

(* The wait ends when the trigger is set or the update period is over. *)
Wait(g) ==
    /\ announcer[g] = "wait"
    /\ announcer' = [announcer EXCEPT ![g] = "clear"]
    /\ UNCHANGED <<mainVars, snapshot, trigger, records>>

ClearTrigger(g) ==
    /\ announcer[g] = "clear"
    /\ trigger' = [trigger EXCEPT ![g] = FALSE]
    /\ announcer' = [announcer EXCEPT ![g] = "declare"]
    /\ UNCHANGED <<mainVars, snapshot, records>>

AnnouncerStep(g) ==
    Declare(g) \/ Store(g) \/ CheckOffline(g) \/ Wait(g) \/ ClearTrigger(g)

(* A record that is not refreshed expires; a live announcer refreshes its  *)
(* records within the expiration time.                                     *)
Expire(b) ==
    /\ records[b] # NoRecord
    /\ announcer[records[b].gen] = "done"
    /\ records' = [records EXCEPT ![b] = NoRecord]
    /\ UNCHANGED <<mainVars, annVars>>

---------------------------------------------------------------------------
MainStep ==
    \/ ChooseBlocks \/ LoadBlocks \/ StartHandlers \/ AnnounceOffline
    \/ JoinLoad \/ JoinAnnouncer \/ ClearContainer

Next ==
    \/ MainStep \/ LoadFails \/ LeaveServing
    \/ HandlerCrashes \/ RequestStop \/ ProcessDies
    \/ \E g \in 1..gen : AnnouncerStep(g)
    \/ \E b \in Blocks : Expire(b)

Spec == Init /\ [][Next]_vars

(* Threads run, a stop request is seen at the next balance check, and      *)
(* records expire.                                                         *)
Fairness ==
    /\ WF_vars(MainStep)
    /\ WF_vars(LeaveServing /\ stop)
    /\ \A g \in Gens : WF_vars(g <= gen /\ AnnouncerStep(g))
    /\ \A b \in Blocks : WF_vars(Expire(b))

FairSpec == Spec /\ Fairness

---------------------------------------------------------------------------
(* The properties.                                                         *)

(* The swarm sees a block of this server as ONLINE only if the container   *)
(* that declared it had loaded all of its blocks (create announces JOINING *)
(* until then).                                                            *)
OnlineIsLoaded ==
    \A b \in Blocks : records[b].state = "ONLINE" => records[b].gen \in loaded

(* Records are written only by the announcer of the current container: the *)
(* announcer of a span the server has left never declares it again, with   *)
(* the state of the next span (announce joins the thread).                 *)
OnlyCurrentSpanDeclared ==
    [][\A b \in Blocks : records'[b] # records[b] /\ records'[b] # NoRecord =>
           records'[b].gen = gen]_vars

(* A container that keeps serving becomes visible as ONLINE: setting the   *)
(* state between the announcer's wait and its clear is not lost.           *)
ServingIsVisible ==
    (main = "serve") ~> \/ main # "serve"
                        \/ \A b \in span[gen] : records[b] = [state |-> "ONLINE", gen |-> gen]

(* Shutting down never hangs: waiting for the announcer ends, wherever the *)
(* thread was; and after a stop request the swarm comes to see no block of *)
(* this server as joining or online, at the latest when its records expire *)
(* (announce, shutdown).                                                   *)
StopIsSeen ==
    /\ (main \in {"join", "joinLoad"}) ~> (main \notin {"join", "joinLoad"})
    /\ <>stop => <>[](\A b \in Blocks : records[b].state \in {"none", "OFFLINE"})
===========================================================================
