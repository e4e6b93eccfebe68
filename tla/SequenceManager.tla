-------------------------- MODULE SequenceManager --------------------------
(***************************************************************************)
(* The client's view of the swarm: RemoteSequenceManager, its update       *)
(* thread, its routing table and the ban list                              *)
(* (src/bloombee/client/routing/sequence_manager.py, sequence_info.py).    *)
(*                                                                         *)
(* The manager keeps two tables: block_infos, the servers known per block, *)
(* and the spans computed from them when an update is applied.  Routes are *)
(* made from the spans; a failed request removes the peer from block_infos *)
(* only.  Delays decide which of the possible routes is taken and are not  *)
(* modelled: any route of the graph may be the shortest.                   *)
(***************************************************************************)
EXTENDS Spans, Sequences

CONSTANTS
    Callers,       \* threads that make and use routes
    Modes,         \* the routing modes they use
    Declarations,  \* spans the servers may declare, as <<start, end>>
    MaxChanges,    \* changes of the swarm in a behaviour
    MaxFailures    \* failed requests in a behaviour

VARIABLES
    swarm,      \* what every server declares, one record for all its blocks
    changes,
    failures,
    thread,     \* where the update thread is
    fetched,    \* the infos of the update in progress: as read and as filtered
    trigger,    \* the event that wakes the update thread
    ready,      \* the event set by a finished update
    infos,      \* block_infos
    table,      \* spans_by_priority and spans_containing_block
    banned,     \* peers in banned_peers
    caller,     \* where every caller is
    mode,
    from,       \* the first block of the route being made
    route,      \* its hops
    requested   \* whether an update was requested since the last fetch began

tableVars == <<infos, table>>
threadVars == <<thread, fetched>>
callVars == <<caller, mode, from, route>>
vars == <<swarm, changes, failures, threadVars, trigger, ready, tableVars, banned,
          callVars, requested>>

Hop == [peer : Peers, start : Blocks, end : 1..NumBlocks]
Infos == [Blocks -> [Peers -> Records]]
SpanRecords == [start : Blocks, end : 1..NumBlocks, state : {ONLINE}] \cup {NoSpan}
Declared == [state : {OFFLINE, JOINING, ONLINE}, span : Declarations]
Gone == [state |-> -1, span |-> <<0, 0>>]

NoInfos == [b \in Blocks |-> [p \in Peers |-> Absent]]
NoFetch == [read |-> NoInfos, kept |-> NoInfos]

TypeOK ==
    /\ swarm \in [Peers -> Declared \cup {Gone}]
    /\ changes \in 0..MaxChanges /\ failures \in 0..MaxFailures
    /\ thread \in {"fetch", "apply", "ping", "wait"}
    /\ fetched.read \in Infos /\ fetched.kept \in Infos
    /\ trigger \in BOOLEAN /\ ready \in BOOLEAN /\ requested \in BOOLEAN
    /\ infos \in Infos
    /\ table \in [Peers -> SpanRecords]
    /\ banned \subseteq Peers
    /\ caller \in [Callers -> {"idle", "wait", "route", "use"}]
    /\ mode \in [Callers -> Modes \cup {"none"}]
    /\ from \in [Callers -> Blocks]
    /\ \A c \in Callers : route[c] \in Seq(Hop) /\ Len(route[c]) <= NumBlocks

Init ==
    /\ swarm \in [Peers -> {[state |-> ONLINE, span |-> d] : d \in Declarations}]
    /\ changes = 0 /\ failures = 0
    /\ thread = "fetch" /\ fetched = NoFetch
    /\ trigger = FALSE /\ ready = FALSE
    /\ infos = NoInfos /\ table = [p \in Peers |-> NoSpan]
    /\ banned = {}
    /\ caller = [c \in Callers |-> "idle"]
    /\ mode = [c \in Callers |-> "none"]
    /\ from = [c \in Callers |-> 0]
    /\ route = [c \in Callers |-> << >>]
    /\ requested = FALSE

---------------------------------------------------------------------------
(* The swarm: a server declares another span or state, or its records      *)
(* expire.                                                                 *)
SwarmChanges(p) ==
    /\ changes < MaxChanges
    /\ \E d \in (Declared \cup {Gone}) \ {swarm[p]} : swarm' = [swarm EXCEPT ![p] = d]
    /\ changes' = changes + 1
    /\ UNCHANGED <<failures, threadVars, trigger, ready, tableVars, banned, callVars, requested>>

---------------------------------------------------------------------------
(* The update thread.                                                      *)

(* get_remote_module_infos. *)
ReadSwarm ==
    [b \in Blocks |-> [p \in Peers |->
        IF /\ swarm[p] # Gone
           /\ swarm[p].span[1] <= b /\ b < swarm[p].span[2]
        THEN [state |-> swarm[p].state, start |-> swarm[p].span[1], end |-> swarm[p].span[2]]
        ELSE Absent]]

Known(info) == {p \in Peers : info[p] # Absent}

(* Banned peers leave a block unless no peer would be left. *)
WithoutBanned(info) ==
    IF Known(info) \subseteq banned THEN info
    ELSE [p \in Peers |-> IF p \in banned THEN Absent ELSE info[p]]

(* The thread clears the trigger, reads the DHT and filters what it read. *)
Fetch ==
    /\ thread = "fetch"
    /\ trigger' = FALSE /\ requested' = FALSE
    /\ fetched' = [read |-> ReadSwarm,
                   kept |-> [b \in Blocks |-> WithoutBanned(ReadSwarm[b])]]
    /\ thread' = "apply"
    /\ UNCHANGED <<swarm, changes, failures, ready, tableVars, banned, callVars>>

(* The DHT call raises; the thread logs it and waits. *)
FetchFails ==
    /\ thread = "fetch" /\ failures < MaxFailures
    /\ failures' = failures + 1
    /\ trigger' = FALSE /\ requested' = FALSE
    /\ thread' = "wait"
    /\ UNCHANGED <<swarm, changes, fetched, ready, tableVars, banned, callVars>>

(* update_ under lock_changes. *)
Apply ==
    /\ thread = "apply"
    /\ infos' = fetched.kept
    /\ table' = compute_spans(fetched.kept, ONLINE)
    /\ thread' = "ping"
    /\ UNCHANGED <<swarm, changes, failures, fetched, trigger, ready, banned, callVars, requested>>

\* Mutant of MarkReady: the trigger is cleared after the update
MarkReadyClearsTrigger ==
    /\ thread = "ping"
    /\ ready' = TRUE
    /\ trigger' = FALSE
    /\ thread' = "wait"
    /\ UNCHANGED <<swarm, changes, failures, fetched, tableVars, banned, callVars, requested>>

(* The pings are over. *)
MarkReady ==
    /\ thread = "ping"
    /\ ready' = TRUE
    /\ thread' = "wait"
    /\ UNCHANGED <<swarm, changes, failures, fetched, trigger, tableVars, banned, callVars, requested>>

\* Mutant of ThreadWakes: no periodic update once one was ready
ThreadWakesOnTrigger ==
    /\ thread = "wait" /\ (trigger \/ ~ready)
    /\ thread' = "fetch"
    /\ UNCHANGED <<swarm, changes, failures, fetched, trigger, ready, tableVars, banned,
                   callVars, requested>>

(* The trigger is set, or the update period is over. *)
ThreadWakes ==
    /\ thread = "wait"
    /\ thread' = "fetch"
    /\ UNCHANGED <<swarm, changes, failures, fetched, trigger, ready, tableVars, banned,
                   callVars, requested>>

(* A ban runs out. *)
Unban(p) ==
    /\ p \in banned
    /\ banned' = banned \ {p}
    /\ UNCHANGED <<swarm, changes, failures, threadVars, trigger, ready, tableVars, callVars, requested>>

---------------------------------------------------------------------------
(* A caller.                                                               *)

(* The call is over and its local variables are gone. *)
Return(c) ==
    /\ caller' = [caller EXCEPT ![c] = "idle"]
    /\ mode' = [mode EXCEPT ![c] = "none"]
    /\ from' = [from EXCEPT ![c] = 0]
    /\ route' = [route EXCEPT ![c] = << >>]

RequestUpdate == ready' = FALSE /\ trigger' = TRUE /\ requested' = TRUE

(* make_sequence and rpc_info ask for an update when none is ready. *)
Call(c) ==
    /\ caller[c] = "idle"
    /\ \E m \in Modes, b \in Blocks :
           /\ mode' = [mode EXCEPT ![c] = m]
           /\ from' = [from EXCEPT ![c] = IF m = "info" THEN 0 ELSE b]
    /\ UNCHANGED route
    /\ \/ ready /\ caller' = [caller EXCEPT ![c] = "route"]
                /\ UNCHANGED <<trigger, ready, requested>>
       \/ ~ready /\ caller' = [caller EXCEPT ![c] = "wait"] /\ RequestUpdate
    /\ UNCHANGED <<swarm, changes, failures, threadVars, tableVars, banned>>

WaitReady(c) ==
    /\ caller[c] = "wait" /\ ready
    /\ caller' = [caller EXCEPT ![c] = "route"]
    /\ UNCHANGED <<swarm, changes, failures, threadVars, trigger, ready, tableVars, banned,
                   mode, from, route, requested>>

(* on_request_failure(peers): at most one peer, none when no route exists.  *)
OnRequestFailure(peers) ==
    /\ infos' = [b \in Blocks |->
           [p \in Peers |-> IF p \in peers THEN Absent ELSE infos[b][p]]]
    /\ IF \E b \in Blocks : Known(infos'[b]) = {}
       THEN RequestUpdate
       ELSE UNCHANGED <<ready, trigger, requested>>
    /\ UNCHANGED table

(* MissingBlocksError: the caller reports a failure without a peer. *)
NoRoute(c) == OnRequestFailure({}) /\ Return(c)

(* The hops of a sequence of peers, each left at its end. *)
HopsOf(peers, b) ==
    [k \in 1..Len(peers) |->
        [peer |-> peers[k],
         start |-> IF k = 1 THEN b ELSE table[peers[k - 1]].end,
         end |-> table[peers[k]].end]]

(* The paths of _build_inference_graph: a server is left only at its end. *)
Paths(b) ==
    {s \in UNION {[1..n -> Peers] : n \in 1..NumBlocks} :
        /\ Covers(table[s[1]], b)
        /\ \A k \in 1..(Len(s) - 1) : Covers(table[s[k + 1]], table[s[k]].end)
        /\ table[s[Len(s)]].end = NumBlocks}

(* _make_sequence_with_min_latency, under lock_changes. *)
RouteByLatency(c) ==
    /\ caller[c] = "route" /\ mode[c] = "min_latency"
    /\ \/ /\ \E b \in from[c]..(NumBlocks - 1) : \A p \in Peers : ~Covers(table[p], b)
          /\ NoRoute(c)
       \/ /\ \A b \in from[c]..(NumBlocks - 1) : \E p \in Peers : Covers(table[p], b)
          /\ \E s \in Paths(from[c]) : route' = [route EXCEPT ![c] = HopsOf(s, from[c])]
          /\ caller' = [caller EXCEPT ![c] = "use"]
          /\ UNCHANGED <<mode, from, tableVars, trigger, ready, requested>>
    /\ UNCHANGED <<swarm, changes, failures, threadVars, banned>>

RouteEnd(c) == IF route[c] = << >> THEN from[c] ELSE route[c][Len(route[c])].end


(* One turn of the loop of _make_sequence_with_max_throughput; it takes no *)
(* lock, so the table may change between two turns.                        *)
RouteByThroughput(c) ==
    /\ caller[c] = "route" /\ mode[c] = "max_throughput"
    /\ \/ \E p \in Peers :
              /\ Covers(table[p], RouteEnd(c))
              /\ route' = [route EXCEPT ![c] = Append(@,
                     [peer |-> p, start |-> RouteEnd(c), end |-> table[p].end])]
              /\ caller' = [caller EXCEPT ![c] = IF table[p].end < NumBlocks THEN "route" ELSE "use"]
              /\ UNCHANGED <<mode, from, tableVars, trigger, ready, requested>>
       \/ (\A p \in Peers : ~Covers(table[p], RouteEnd(c))) /\ NoRoute(c)
    /\ UNCHANGED <<swarm, changes, failures, threadVars, banned>>

(* rpc_info asks any ONLINE server of the first block. *)
RouteForInfo(c) ==
    /\ caller[c] = "route" /\ mode[c] = "info"
    /\ LET active == {p \in Peers : infos[0][p].state = ONLINE}
       IN  \/ \E p \in active :
                  /\ route' = [route EXCEPT ![c] = <<[peer |-> p, start |-> 0, end |-> 1]>>]
                  /\ caller' = [caller EXCEPT ![c] = "use"]
                  /\ UNCHANGED <<mode, from, tableVars, trigger, ready, requested>>
           \/ active = {} /\ NoRoute(c)
    /\ UNCHANGED <<swarm, changes, failures, threadVars, banned>>

(* Every hop answers. *)
Succeed(c) ==
    /\ caller[c] = "use"
    /\ banned' = banned \ {route[c][k].peer : k \in DOMAIN route[c]}
    /\ Return(c)
    /\ UNCHANGED <<swarm, changes, failures, threadVars, trigger, ready, tableVars, requested>>

(* The hops before k answer and hop k does not. *)
Fail(c) ==
    /\ caller[c] = "use" /\ failures < MaxFailures
    /\ \E k \in DOMAIN route[c] :
           LET p == route[c][k].peer
           IN  /\ banned' = (banned \ {route[c][j].peer : j \in 1..(k - 1)}) \cup {p}
               /\ OnRequestFailure({p})
    /\ failures' = failures + 1
    /\ Return(c)
    /\ UNCHANGED <<swarm, changes, threadVars>>

---------------------------------------------------------------------------
ThreadStep == Fetch \/ Apply \/ MarkReady \/ ThreadWakes

CallerStep(c) ==
    \/ Call(c) \/ WaitReady(c) \/ RouteByLatency(c) \/ RouteByThroughput(c)
    \/ RouteForInfo(c) \/ Succeed(c) \/ Fail(c)

Next ==
    \/ ThreadStep \/ FetchFails
    \/ \E p \in Peers : SwarmChanges(p) \/ Unban(p)
    \/ \E c \in Callers : CallerStep(c)

Spec == Init /\ [][Next]_vars

(* The update thread runs and bans run out.  *)
Fairness ==
    /\ WF_vars(ThreadStep)
    /\ \A p \in Peers : WF_vars(Unban(p))
    /\ \A c \in Callers : WF_vars(WaitReady(c))

FairSpec == Spec /\ Fairness

---------------------------------------------------------------------------
(* The properties.                                                         *)


(* The update thread never goes to sleep over a request: one made during   *)
(* an update is served by the next, without waiting for the period.        *)
NoRequestLost == thread = "wait" /\ requested => trigger

(* Once the swarm and the requests settle the table shows exactly the      *)
(* ONLINE spans of the swarm.                                              *)
TableConverges ==
    <>[](\A p \in Peers :
            IF swarm[p].state = ONLINE
            THEN table[p].start = swarm[p].span[1] /\ table[p].end = swarm[p].span[2]
            ELSE table[p] = NoSpan)
===========================================================================
