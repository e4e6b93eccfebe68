------------------------- MODULE InferenceHandler -------------------------
(***************************************************************************)
(* The inference sessions of one server: its handler processes, the event  *)
(* queues between them, the push queue of every session and the loop that  *)
(* turns direct requests and pushes into computed steps                    *)
(* (src/bloombee/server/handler.py, with the micro-batch accumulator of    *)
(* src/bloombee/server/block_functions.py).                                *)
(*                                                                         *)
(* A step of a session reaches the server twice: as the client's direct    *)
(* request on the session's stream, and as a push of the upstream server,  *)
(* either one push of the whole batch or NumMb pushes of a micro-batch     *)
(* each.  A push may land at any handler process.  A work item is          *)
(* [step, mb], with mb = FullBatch for the whole batch.                    *)
(***************************************************************************)
EXTENDS Naturals, Sequences, FiniteSets

CONSTANTS
    NumHandlers,   \* handler processes of the server
    Sessions,      \* session ids; every id is used once
    NumSteps,      \* steps a client issues in a session
    NumMb,         \* micro-batches of a step (total_micro_batches)
    FirstPushed,   \* the first step the upstream server pushes
    Paths,         \* how the upstream server may push: {"full", "micro"}
    EventCap,      \* maxsize of a handler's event queue
    FaultKinds,    \* "lose", "duplicate", "fail", "close"
    MaxFaults      \* how many of these may happen in a behaviour

ASSUME HandlerAssumption ==
    /\ NumHandlers \in Nat \ {0} /\ NumSteps \in Nat /\ NumMb \in Nat \ {0}
    /\ FirstPushed \in Nat /\ EventCap \in Nat /\ MaxFaults \in Nat
    /\ Paths \subseteq {"full", "micro"}
    /\ FaultKinds \subseteq {"lose", "duplicate", "fail", "close"}

VARIABLES
    issued,          \* per session, the last step the client has issued
    stream,          \* per session, the direct requests not yet read
    net,             \* pushes on their way to the server
    status,          \* per session, "new", "open" or "ended"
    owner,           \* per open session, the handler process that serves it
    sessionHandlers, \* per handler, its _session_handlers
    sessionQueue,    \* per open session, the queue in _session_queues
    events,          \* per handler, its _own_event_queue
    mbProcessed,     \* per handler, its _mb_processed; {} where there is no key
    mbReceived,      \* per handler, its _mb_received; 0 where there is no key
    request,         \* per session, the local "request" of the loop
    processedSteps,  \* per session, processed_step_ids
    mbSteps,         \* per session, microbatch_step_ids
    mbIds,           \* per session, processed_microbatch_ids
    accumulators,    \* per (session, step), the results in _MB_ACCUMULATORS
    work,            \* how often each item of a session was computed
    answered,        \* per session, the steps whose output was yielded
    faults

handlerVars == <<sessionHandlers, sessionQueue, events, mbProcessed, mbReceived>>
loopVars == <<processedSteps, mbSteps, mbIds, accumulators, work, answered>>
clientVars == <<issued, stream, net>>
vars == <<clientVars, status, owner, handlerVars, request, loopVars, faults>>

Handlers == 1..NumHandlers
Steps == 1..NumSteps
Mbs == 1..NumMb
FullBatch == 0
Nobody == 0
NoRequest == [step |-> 0, mb |-> FullBatch]
Items == [step : Steps, mb : Mbs \cup {FullBatch}]
Keys == Sessions \X Steps
Pushes == [session : Sessions, item : Items]
Events == [kind : {"NEW_SESSION", "END_SESSION"}, session : Sessions, payload : Handlers]
             \cup [kind : {"PUSH"}, session : Sessions, payload : Items]

TypeOK ==
    /\ issued \in [Sessions -> 0..NumSteps]
    /\ stream \in [Sessions -> Seq(Items)]
    /\ net \subseteq Pushes
    /\ status \in [Sessions -> {"new", "open", "ended"}]
    /\ owner \in [Sessions -> Handlers \cup {Nobody}]
    /\ sessionHandlers \in [Handlers -> [Sessions -> Handlers \cup {Nobody}]]
    /\ sessionQueue \in [Sessions -> Seq(Items)]
    /\ events \in [Handlers -> Seq(Events)]
    /\ mbProcessed \in [Handlers -> [Keys -> SUBSET Mbs]]
    /\ mbReceived \in [Handlers -> [Keys -> 0..NumMb]]
    /\ request \in [Sessions -> Items \cup {NoRequest}]
    /\ processedSteps \in [Sessions -> SUBSET Steps]
    /\ mbSteps \in [Sessions -> SUBSET Steps]
    /\ mbIds \in [Sessions -> SUBSET Items]
    /\ accumulators \in [Keys -> SUBSET Mbs]
    /\ work \in [Sessions -> [Items -> Nat]]
    /\ answered \in [Sessions -> SUBSET Steps]
    /\ faults \in 0..MaxFaults

Init ==
    /\ issued = [s \in Sessions |-> 0]
    /\ stream = [s \in Sessions |-> <<>>]
    /\ net = {}
    /\ status = [s \in Sessions |-> "new"]
    /\ owner = [s \in Sessions |-> Nobody]
    /\ sessionHandlers = [h \in Handlers |-> [s \in Sessions |-> Nobody]]
    /\ sessionQueue = [s \in Sessions |-> <<>>]
    /\ events = [h \in Handlers |-> <<>>]
    /\ mbProcessed = [h \in Handlers |-> [key \in Keys |-> {}]]
    /\ mbReceived = [h \in Handlers |-> [key \in Keys |-> 0]]
    /\ request = [s \in Sessions |-> NoRequest]
    /\ processedSteps = [s \in Sessions |-> {}]
    /\ mbSteps = [s \in Sessions |-> {}]
    /\ mbIds = [s \in Sessions |-> {}]
    /\ accumulators = [key \in Keys |-> {}]
    /\ work = [s \in Sessions |-> [i \in Items |-> 0]]
    /\ answered = [s \in Sessions |-> {}]
    /\ faults = 0

Fault(kind) ==
    /\ kind \in FaultKinds /\ faults < MaxFaults
    /\ faults' = faults + 1

---------------------------------------------------------------------------
(* The client and the upstream server.  The client issues a step once it   *)
(* has the output of the step before; the upstream server has pushed the   *)
(* same step, and the direct request may overtake those pushes.            *)

PushItems(step, path) ==
    CASE step < FirstPushed -> {}
      [] step >= FirstPushed /\ path = "full"  -> {[step |-> step, mb |-> FullBatch]}
      [] step >= FirstPushed /\ path = "micro" -> {[step |-> step, mb |-> m] : m \in Mbs}

Issue(s) ==
    LET step == issued[s] + 1
    IN  /\ issued[s] < NumSteps
        /\ status[s] # "ended" /\ (issued[s] = 0 \/ issued[s] \in answered[s])
        /\ issued' = [issued EXCEPT ![s] = step]
        /\ stream' = [stream EXCEPT ![s] = Append(@, [step |-> step, mb |-> FullBatch])]
        /\ \E path \in Paths :
               net' = net \cup {[session |-> s, item |-> i] : i \in PushItems(step, path)}
        /\ UNCHANGED <<status, owner, handlerVars, request, loopVars, faults>>

Lose(push) ==
    /\ push \in net
    /\ Fault("lose")
    /\ net' = net \ {push}
    /\ UNCHANGED <<issued, stream, status, owner, handlerVars, request, loopVars>>

---------------------------------------------------------------------------
(* Registering and forgetting a session (_managed_session).  put_nowait    *)
(* raises when an event queue is full, which ends the loop over the other  *)
(* handlers.                                                               *)

Others(h) == Handlers \ {h}

Reached(h, evs) ==
    {o \in Others(h) : \A p \in Others(h) : p <= o => Len(evs[p]) < EventCap}

Broadcast(h, evs, event) ==
    [o \in Handlers |-> IF o \in Reached(h, evs) THEN Append(evs[o], event) ELSE evs[o]]

Forget(s, h, evs) ==
    /\ status' = [status EXCEPT ![s] = "ended"]
    /\ owner' = [owner EXCEPT ![s] = Nobody]
    /\ sessionQueue' = [sessionQueue EXCEPT ![s] = <<>>]
    /\ sessionHandlers' = [sessionHandlers EXCEPT ![h][s] = Nobody]
    /\ events' = Broadcast(h, evs, [kind |-> "END_SESSION", session |-> s, payload |-> h])
    /\ request' = [request EXCEPT ![s] = NoRequest]
    /\ stream' = [stream EXCEPT ![s] = <<>>]
    /\ processedSteps' = [processedSteps EXCEPT ![s] = {}]
    /\ mbSteps' = [mbSteps EXCEPT ![s] = {}]
    /\ mbIds' = [mbIds EXCEPT ![s] = {}]
    /\ UNCHANGED <<issued, net, mbProcessed, mbReceived, accumulators, work, answered>>

Register(s, h, evs) ==
    /\ status' = [status EXCEPT ![s] = "open"]
    /\ owner' = [owner EXCEPT ![s] = h]
    /\ sessionHandlers' = [sessionHandlers EXCEPT ![h][s] = h]
    /\ events' = evs
    /\ request' = [request EXCEPT ![s] = Head(stream[s])]
    /\ stream' = [stream EXCEPT ![s] = Tail(@)]
    /\ UNCHANGED <<issued, net, sessionQueue, mbProcessed, mbReceived, loopVars>>

Open(s, h) ==
    LET evs == Broadcast(h, events, [kind |-> "NEW_SESSION", session |-> s, payload |-> h])
    IN  /\ status[s] = "new" /\ stream[s] # <<>>
        /\ IF Reached(h, events) = Others(h) THEN Register(s, h, evs) ELSE Forget(s, h, evs)
        /\ UNCHANGED faults

---------------------------------------------------------------------------
(* Pushes.  A handler that does not know the session ignores the push, the *)
(* owner queues it, any other handler forwards it to the owner.            *)

EventQueueFull(h, s) ==
    /\ sessionHandlers[h][s] \notin {Nobody, h}
    /\ Len(events[sessionHandlers[h][s]]) >= EventCap

PutIntoSessionQueue(h, s, item) ==
    LET o == sessionHandlers[h][s]
    IN  \/ /\ o = Nobody \/ EventQueueFull(h, s)
           /\ UNCHANGED <<sessionQueue, events>>
        \/ /\ o = h
           /\ sessionQueue' = [sessionQueue EXCEPT ![s] = Append(@, item)]
           /\ UNCHANGED events
        \/ /\ o \notin {Nobody, h} /\ ~EventQueueFull(h, s)
           /\ events' = [events EXCEPT ![o] =
                  Append(@, [kind |-> "PUSH", session |-> s, payload |-> item])]
           /\ UNCHANGED sessionQueue

(* Recording the network sample of a push creates an S2SLinkTelemetry,     *)
(* which has annotated fields and no constructor: it raises for every push *)
(* whose measured latency is positive ("measured").                        *)
HandleFullPush(h, s, item, measured) ==
    /\ IF measured THEN UNCHANGED <<sessionQueue, events>>
                   ELSE PutIntoSessionQueue(h, s, item)
    /\ UNCHANGED <<mbProcessed, mbReceived>>

(* Keys whose entry is older than _MB_PROCESSED_TTL go when a key is added.  *)
(* Only whether the count has reached NumMb matters, so it stops there.      *)
StaleKeys(h, key) ==
    IF mbProcessed[h][key] = {}
    THEN SUBSET {k \in Keys \ {key} : mbProcessed[h][k] # {}}
    ELSE {{}}

HandleMicrobatchPush(h, s, item, measured) ==
    LET key      == <<s, item.step>>
        received == mbReceived[h][key] + 1
        cleanup  == ~measured /\ received >= NumMb /\ ~EventQueueFull(h, s)
    IN  \/ /\ item.mb \in mbProcessed[h][key]
           /\ UNCHANGED <<sessionQueue, events, mbProcessed, mbReceived>>
        \/ /\ item.mb \notin mbProcessed[h][key]
           /\ \E stale \in StaleKeys(h, key) :
                mbProcessed' = [mbProcessed EXCEPT ![h] =
                    [k \in Keys |->
                        CASE k = key /\ cleanup  -> {}
                          [] k = key /\ ~cleanup -> @[k] \cup {item.mb}
                          [] k \in stale         -> {}
                          [] OTHER               -> @[k]]]
           /\ IF measured
              THEN UNCHANGED <<sessionQueue, events, mbReceived>>
              ELSE /\ PutIntoSessionQueue(h, s, item)
                   /\ mbReceived' = [mbReceived EXCEPT ![h][key] =
                          IF cleanup THEN 0 ELSE IF received > NumMb THEN NumMb ELSE received]

RpcPush(h, push) ==
    /\ push \in net
    /\ \/ net' = net \ {push} /\ UNCHANGED faults
       \/ Fault("duplicate") /\ UNCHANGED net
    /\ \E measured \in BOOLEAN :
          IF push.item.mb = FullBatch
          THEN HandleFullPush(h, push.session, push.item, measured)
          ELSE HandleMicrobatchPush(h, push.session, push.item, measured)
    /\ UNCHANGED <<issued, stream, status, owner, sessionHandlers, request, loopVars>>


(* The handler's event loop takes the next event. *)
ListenToEventQueue(h) ==
    /\ events[h] # <<>>
    /\ LET e == Head(events[h])
       IN  /\ events' = [events EXCEPT ![h] = Tail(@)]
           /\ sessionHandlers' =
                CASE e.kind = "NEW_SESSION" -> [sessionHandlers EXCEPT ![h][e.session] = e.payload]
                  [] e.kind = "END_SESSION" -> [sessionHandlers EXCEPT ![h][e.session] = Nobody]
                  [] OTHER                  -> sessionHandlers
           /\ sessionQueue' =
                IF e.kind = "PUSH" /\ owner[e.session] = h
                THEN [sessionQueue EXCEPT ![e.session] = Append(@, e.payload)]
                ELSE sessionQueue
    /\ UNCHANGED <<clientVars, status, owner, mbProcessed, mbReceived, request, loopVars, faults>>

---------------------------------------------------------------------------
(* The loop of a session (_iterate_inference_steps).                       *)

(* The next item comes from the push queue when both are ready. *)
Fetch(s) ==
    /\ status[s] = "open" /\ request[s] = NoRequest
    /\ \/ /\ sessionQueue[s] # <<>>
          /\ request' = [request EXCEPT ![s] = Head(sessionQueue[s])]
          /\ sessionQueue' = [sessionQueue EXCEPT ![s] = Tail(@)]
          /\ UNCHANGED stream
       \/ /\ sessionQueue[s] = <<>> /\ stream[s] # <<>>
          /\ request' = [request EXCEPT ![s] = Head(stream[s])]
          /\ stream' = [stream EXCEPT ![s] = Tail(@)]
          /\ UNCHANGED sessionQueue
    /\ UNCHANGED <<issued, net, status, owner, sessionHandlers, events,
                   mbProcessed, mbReceived, loopVars, faults>>

SkipMicrobatch(s, item) ==
    \/ item.step \in processedSteps[s] /\ item.step \notin mbSteps[s]
    \/ item \in mbIds[s]

\* Mutant of SkipFull: the micro-batch path does not stop the direct request.
SkipFullIgnoresMicro(s, item) ==
    item.step \in processedSteps[s]

SkipFull(s, item) ==
    item.step \in mbSteps[s] \/ item.step \in processedSteps[s]

\* Mutant of AllReceived: the merge does not wait for the last micro-batch.
AllReceivedEarly(results) == Cardinality(results) >= NumMb - 1

AllReceived(results) == Cardinality(results) >= NumMb

(* A computed micro-batch joins its step's accumulator; the last one yields *)
(* the merged output.  Touching a key drops the ones past their time limit, *)
(* which only sessions that have ended can have.                            *)
Accumulate(s, item) ==
    LET key     == <<s, item.step>>
        results == accumulators[key] \cup {item.mb}
        expired == {k \in Keys : status[k[1]] = "ended" /\ accumulators[k] # {}}
    IN  /\ \E stale \in SUBSET expired :
             accumulators' = [k \in Keys |->
                 CASE k = key /\ AllReceived(results)  -> {}
                   [] k = key /\ ~AllReceived(results) -> results
                   [] k \in stale                      -> {}
                   [] OTHER                            -> accumulators[k]]
        /\ answered' = [answered EXCEPT ![s] =
               IF AllReceived(results) THEN @ \cup {item.step} ELSE @]

ProcessMicrobatch(s, item) ==
    /\ UNCHANGED processedSteps
    /\ \/ /\ SkipMicrobatch(s, item)
          /\ UNCHANGED <<mbSteps, mbIds, accumulators, work, answered>>
       \/ /\ ~SkipMicrobatch(s, item)
          /\ mbIds' = [mbIds EXCEPT ![s] = @ \cup {item}]
          /\ mbSteps' = [mbSteps EXCEPT ![s] = @ \cup {item.step}]
          /\ work' = [work EXCEPT ![s][item] = @ + 1]
          /\ Accumulate(s, item)

ProcessFull(s, item) ==
    /\ UNCHANGED <<mbSteps, mbIds, accumulators>>
    /\ \/ /\ SkipFull(s, item)
          /\ UNCHANGED <<processedSteps, work, answered>>
       \/ /\ ~SkipFull(s, item)
          /\ processedSteps' = [processedSteps EXCEPT ![s] = @ \cup {item.step}]
          /\ work' = [work EXCEPT ![s][item] = @ + 1]
          /\ answered' = [answered EXCEPT ![s] = @ \cup {item.step}]

Process(s) ==
    /\ status[s] = "open" /\ request[s] # NoRequest
    /\ request' = [request EXCEPT ![s] = NoRequest]
    /\ IF request[s].mb = FullBatch
       THEN ProcessFull(s, request[s]) ELSE ProcessMicrobatch(s, request[s])
    /\ UNCHANGED <<clientVars, status, owner, handlerVars, faults>>

(* An exception in the computation of the current item ends the session. *)
ComputeFails(s) ==
    /\ status[s] = "open" /\ request[s] # NoRequest
    /\ Fault("fail")
    /\ Forget(s, owner[s], events)

Idle(s) ==
    /\ status[s] = "open" /\ request[s] = NoRequest
    /\ sessionQueue[s] = <<>> /\ stream[s] = <<>>

\* Mutant of Timeout: the wait for the next item has no time limit.
TimeoutOnlyUnissued(s) ==
    /\ Idle(s) /\ issued[s] = 0
    /\ Forget(s, owner[s], events)
    /\ UNCHANGED faults

(* Nothing arrived for step_timeout seconds. *)
Timeout(s) ==
    /\ Idle(s)
    /\ Forget(s, owner[s], events)
    /\ UNCHANGED faults

(* The client closes its stream after its last step, or gives up earlier. *)
StreamEnds(s) ==
    /\ Idle(s)
    /\ \/ issued[s] = NumSteps /\ NumSteps \in answered[s] /\ UNCHANGED faults
       \/ Fault("close")
    /\ Forget(s, owner[s], events)

---------------------------------------------------------------------------
Next ==
    \/ \E s \in Sessions : Issue(s)
    \/ \E push \in net : Lose(push)
    \/ \E s \in Sessions, h \in Handlers : Open(s, h)
    \/ \E h \in Handlers, push \in net : RpcPush(h, push)
    \/ \E h \in Handlers : ListenToEventQueue(h)
    \/ \E s \in Sessions : Fetch(s)
    \/ \E s \in Sessions : Process(s)
    \/ \E s \in Sessions : ComputeFails(s)
    \/ \E s \in Sessions : Timeout(s)
    \/ \E s \in Sessions : StreamEnds(s)

Spec == Init /\ [][Next]_vars

(* The event loops, the session loops and the step timeout make progress;  *)
(* nothing is assumed of the network, and a client may be silent for ever. *)
Fairness ==
    /\ \A h \in Handlers : WF_vars(ListenToEventQueue(h))
    /\ \A s \in Sessions : /\ WF_vars(\E h \in Handlers : Open(s, h))
                           /\ WF_vars(Fetch(s))
                           /\ WF_vars(Process(s))
                           /\ WF_vars(Timeout(s))

FairSpec == Spec /\ Fairness
---------------------------------------------------------------------------
(* The properties.                                                         *)

(* A session computes no item twice, and no step both as a whole batch and *)
(* as micro-batches, whatever order the direct request, the pushes and     *)
(* their duplicates arrive in: computing a step twice writes its keys and  *)
(* values into the cache twice (_iterate_inference_steps).                 *)
NoDoubleCompute ==
    \A s \in Sessions, i \in Items :
        /\ work[s][i] <= 1
        /\ i.mb \in Mbs /\ work[s][i] > 0 =>
               work[s][[step |-> i.step, mb |-> FullBatch]] = 0

(* An output is yielded for a step only when the whole batch of the step   *)
(* was computed: as one request, or as every one of its micro-batches (the *)
(* accumulator of iterate_rpc_inference).                                  *)
AnswersAreWhole ==
    \A s \in Sessions : \A step \in answered[s] :
        \/ work[s][[step |-> step, mb |-> FullBatch]] > 0
        \/ \A m \in Mbs : work[s][[step |-> step, mb |-> m]] > 0


(* A session's loop never leaves a client waiting for ever: a step is      *)
(* answered or its session ends, at the latest by the step timeout.        *)
StepResolved ==
    \A s \in Sessions, step \in Steps :
        (issued[s] >= step) ~> (step \in answered[s] \/ status[s] = "ended")

===========================================================================
