--------------------------- MODULE InferenceSession ---------------------------
(***************************************************************************)
(* A client's inference session over a chain of servers                    *)
(* (src/bloombee/client/inference_session.py).  The client feeds tokens    *)
(* block by block through its server sessions, replaces a session that     *)
(* fails and replays its history to the replacement; servers may push      *)
(* their outputs straight to the next server, so that one step reaches a   *)
(* server twice, once, or (push-only decode) only by the push.             *)
(*                                                                         *)
(* A hidden state is modelled by the tokens it was computed from: the      *)
(* state of position p in a fault-free run is the sequence of the first p  *)
(* tokens.  A server computes position p by attending to the first p       *)
(* entries of its cache: the result is Bad unless those are the states of  *)
(* the same text.                                                          *)
(***************************************************************************)
EXTENDS Integers, Sequences, FiniteSets, SequencesExt

CONSTANTS
    Tokens,        \* values of a token
    NumBlocks,     \* number of remote blocks
    MaxLength,     \* max_length of the session
    MaxRetries,    \* config.max_retries; 0 stands for None (retry for ever)
    UseS2S,        \* config.use_server_to_server
    PushOnly,      \* config.push_only_downstream_decode
    MaxChunk,      \* bound: tokens fed by one step
    MaxSessions,   \* bound: server sessions opened in a behaviour
    MaxSteps,      \* bound: steps in a behaviour
    MaxFaults      \* bound: crashes, lost pushes, early timeouts

ASSUME BoundsAssumption ==
    /\ {NumBlocks, MaxLength, MaxChunk} \subseteq Nat \ {0}
    /\ {MaxRetries, MaxSessions, MaxSteps, MaxFaults} \subseteq Nat
    /\ {UseS2S, PushOnly} \subseteq BOOLEAN

VARIABLES
    position,  \* InferenceSession._position
    fed,       \* the tokens at positions 1..position (what the caller fed)
    chain,     \* _server_sessions
    call,      \* the step in progress, or NoCall
    output,    \* what the last finished step returned
    server,    \* server side of every session
    pushes,    \* rpc_push messages in flight
    opened,    \* server sessions opened so far
    steps,     \* step ids used so far
    faults     \* faults so far

client == <<position, fed, chain, call, output>>
vars == <<position, fed, chain, call, output, server, pushes, opened, steps, faults>>

SessionIds == 1..MaxSessions
StepIds == 1..MaxSteps
Bad == <<>>
NoCall == [state |-> "idle"]
NoHistory == <<>>

\* The states of the text t at its last n positions.
StatesOf(t, n) == [i \in 1..n |-> SubSeq(t, 1, Len(t) - n + i)]
LastOf(s, n) == SubSeq(s, Len(s) - n + 1, Len(s))

-----------------------------------------------------------------------------
(* Server side: a session of rpc_inference. *)

Idle == [alive |-> FALSE, hungup |-> FALSE, requests |-> <<>>, pushed |-> <<>>, processed |-> {},
         cache |-> <<>>, responses |-> <<>>]

\* The stream still connects the client to the session.
Connected(s) == server[s].alive /\ ~server[s].hungup

\* A session whose client is gone ends once its queues are empty.
Settled(sess) ==
    IF sess.hungup /\ sess.requests = <<>> /\ sess.pushed = <<>> THEN Idle ELSE sess

HangUp(sess) == Settled([sess EXCEPT !.hungup = TRUE])

\* The cache with data written at positions start+1 .. start+Len(data); the
\* entries behind them stay, a gap before them holds whatever memory held.
Written(cache, start, data) ==
    LET end == start + Len(data)
        len == IF end > Len(cache) THEN end ELSE Len(cache)
    IN  [q \in 1..len |-> CASE q > start /\ q <= end -> data[q - start]
                            [] q <= Len(cache) /\ (q <= start \/ q > end) -> cache[q]
                            [] OTHER -> Bad]

\* What attention over the first p cache entries computes for position p.
Attend(cache, p) ==
    IF \A q \in 1..p : Len(cache[q]) = q /\ IsPrefix(cache[q], cache[p])
    THEN cache[p] ELSE Bad

Computed(cache, start, n) == [i \in 1..n |-> Attend(cache, start + i)]

\* iterate_rpc_inference refuses a request that does not fit.
Fits(req) == req.start + Len(req.data) <= MaxLength

\* _push_outputs: the outputs go to the first of next_servers.
Pushed(req, out) ==
    IF req.next = <<>> THEN {}
    ELSE {[to |-> Head(req.next), step |-> req.step, start |-> req.start,
           data |-> out, next |-> Tail(req.next)]}

\* One step of a session: the cache is written at start_from_position, the
\* outputs are returned on the stream and pushed to the next server.
Run(s, req, rest) ==
    LET cache == Written(server[s].cache, req.start, req.data)
        out == Computed(cache, req.start, Len(req.data))
    IN  IF Fits(req)
        THEN /\ server' = [server EXCEPT ![s] = Settled([rest EXCEPT
                   !.cache = cache, !.processed = @ \union {req.step},
                   !.responses = Append(@, [step |-> req.step, data |-> out])])]
             /\ pushes' = pushes \union Pushed(req, out)
        ELSE /\ server' = [server EXCEPT ![s] = Idle]
             /\ UNCHANGED pushes

\* Mutant of Take: the set of processed steps is not consulted.
TakeAlways(s, req, rest) == Run(s, req, rest)

\* A step id that was processed already is skipped.
Take(s, req, rest) ==
    IF req.step \in server[s].processed
    THEN server' = [server EXCEPT ![s] = Settled(rest)] /\ UNCHANGED pushes
    ELSE Run(s, req, rest)

\* _iterate_inference_steps prefers a pushed request to one of the client.
ProcessPush(s) ==
    /\ server[s].alive /\ server[s].pushed # <<>>
    /\ Take(s, Head(server[s].pushed), [server[s] EXCEPT !.pushed = Tail(@)])
    /\ UNCHANGED <<client, opened, steps, faults>>

ProcessRequest(s) ==
    /\ server[s].alive /\ server[s].pushed = <<>> /\ server[s].requests # <<>>
    /\ Take(s, Head(server[s].requests), [server[s] EXCEPT !.requests = Tail(@)])
    /\ UNCHANGED <<client, opened, steps, faults>>

\* rpc_push arrives; a session that is gone ignores it.
DeliverPush(m) ==
    /\ pushes' = pushes \ {m}
    /\ server' = IF server[m.to].alive
                 THEN [server EXCEPT ![m.to].pushed =
                         Append(@, [step |-> m.step, start |-> m.start,
                                    data |-> m.data, next |-> m.next])]
                 ELSE server
    /\ UNCHANGED <<client, opened, steps, faults>>

\* rpc_push fails or times out: the error is only logged.
LosePush(m) ==
    /\ faults < MaxFaults /\ faults' = faults + 1
    /\ pushes' = pushes \ {m}
    /\ UNCHANGED <<client, server, opened, steps>>

\* A server goes away with the sessions' caches.
Crash(s) ==
    /\ Connected(s) /\ faults < MaxFaults /\ faults' = faults + 1
    /\ server' = [server EXCEPT ![s] = Idle]
    /\ UNCHANGED <<client, pushes, opened, steps>>

\* The session notices that its client closed the stream, or crashes.
EndSession(s) ==
    /\ server[s].alive /\ server[s].hungup
    /\ server' = [server EXCEPT ![s] = Idle]
    /\ UNCHANGED <<client, pushes, opened, steps, faults>>

-----------------------------------------------------------------------------
(* Client side: InferenceSession.step and its server sessions. *)

NewSession(id, span) ==
    [id |-> id, start |-> span[1], end |-> span[2], pos |-> 0,
     hist |-> NoHistory, stepped |-> FALSE]

\* Chains of spans from block a to block b that make_sequence may return.
Cuts(a, b) ==
    {c \in SUBSET (a..b) : a \in c /\ b \in c}

SpansOf(c) ==
    LET s == SetToSortSeq(c, <)
    IN  [i \in 1..(Len(s) - 1) |-> <<s[i], s[i + 1]>>]

\* InferenceSession.step is called with tokens that still fit.
Step(toks) ==
    /\ call = NoCall /\ steps < MaxSteps
    /\ position + Len(toks) <= MaxLength
    /\ steps' = steps + 1
    /\ call' = [state |-> "try", step |-> steps + 1, toks |-> toks,
                inputs |-> StatesOf(fed \o toks, Len(toks)),
                idx |-> 1, block |-> 0, attempt |-> 0, sent |-> 0]
    /\ UNCHANGED <<position, fed, chain, output, server, pushes, opened, faults>>

NeedsUpdate == chain = <<>> \/ call.attempt >= 1
Failing == IF call.idx <= Len(chain) THEN {chain[call.idx].id} ELSE {}
UpdateEnd == IF call.idx <= Len(chain) THEN chain[call.idx].end ELSE NumBlocks

\* Mutant of Inherited: the history of the failed session is dropped.
InheritsNothing(fresh) == fresh

\* The first replacement takes over the history of the failed session.
Inherited(fresh) ==
    IF call.idx <= Len(chain)
    THEN [fresh EXCEPT ![1].hist = chain[call.idx].hist] ELSE fresh

\* _update_sequence: the failed session is closed, and sessions over a new
\* path for its blocks take its place.
UpdateSequence(cut) ==
    LET spans == SpansOf(cut)
        fresh == [i \in 1..Len(spans) |-> NewSession(opened + i, spans[i])]
    IN  /\ call.state = "try" /\ NeedsUpdate
        /\ opened + Len(spans) <= MaxSessions
        /\ opened' = opened + Len(spans)
        /\ chain' = SubSeq(chain, 1, call.idx - 1) \o Inherited(fresh)
                      \o SubSeq(chain, call.idx + 1, Len(chain))
        /\ server' = [s \in SessionIds |->
                        IF s \in Failing THEN HangUp(server[s])
                        ELSE IF s \in (opened + 1)..(opened + Len(spans))
                        THEN [Idle EXCEPT !.alive = TRUE] ELSE server[s]]
        /\ call' = [call EXCEPT !.state = "send"]
        /\ UNCHANGED <<position, fed, output, pushes, steps, faults>>

\* An existing session is used as it is.
UseSession ==
    /\ call.state = "try" /\ ~NeedsUpdate
    /\ call' = [call EXCEPT !.state = "send"]
    /\ UNCHANGED <<position, fed, chain, output, server, pushes, opened, steps, faults>>

\* _trim_recovered_history_for_existing_downstream
Trim(inputs, n, pos) ==
    IF n <= 0 \/ pos <= 0 \/ Len(inputs) <= n THEN inputs ELSE LastOf(inputs, n)

\* The history log of a session that is about to step.
HistoryWith(sess, inputs) ==
    IF sess.hist = NoHistory THEN inputs
    ELSE IF Len(sess.hist) = sess.pos THEN sess.hist \o inputs
    ELSE sess.hist

\* Mutant of Sent: a replacement gets only the tokens of the current step.
SentWithoutReplay(sess, inputs) == inputs

\* A session that has not stepped yet sends its whole history.
Sent(sess, inputs) ==
    IF sess.stepped THEN inputs ELSE HistoryWith(sess, inputs)

\* _collect_next_servers: the stepped sessions right behind session i.
NextServers(i) ==
    LET upto == {j \in i..Len(chain) : \A k \in (i + 1)..j : chain[k].stepped}
        last == CHOOSE j \in upto : \A k \in upto : k <= j
    IN  IF UseS2S THEN [k \in 1..(last - i) |-> chain[i + k].id] ELSE <<>>

\* Mutant of WaitsForPush: also a session nobody pushes to yet waits.
WaitsUnstepped(sess) == UseS2S /\ PushOnly /\ sess.start > 0

\* In push-only decode a downstream session sends nothing and waits.
WaitsForPush(sess) == UseS2S /\ PushOnly /\ sess.stepped /\ sess.start > 0

\* _ServerInferenceSession.step up to the wait for the response.  A stream
\* whose server is gone takes the request and answers with an error.
Send ==
    /\ call.state = "send"
    /\ LET i == call.idx
           sess == chain[i]
           inputs == Trim(call.inputs, Len(call.toks), sess.pos)
           data == Sent(sess, inputs)
           req == [step |-> call.step, start |-> sess.pos, data |-> data,
                   next |-> NextServers(i)]
       IN  /\ chain' = [chain EXCEPT ![i].hist = HistoryWith(sess, inputs),
                                     ![i].stepped = TRUE]
           /\ server' = IF WaitsForPush(sess) \/ ~Connected(sess.id) THEN server
                        ELSE [server EXCEPT ![sess.id].requests = Append(@, req)]
           /\ call' = [call EXCEPT !.state = "wait", !.sent = Len(data)]
    /\ UNCHANGED <<position, fed, output, pushes, opened, steps, faults>>

Current == chain[call.idx]

\* The response of the last session ends the step: the position advances by
\* the tokens fed and only their outputs are returned.
Finish(data) ==
    /\ position' = position + Len(call.toks)
    /\ fed' = fed \o call.toks
    /\ output' = IF Len(data) > Len(call.toks) THEN LastOf(data, Len(call.toks)) ELSE data
    /\ call' = NoCall

\* _server_session_tokens_to_advance
TokensToAdvance(sent, n) == sent

\* A response arrives: the session advances by the tokens it was sent.
Receive ==
    /\ call.state = "wait" /\ Connected(Current.id) /\ server[Current.id].responses # <<>>
    /\ LET data == Head(server[Current.id].responses).data IN
       /\ server' = [server EXCEPT ![Current.id].responses = Tail(@)]
       /\ chain' = [chain EXCEPT ![call.idx].pos = @ + TokensToAdvance(call.sent, Len(call.toks))]
       /\ IF Current.end = NumBlocks THEN Finish(data)
          ELSE /\ call' = [call EXCEPT !.state = "try", !.inputs = data, !.attempt = 0,
                             !.idx = @ + 1, !.block = Current.end, !.sent = 0]
               /\ UNCHANGED <<position, fed, output>>
    /\ UNCHANGED <<pushes, opened, steps, faults>>

\* The except branch of step: retry, or give up at max_retries.
Failed ==
    /\ call' = IF call.attempt + 1 = MaxRetries THEN NoCall
               ELSE [call EXCEPT !.state = "try", !.attempt = @ + 1]
    /\ UNCHANGED <<position, fed, chain, output, pushes, opened, steps>>

\* The stream of a session that is gone, or that a timeout closed, raises.
StreamError ==
    /\ call.state = "wait" /\ ~Connected(Current.id)
    /\ Failed /\ UNCHANGED <<server, faults>>

\* Nothing is on its way any more.
Quiet ==
    /\ pushes = {}
    /\ \A s \in SessionIds : server[s].alive =>
         server[s].requests = <<>> /\ server[s].pushed = <<>>

\* request_timeout expires; cancelling the read closes the stream.
TimedOut ==
    /\ call.state = "wait" /\ Connected(Current.id)
    /\ server' = [server EXCEPT ![Current.id] = HangUp(@)]
    /\ Failed

\* No answer can come any more, ...
RequestTimeout ==
    /\ TimedOut /\ server[Current.id].responses = <<>> /\ Quiet
    /\ UNCHANGED faults

\* ... or the answer is late.
EarlyTimeout ==
    /\ TimedOut
    /\ faults < MaxFaults /\ faults' = faults + 1

\* The position setter: the caller goes back to an earlier position.
SetPosition(p) ==
    /\ call = NoCall /\ p < position
    /\ position' = p
    /\ fed' = SubSeq(fed, 1, p)
    /\ chain' = [i \in 1..Len(chain) |->
                   [chain[i] EXCEPT !.pos = p,
                      !.hist = IF Len(@) >= p THEN SubSeq(@, 1, p) ELSE @]]
    /\ output' = NoHistory
    /\ UNCHANGED <<call, server, pushes, opened, steps, faults>>

-----------------------------------------------------------------------------
Init ==
    /\ position = 0 /\ fed = <<>> /\ chain = <<>> /\ call = NoCall /\ output = <<>>
    /\ server = [s \in SessionIds |-> Idle]
    /\ pushes = {} /\ opened = 0 /\ steps = 0 /\ faults = 0

Chunks == UNION {[1..n -> Tokens] : n \in 1..MaxChunk}

ClientNext ==
    \/ \E toks \in Chunks : Step(toks)
    \/ call # NoCall /\ \E cut \in Cuts(call.block, UpdateEnd) : UpdateSequence(cut)
    \/ UseSession
    \/ Send
    \/ Receive
    \/ StreamError
    \/ RequestTimeout
    \/ EarlyTimeout
    \/ \E p \in 0..MaxLength : SetPosition(p)

ServerNext ==
    \/ \E s \in SessionIds : ProcessPush(s) \/ ProcessRequest(s) \/ Crash(s) \/ EndSession(s)
    \/ \E m \in pushes : DeliverPush(m) \/ LosePush(m)

Next == ClientNext \/ ServerNext

Spec == Init /\ [][Next]_vars

\* What a running step does next: every wait of the client ends (its timer
\* fires), the servers work and the network delivers.
Progress ==
    \/ call # NoCall /\ \E cut \in Cuts(call.block, UpdateEnd) : UpdateSequence(cut)
    \/ UseSession \/ Send \/ Receive \/ StreamError \/ RequestTimeout

FairSpec ==
    /\ Spec
    /\ WF_vars(Progress)
    /\ \A s \in SessionIds : WF_vars(ProcessPush(s)) /\ WF_vars(ProcessRequest(s))
    /\ WF_vars(\E m \in pushes : DeliverPush(m))

-----------------------------------------------------------------------------
(* Properties *)

States == UNION {[1..n -> Tokens] : n \in 0..MaxLength}
Datas == UNION {[1..n -> States] : n \in 0..MaxLength}

\* Every variable holds a value of its type; a session keeps its span.
TypeOK ==
    /\ position = Len(fed) /\ position \in 0..MaxLength
    /\ \A i \in 1..Len(chain) :
         /\ chain[i].id \in 1..opened /\ chain[i].pos \in 0..MaxLength
         /\ chain[i].hist \in Datas /\ chain[i].start < chain[i].end
    /\ call # NoCall => call.step = steps /\ call.idx \in 1..(Len(chain) + 1)
    /\ \A s \in SessionIds :
         /\ \A r \in ToSet(server[s].requests \o server[s].pushed) : r.start \in 0..MaxLength /\ r.step \in 1..steps /\ r.data \in Datas
         /\ server[s].processed \subseteq 1..steps /\ server[s].cache \in Datas
    /\ opened \in 0..MaxSessions /\ steps \in 0..MaxSteps /\ faults \in 0..MaxFaults

\* A step returns the outputs a fault-free chain would return for the tokens
\* fed, whatever was replayed, pushed, skipped or trimmed on the way.
StepReturnsItsOutputs ==
    [][position' > position => output' = StatesOf(fed', position' - position)]_vars

\* Between steps the sessions cover the blocks without gap or overlap, also
\* after some were replaced by sessions over another path; each is at the
\* client's position with the text so far as its history (the assertions
\* disabled at inference_session.py:1252 and 433-436); and the cache of every
\* live server holds that text.
ChainInStep ==
    call = NoCall /\ chain # <<>> =>
      /\ chain[1].start = 0 /\ chain[Len(chain)].end = NumBlocks
      /\ \A i \in 1..(Len(chain) - 1) : chain[i].end = chain[i + 1].start
      /\ \A i \in 1..Len(chain) :
           /\ chain[i].pos = position
           /\ chain[i].hist = StatesOf(fed, position)
           /\ server[chain[i].id].alive =>
                /\ Len(server[chain[i].id].cache) >= position
                /\ SubSeq(server[chain[i].id].cache, 1, position) = StatesOf(fed, position)

\* The response a step takes from a stream answers this step: a response
\* left over from an earlier step would shift all later ones.
ResponseOfThisStep ==
    call.state = "wait" =>
      \A r \in ToSet(server[Current.id].responses) : r.step = call.step

\* With unlimited retries every step returns.
StepReturns == call # NoCall ~> call = NoCall

=============================================================================
