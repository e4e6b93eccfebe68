------------------------ MODULE SequentialAutograd -------------------------
(***************************************************************************)
(* Training through remote servers: sequential_forward and                 *)
(* sequential_backward with their retries, for one batch, and what a       *)
(* server computes for rpc_forward and rpc_backward                        *)
(* (src/bloombee/client/sequential_autograd.py,                            *)
(* src/bloombee/server/block_functions.py).                                *)
(*                                                                         *)
(* An activation is the sequence of blocks applied to the input, and a     *)
(* gradient the sequence of backward steps applied to the output gradient, *)
(* each with the activation it used.  Which servers serve which blocks     *)
(* changes all the time: a route is any division of the blocks into spans. *)
(***************************************************************************)
EXTENDS Naturals, Sequences

CONSTANTS
    NumBlocks,     \* blocks of the model
    MaxRetries,    \* config.max_retries
    MaxFailures,   \* failed requests in a behaviour
    MaxBackwards   \* backward passes over one forward pass

ASSUME AutogradAssumption ==
    /\ NumBlocks \in Nat \ {0} /\ MaxRetries \in Nat \ {0} /\ MaxFailures \in Nat
    /\ MaxBackwards \in Nat

VARIABLES
    phase,      \* where the autograd function is
    fwd,        \* the locals of sequential_forward
    inputs,     \* intermediate_inputs of the backward pass
    spans,      \* sequences_for_batches, shared by all backward passes
    saved,      \* intermediate_input_batches
    current,    \* span and input of the backward step being made
    attempt,    \* its attempt_no
    grad,       \* grad_outputs
    prompts,    \* grad_prompts_reversed
    outputs,    \* result of the forward pass
    failures,
    backwards

vars == <<phase, fwd, inputs, spans, saved, current, attempt, grad, prompts, outputs,
          failures, backwards>>

Ends == 1..NumBlocks
Upto(a, b) == [i \in 1..(b - a) |-> a + i - 1]
Span(a, b) == [start |-> a, end |-> b]

---------------------------------------------------------------------------
(* The servers.                                                            *)

(* run_rpc_forward: the blocks of the span, in order. *)
run_rpc_forward(v, s) == v \o Upto(s.start, s.end)

(* run_rpc_backward: the inputs of every block are computed again from v,  *)
(* then the blocks are taken from the last to the first.                   *)
run_rpc_backward(v, g, s) ==
    g \o [i \in 1..(s.end - s.start) |->
             [block |-> s.end - i, input |-> run_rpc_forward(v, Span(s.start, s.end - i))]]

(* The gradients of the span's prompts, first layer first. *)
PromptGrads(s) == Upto(s.start, s.end)

---------------------------------------------------------------------------
(* sequential_forward.                                                     *)

NewForward(a, b, v) ==
    [at |-> a, end |-> b, attempt |-> 0, queue |-> << >>, value |-> v,
     inputs |-> << >>, spans |-> << >>]

(* make_sequence: consecutive spans from block a that reach b or go past it. *)
Routes(a, b) ==
    {r \in UNION {[1..n -> Ends] : n \in 1..(b - a)} :
        /\ r[1] > a /\ r[Len(r)] >= b
        /\ \A k \in 1..(Len(r) - 1) : r[k] < r[k + 1] /\ r[k] < b}

(* The last span of a route is cut at the end of the request. *)
CutRoute(r, b) == [r EXCEPT ![Len(r)] = IF @ < b THEN @ ELSE b]

(* The queue the next attempt pops from. *)
Queues ==
    IF fwd.queue = << >> \/ fwd.attempt >= 1
    THEN {CutRoute(r, fwd.end) : r \in Routes(fwd.at, fwd.end)}
    ELSE {fwd.queue}

InForward == phase \in {"forward", "reforward"} /\ fwd.at < fwd.end


ForwardAnswers ==
    /\ InForward
    /\ \E q \in Queues :
           LET s == Span(fwd.at, Head(q))
           IN  fwd' = [fwd EXCEPT !.at = s.end, !.attempt = 0, !.queue = Tail(q),
                                  !.value = run_rpc_forward(@, s),
                                  !.inputs = Append(@, fwd.value),
                                  !.spans = Append(@, s)]
    /\ UNCHANGED <<phase, inputs, spans, saved, current, attempt, grad, prompts, outputs,
                   failures, backwards>>

(* An attempt of the backward step raised. *)
BackwardRaises ==
    /\ attempt' = attempt + 1
    /\ IF attempt + 1 = MaxRetries
       THEN phase' = "raised" /\ UNCHANGED fwd
       ELSE /\ phase' = "reforward"
            /\ fwd' = NewForward(current.span.start, current.span.end, current.input)

(* No route, no answer, or an answer of the wrong shape; the last attempt  *)
(* raises into the caller.                                                 *)
ForwardFails ==
    /\ InForward /\ failures < MaxFailures
    /\ failures' = failures + 1
    /\ \/ /\ fwd.attempt + 1 < MaxRetries
          /\ fwd' = [fwd EXCEPT !.attempt = @ + 1]
          /\ UNCHANGED <<phase, attempt>>
       \/ /\ fwd.attempt + 1 = MaxRetries /\ phase = "forward"
          /\ phase' = "failed"
          /\ UNCHANGED <<fwd, attempt>>
       \/ /\ fwd.attempt + 1 = MaxRetries /\ phase = "reforward"
          /\ BackwardRaises
    /\ UNCHANGED <<inputs, spans, saved, current, grad, prompts, outputs, backwards>>

(* The forward pass returns and its inputs and spans are kept in ctx. *)
ForwardReturns ==
    /\ phase = "forward" /\ fwd.at >= fwd.end
    /\ outputs' = fwd.value
    /\ saved' = fwd.inputs /\ spans' = fwd.spans
    /\ phase' = "forwarded"
    /\ UNCHANGED <<fwd, inputs, current, attempt, grad, prompts, failures, backwards>>

---------------------------------------------------------------------------
(* sequential_backward.                                                    *)


(* The spans of ctx are popped by every pass, the inputs are copied first. *)
(* A pass that raised is not repeated over the same ctx.                   *)
StartBackward ==
    /\ phase \in {"forwarded", "done"}
    /\ backwards < MaxBackwards
    /\ backwards' = backwards + 1
    /\ phase' = IF Len(saved) = Len(spans) THEN "backward" ELSE "refused"
    /\ inputs' = saved
    /\ grad' = << >> /\ prompts' = << >>
    /\ UNCHANGED <<fwd, spans, saved, current, attempt, outputs, failures>>

NextSpan ==
    /\ phase = "backward" /\ spans # << >> /\ inputs # << >>
    /\ current' = [span |-> spans[Len(spans)], input |-> inputs[Len(inputs)]]
    /\ spans' = SubSeq(spans, 1, Len(spans) - 1)
    /\ inputs' = SubSeq(inputs, 1, Len(inputs) - 1)
    /\ attempt' = 0
    /\ phase' = "call"
    /\ UNCHANGED <<fwd, saved, grad, prompts, outputs, failures, backwards>>

BackwardAnswers ==
    /\ phase = "call"
    /\ grad' = run_rpc_backward(current.input, grad, current.span)
    /\ prompts' = Append(prompts, PromptGrads(current.span))
    /\ phase' = "backward"
    /\ UNCHANGED <<fwd, inputs, spans, saved, current, attempt, outputs, failures, backwards>>

BackwardFails ==
    /\ phase = "call" /\ failures < MaxFailures
    /\ failures' = failures + 1
    /\ BackwardRaises
    /\ UNCHANGED <<inputs, spans, saved, current, grad, prompts, outputs, backwards>>

\* Mutant of ReforwardReturns: only the last of the recovered spans is kept
ReforwardReturnsDropsRest ==
    /\ phase = "reforward" /\ fwd.at >= fwd.end
    /\ LET n == Len(fwd.spans)
       IN  /\ current' = [span |-> fwd.spans[n], input |-> fwd.inputs[n]]
           /\ spans' = spans
           /\ inputs' = inputs
    /\ phase' = "call"
    /\ UNCHANGED <<fwd, saved, attempt, grad, prompts, outputs, failures, backwards>>

(* The span was computed again, perhaps as several spans: all of them are  *)
(* pushed and the last one is the one to differentiate now.                *)
ReforwardReturns ==
    /\ phase = "reforward" /\ fwd.at >= fwd.end
    /\ LET n == Len(fwd.spans)
       IN  /\ current' = [span |-> fwd.spans[n], input |-> fwd.inputs[n]]
           /\ spans' = spans \o SubSeq(fwd.spans, 1, n - 1)
           /\ inputs' = inputs \o SubSeq(fwd.inputs, 1, n - 1)
    /\ phase' = "call"
    /\ UNCHANGED <<fwd, saved, attempt, grad, prompts, outputs, failures, backwards>>

FinishBackward ==
    /\ phase = "backward" /\ (spans = << >> \/ inputs = << >>)
    /\ phase' = "done"
    /\ UNCHANGED <<fwd, inputs, spans, saved, current, attempt, grad, prompts, outputs,
                   failures, backwards>>

---------------------------------------------------------------------------
Init ==
    /\ phase = "forward"
    /\ fwd = NewForward(0, NumBlocks, << >>)
    /\ inputs = << >> /\ spans = << >> /\ saved = << >>
    /\ current = [span |-> Span(0, 0), input |-> << >>]
    /\ attempt = 0 /\ grad = << >> /\ prompts = << >> /\ outputs = << >>
    /\ failures = 0 /\ backwards = 0

Step ==
    \/ ForwardAnswers \/ ForwardReturns \/ NextSpan \/ BackwardAnswers
    \/ ReforwardReturns \/ FinishBackward

Next == Step \/ ForwardFails \/ BackwardFails \/ StartBackward

Spec == Init /\ [][Next]_vars

(* Calls return or raise. *)
FairSpec == Spec /\ WF_vars(Step)

---------------------------------------------------------------------------
(* The properties.                                                         *)

TypeOK ==
    /\ phase \in {"forward", "forwarded", "backward", "call", "reforward",
                  "done", "refused", "raised", "failed"}
    /\ fwd.at \in 0..NumBlocks /\ fwd.end \in Ends
    /\ fwd.attempt \in 0..(MaxRetries - 1) /\ attempt \in 0..MaxRetries
    /\ \A k \in DOMAIN spans : spans[k].start \in 0..NumBlocks /\ spans[k].end \in Ends
    /\ failures \in 0..MaxFailures /\ backwards \in 0..MaxBackwards


(* Every backward step uses the activation its block had in the forward    *)
(* pass, and steps follow each other from the last block down, whatever    *)
(* failed and was split in between.                                        *)
BackwardFollowsForward ==
    \A k \in DOMAIN grad :
        /\ grad[k].block = NumBlocks - k
        /\ grad[k].input = Upto(0, NumBlocks - k)


===========================================================================
