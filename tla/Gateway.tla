------------------------------ MODULE Gateway ------------------------------
(***************************************************************************)
(* The gateway's request path: a request is resolved to a target, tried on *)
(* the target's nodes one after the other until one starts to answer, and  *)
(* accounted for. One handler goroutine per request, the reaper of the     *)
(* controller's one-second loop, the nodes and the clients run             *)
(* concurrently; Gateway.mu guards the in-flight counts, the cooldowns and *)
(* the attempts one access at a time.                                      *)
(*                                                                         *)
(* The ready nodes and their drain flags come from the registry and change *)
(* at any time. A node may answer, fail or freeze. Wall-clock is left out: *)
(* a timer may fire whenever it is armed and a cooldown may end at any     *)
(* time. Target.filter is the set of nodes a request's target allows.      *)
(***************************************************************************)
EXTENDS Naturals, FiniteSets

CONSTANTS
    Nodes,          \* backends, by node id
    Requests,       \* client requests
    Inputs,         \* [nodes, single, est, tools]: what a request asks for
    MaxAttempts,    \* Config.MaxAttempts
    CtxSize,        \* node -> its context in tokens, 0 = unknown
    MaxConcurrency, \* node -> cap of its in-flight requests, 0 = none
    ToolNodes,      \* nodes whose model carries the "tools" tag
    NoNode          \* no backend chosen

ASSUME GatewayAssumption ==
    /\ NoNode \notin Nodes
    /\ IsFiniteSet(Nodes) /\ IsFiniteSet(Requests)
    /\ Inputs \subseteq [nodes : SUBSET Nodes, single : BOOLEAN, est : Nat, tools : BOOLEAN]
    /\ \A i \in Inputs : i.single => Cardinality(i.nodes) = 1
    /\ MaxAttempts \in Nat \ {0}
    /\ CtxSize \in [Nodes -> Nat]
    /\ MaxConcurrency \in [Nodes -> Nat]
    /\ ToolNodes \subseteq Nodes

VARIABLES
    ready,      \* the nodes Backends returns, drained ones included
    drained,    \* drained nodes
    cooldown,   \* nodes whose cooldown has not ended
    inflight,   \* node -> Gateway.inflight
    live,       \* the ready nodes as Reap read them; Nodes between two reaps
    pc,         \* where the handler of a request is
    input,      \* what the request asks for
    node,       \* the backend of the current attempt
    tried,      \* the backends of all attempts
    hurried,    \* history: requests that chose their backend while another had
                \* chosen it and was not counted yet
    cancelled,  \* the attempt was cancelled by Reap or a timer
    gone,       \* the client went away
    voices,     \* history: the nodes whose bytes reached the client
    upstreamErrors, \* history: "upstream error" usage events of a request
    outcomes    \* history: the other usage events of a request

clusterVars == <<ready, drained>>
handlerVars == <<pc, input, node, tried, hurried>>
historyVars == <<voices, upstreamErrors, outcomes>>
vars == <<ready, drained, cooldown, inflight, live, pc, input, node, tried, hurried, cancelled,
          gone, voices, upstreamErrors, outcomes>>

\* "retry", "small" and "abort" are the three errors forward returns.
Places == {"start", "choose", "picked", "waiting", "copying", "retry", "small", "abort", "done"}

\* The places inside forward, between addInflight(+1) and addInflight(-1).
Forwarding(r) == pc[r] \in {"waiting", "copying"}

GatewayTypeOK ==
    /\ ready \in SUBSET Nodes /\ drained \in SUBSET Nodes /\ cooldown \in SUBSET Nodes
    /\ live \in SUBSET Nodes
    /\ inflight \in [Nodes -> Nat]
    /\ pc \in [Requests -> Places]
    /\ input \in [Requests -> Inputs]
    /\ node \in [Requests -> Nodes \cup {NoNode}]
    /\ tried \in [Requests -> SUBSET Nodes]
    /\ hurried \in SUBSET Requests
    /\ cancelled \in [Requests -> BOOLEAN] /\ gone \in [Requests -> BOOLEAN]
    /\ voices \in [Requests -> SUBSET Nodes]
    /\ upstreamErrors \in [Requests -> Nat] /\ outcomes \in [Requests -> Nat]

GatewayInit ==
    /\ ready \in SUBSET Nodes
    /\ drained = {} /\ cooldown = {}
    /\ live = Nodes
    /\ inflight = [n \in Nodes |-> 0]
    /\ pc = [r \in Requests |-> "start"]
    /\ input \in [Requests -> Inputs]
    /\ node = [r \in Requests |-> NoNode]
    /\ tried = [r \in Requests |-> {}]
    /\ hurried = {}
    /\ cancelled = [r \in Requests |-> FALSE]
    /\ gone = [r \in Requests |-> FALSE]
    /\ voices = [r \in Requests |-> {}]
    /\ upstreamErrors = [r \in Requests |-> 0]
    /\ outcomes = [r \in Requests |-> 0]

-----------------------------------------------------------------------------
(* Choosing a backend *)

\* The nodes that may take request r now; with tools, those whose model can
\* call them, if there is one.
Eligible(r) ==
    LET all == (ready \ drained) \cap input[r].nodes
        capable == all \cap ToolNodes
    IN  IF ~input[r].single /\ input[r].tools /\ capable # {} THEN capable ELSE all

\* The request is larger than every known context.
TooLarge(r) ==
    /\ \E n \in Eligible(r) : CtxSize[n] > 0
    /\ \A n \in Eligible(r) : CtxSize[n] < input[r].est

\* Mutant: a node at its cap may take one more.
UsableAtCap(r) ==
    {n \in Eligible(r) \ tried[r] :
        /\ CtxSize[n] > 0 => input[r].est <= CtxSize[n]
        /\ MaxConcurrency[n] > 0 => inflight[n] <= MaxConcurrency[n]}

\* Untried, below its cap, and its context fits.
Usable(r) ==
    {n \in Eligible(r) \ tried[r] :
        /\ CtxSize[n] > 0 => input[r].est <= CtxSize[n]
        /\ MaxConcurrency[n] > 0 => inflight[n] < MaxConcurrency[n]}

Candidates(r) ==
    IF Usable(r) \ cooldown # {} THEN Usable(r) \ cooldown ELSE Usable(r)

AttemptsOf(r) == IF input[r].single THEN 1 ELSE MaxAttempts

\* The handler is over, with its final usage event.
Finish(r) ==
    /\ pc' = [pc EXCEPT ![r] = "done"]
    /\ outcomes' = [outcomes EXCEPT ![r] = @ + 1]

Accept(r) ==
    /\ pc[r] = "start"
    /\ Eligible(r) # {} /\ ~TooLarge(r)
    /\ pc' = [pc EXCEPT ![r] = "choose"]
    /\ UNCHANGED <<clusterVars, cooldown, inflight, live, input, node, tried, hurried, cancelled,
                   gone, historyVars>>

\* node_unavailable, model_not_found or context_too_large.
Reject(r) ==
    /\ pc[r] = "start"
    /\ Eligible(r) = {} \/ TooLarge(r)
    /\ Finish(r)
    /\ UNCHANGED <<clusterVars, cooldown, inflight, live, input, node, tried, hurried, cancelled,
                   gone, voices, upstreamErrors>>

\* One turn of the attempt loop, up to the call of forward. The picker's
\* choice among the candidates is open. Gateway.mu is given up after the
\* candidates were listed; the request is counted in forward.
Pick(r) ==
    /\ pc[r] = "choose"
    /\ Cardinality(tried[r]) < AttemptsOf(r)
    /\ \E b \in Candidates(r) :
          /\ node' = [node EXCEPT ![r] = b]
          /\ tried' = [tried EXCEPT ![r] = @ \cup {b}]
          /\ hurried' = IF \E q \in Requests \ {r} : pc[q] = "picked" /\ node[q] = b
                        THEN hurried \cup {r} ELSE hurried \ {r}
    /\ pc' = [pc EXCEPT ![r] = "picked"]
    /\ UNCHANGED <<clusterVars, cooldown, inflight, live, input, cancelled, gone, historyVars>>

\* The loop ends: busy if nothing was tried, backends_failed otherwise.
GiveUp(r) ==
    /\ pc[r] = "choose"
    /\ Cardinality(tried[r]) >= AttemptsOf(r) \/ Candidates(r) = {}
    /\ Finish(r)
    /\ UNCHANGED <<clusterVars, cooldown, inflight, live, input, node, tried, hurried, cancelled,
                   gone, voices, upstreamErrors>>

-----------------------------------------------------------------------------
(* forward *)

\* addInflight, track, and the request is sent.
Forward(r) ==
    /\ pc[r] = "picked"
    /\ inflight' = [inflight EXCEPT ![node[r]] = @ + 1]
    /\ cancelled' = [cancelled EXCEPT ![r] = FALSE]
    /\ pc' = [pc EXCEPT ![r] = "waiting"]
    /\ UNCHANGED <<clusterVars, cooldown, live, input, node, tried, hurried, gone, historyVars>>

\* forward's deferred calls.
Leave(r) == inflight' = [inflight EXCEPT ![node[r]] = @ - 1]

\* forward returns error p.
Return(r, p) ==
    /\ Leave(r)
    /\ pc' = [pc EXCEPT ![r] = p]

\* Mutant: the early return for a client that left forgets the count.
NoAnswerLeaks(r) ==
    /\ IF gone[r]
       THEN UNCHANGED inflight /\ Finish(r)
       ELSE Return(r, "retry") /\ UNCHANGED outcomes
    /\ UNCHANGED <<clusterVars, cooldown, live, input, node, tried, hurried, cancelled, gone,
                   voices, upstreamErrors>>

\* No answer: the connection broke, or the attempt was cancelled. If it was
\* the client who left, this is recorded as 499 and is no failure.
NoAnswer(r) ==
    /\ IF gone[r]
       THEN Leave(r) /\ Finish(r)
       ELSE Return(r, "retry") /\ UNCHANGED outcomes
    /\ UNCHANGED <<clusterVars, cooldown, live, input, node, tried, hurried, cancelled, gone,
                   voices, upstreamErrors>>

\* Mutant: the backend call runs under the client's context only.
DoCancelledByClient(r) == pc[r] = "waiting" /\ gone[r] /\ NoAnswer(r)

DoCancelled(r) == pc[r] = "waiting" /\ (cancelled[r] \/ gone[r]) /\ NoAnswer(r)
DoBroken(r) == pc[r] = "waiting" /\ ~gone[r] /\ NoAnswer(r)

\* A 5xx, or a 400 saying that the prompt exceeds the node's context.
AnswerRefused(r) ==
    /\ pc[r] = "waiting"
    /\ \E p \in {"retry", "small"} : Return(r, p)
    /\ UNCHANGED <<clusterVars, cooldown, live, input, node, tried, hurried, cancelled, gone,
                   historyVars>>

\* Any other answer goes to the client from its header on.
AnswerStarts(r) ==
    /\ pc[r] = "waiting"
    /\ voices' = [voices EXCEPT ![r] = @ \cup {node[r]}]
    /\ pc' = [pc EXCEPT ![r] = "copying"]
    /\ UNCHANGED <<clusterVars, cooldown, inflight, live, input, node, tried, hurried, cancelled,
                   gone, upstreamErrors, outcomes>>

CopyEnds(r) ==
    /\ pc[r] = "copying"
    /\ Leave(r) /\ Finish(r)
    /\ UNCHANGED <<clusterVars, cooldown, live, input, node, tried, hurried, cancelled, gone,
                   voices, upstreamErrors>>

\* The copy ends early and is recorded as "aborted".
Abort(r) ==
    /\ Return(r, "abort")
    /\ outcomes' = [outcomes EXCEPT ![r] = @ + 1]
    /\ UNCHANGED <<clusterVars, cooldown, live, input, node, tried, hurried, cancelled, gone,
                   voices, upstreamErrors>>

CopyCancelled(r) == pc[r] = "copying" /\ (cancelled[r] \/ gone[r]) /\ Abort(r)
CopyBroken(r) == pc[r] = "copying" /\ ~gone[r] /\ Abort(r)

-----------------------------------------------------------------------------
(* After a failed attempt *)

\* The node cools down unless only the prompt did not fit.
MarkedDown(r) == IF pc[r] = "small" THEN {} ELSE {node[r]}

\* Mutant: an aborted stream is accounted for like a failed attempt.
AfterErrorCountsAborts(r) ==
    /\ pc[r] \in {"retry", "small", "abort"}
    /\ cooldown' = cooldown \cup MarkedDown(r)
    /\ pc' = [pc EXCEPT ![r] = IF pc[r] = "abort" THEN "done" ELSE "choose"]
    /\ upstreamErrors' = [upstreamErrors EXCEPT ![r] = @ + 1]
    /\ outcomes' = [outcomes EXCEPT ![r] = IF pc[r] = "abort" THEN @ + 1 ELSE @]
    /\ UNCHANGED <<clusterVars, inflight, live, input, node, tried, hurried, cancelled, gone,
                   voices>>

\* Mutant: an aborted stream is failed over.
AfterErrorRetriesAborts(r) ==
    /\ pc[r] \in {"retry", "small", "abort"}
    /\ cooldown' = cooldown \cup MarkedDown(r)
    /\ pc' = [pc EXCEPT ![r] = "choose"]
    /\ upstreamErrors' = [upstreamErrors EXCEPT ![r] = @ + 1]
    /\ UNCHANGED <<clusterVars, inflight, live, input, node, tried, hurried, cancelled, gone,
                   voices, outcomes>>

AfterError(r) ==
    /\ pc[r] \in {"retry", "small", "abort"}
    /\ cooldown' = cooldown \cup MarkedDown(r)
    /\ IF pc[r] = "abort"
       THEN /\ pc' = [pc EXCEPT ![r] = "done"]
            /\ UNCHANGED upstreamErrors
       ELSE /\ pc' = [pc EXCEPT ![r] = "choose"]
            /\ upstreamErrors' = [upstreamErrors EXCEPT ![r] = @ + 1]
    /\ UNCHANGED <<clusterVars, inflight, live, input, node, tried, hurried, cancelled, gone,
                   voices, outcomes>>

-----------------------------------------------------------------------------
(* The reaper, the timers, the clients and the cluster *)

\* Reap reads the ready nodes, then takes Gateway.mu.
ReapRead ==
    /\ live = Nodes
    /\ live' = ready
    /\ UNCHANGED <<clusterVars, cooldown, inflight, handlerVars, cancelled, gone, historyVars>>

\* Mutant: attempts that have begun to answer are left alone.
ReapCancelWaiting ==
    /\ live # Nodes
    /\ cancelled' = [r \in Requests |-> cancelled[r] \/ (pc[r] = "waiting" /\ node[r] \notin live)]
    /\ live' = Nodes
    /\ UNCHANGED <<clusterVars, cooldown, inflight, handlerVars, gone, historyVars>>

ReapCancel ==
    /\ live # Nodes
    /\ cancelled' = [r \in Requests |-> cancelled[r] \/ (Forwarding(r) /\ node[r] \notin live)]
    /\ live' = Nodes
    /\ UNCHANGED <<clusterVars, cooldown, inflight, handlerVars, gone, historyVars>>

\* The first-token or the idle timer of an attempt fires.
Timeout(r) ==
    /\ Forwarding(r)
    /\ cancelled' = [cancelled EXCEPT ![r] = TRUE]
    /\ UNCHANGED <<clusterVars, cooldown, inflight, live, handlerVars, gone, historyVars>>

\* Only the next attempt, or the copy under way, notices it.
ClientLeaves(r) ==
    /\ pc[r] \in {"choose", "picked", "waiting", "copying"}
    /\ gone' = [gone EXCEPT ![r] = TRUE]
    /\ UNCHANGED <<clusterVars, cooldown, inflight, live, handlerVars, cancelled, historyVars>>

CooldownEnds(n) ==
    /\ n \in cooldown
    /\ cooldown' = cooldown \ {n}
    /\ UNCHANGED <<clusterVars, inflight, live, handlerVars, cancelled, gone, historyVars>>

\* Heartbeats, sweeps and operators change the cluster.
ClusterChanges ==
    /\ \E n \in Nodes :
          \/ ready' = (ready \cup {n}) \ (ready \cap {n}) /\ UNCHANGED drained
          \/ drained' = (drained \cup {n}) \ (drained \cap {n}) /\ UNCHANGED ready
    /\ UNCHANGED <<cooldown, inflight, live, handlerVars, cancelled, gone, historyVars>>

-----------------------------------------------------------------------------
\* The handler's own steps, which nothing outside it can hold up.
HandlerStep(r) ==
    \/ Accept(r) \/ Reject(r) \/ Pick(r) \/ GiveUp(r) \/ Forward(r) \/ AfterError(r)
    \/ DoCancelled(r) \/ CopyCancelled(r)

NodeStep(r) ==
    DoBroken(r) \/ AnswerRefused(r) \/ AnswerStarts(r) \/ CopyEnds(r) \/ CopyBroken(r)

Reap == ReapRead \/ ReapCancel

GatewayNext ==
    \/ \E r \in Requests : HandlerStep(r) \/ NodeStep(r) \/ Timeout(r) \/ ClientLeaves(r)
    \/ \E n \in Nodes : CooldownEnds(n)
    \/ Reap
    \/ ClusterChanges

GatewaySpec == GatewayInit /\ [][GatewayNext]_vars

\* Nodes may freeze and timers may be far away: only the handlers and the
\* reaper go on.
ReaperSpec ==
    GatewaySpec /\ WF_vars(Reap) /\ \A r \in Requests : WF_vars(HandlerStep(r))

\* The first-token timer ends a wait, and an answer that has begun ends or
\* falls silent until the idle timer fires.
Timers ==
    \A r \in Requests :
        /\ WF_vars(pc[r] = "waiting" /\ Timeout(r))
        /\ WF_vars(~cancelled[r] /\ (CopyEnds(r) \/ (pc[r] = "copying" /\ Timeout(r))))

-----------------------------------------------------------------------------
(* Properties *)

\* The in-flight count of a node is the number of requests forwarded to it,
\* on every path through forward: it never leaks and never goes below zero
\* (Gateway.addInflight and its deferred counterpart).
InflightIsExact ==
    \A n \in Nodes :
        inflight[n] = Cardinality({r \in Requests : Forwarding(r) /\ node[r] = n})

\* Failover ends with the first byte: a client that has received bytes of a
\* node hears no other node, and no further attempt is made for it, whatever
\* is cancelled meanwhile (Gateway.forward, Gateway.serveTarget).
OneVoice ==
    \A r \in Requests :
        voices[r] # {} => voices[r] = {node[r]} /\ pc[r] \in {"copying", "abort", "done"}

\* A node has more requests than its cap only through requests that chose it
\* together. Without those that chose it while another had chosen it and was
\* not counted yet, the cap is kept, whatever fails, is cancelled or is tried
\* again elsewhere (Gateway.candidates, Gateway.addInflight).
Chosen(r) == pc[r] \in {"picked", "waiting", "copying"}
CapIsKept ==
    \A n \in Nodes :
        MaxConcurrency[n] > 0 =>
            Cardinality({r \in Requests \ hurried : Chosen(r) /\ node[r] = n}) <= MaxConcurrency[n]

\* Every request has one final usage event, recorded neither twice nor
\* before the end, and one upstream error for each attempt that was given up
\* on: forward and its caller share the accounting (Gateway.forward,
\* Gateway.serveTarget).
Underway(r) == pc[r] \in {"picked", "waiting", "copying", "retry", "small", "abort"}
EveryRequestIsAccounted ==
    \A r \in Requests :
        /\ outcomes[r] = IF pc[r] \in {"abort", "done"} THEN 1 ELSE 0
        /\ Underway(r) => upstreamErrors[r] + 1 = Cardinality(tried[r])
        /\ pc[r] \in {"start", "choose"} => upstreamErrors[r] = Cardinality(tried[r])
        /\ pc[r] = "done" => Cardinality(tried[r]) \in {upstreamErrors[r], upstreamErrors[r] + 1}

\* A request on a node that stays lost is taken off it, even if the node
\* freezes and no timer fires: an attempt tracked just after one Reap, or
\* read as live by it, is found by a later one (Gateway.Reap).
LostNodesAreReleased ==
    \A r \in Requests, n \in Nodes :
        (Forwarding(r) /\ node[r] = n /\ n \notin ready)
            ~> (~Forwarding(r) \/ node[r] # n \/ n \in ready)

\* With the timers every request ends, although nodes freeze, leave and come
\* back (Gateway.forward, Gateway.serveTarget).
RequestsEnd ==
    Timers => \A r \in Requests : (pc[r] = "start") ~> (pc[r] = "done")

=============================================================================
