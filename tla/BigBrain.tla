------------------------------ MODULE BigBrain ------------------------------
(***************************************************************************)
(* Big Brain pools: one model split across the memory of several phones.   *)
(* The phones run an RPC server while they are members of a pool; the      *)
(* controller runs one head process for each pool. A supervisor compares   *)
(* heads and pools in every tick, one pool after the other, and waits for  *)
(* a head that it stops. Administrators change the pools, phones come and  *)
(* go, and heads exit, at any time.                                        *)
(*                                                                         *)
(* Whether the phones' free memory suffices is left open. A disabled pool  *)
(* and one that does not exist are the same here. Phones that are not      *)
(* Restless report what they are asked to do at once.                      *)
(***************************************************************************)
EXTENDS Naturals, FiniteSets

CONSTANTS
    NumPools,       \* the pools are 1..NumPools, in the order of their names
    Names,          \* names of phones: ids and aliases
    NodeOf,         \* name -> the phone it resolves to
    Restless,       \* phones whose reports may lag, fail or be withdrawn
    Requests,       \* [model, names]: the pools that administrators ask for
    Models,         \* models of the catalog
    None            \* no pool, no head, no process

Pools == 1..NumPools
Nodes == {NodeOf[x] : x \in Names}
Ports == 1..NumPools        \* BasePort and the following

Reports == {"own", "rpc", "late", "out"}
States == {"", "preparing", "loading", "ready", "error"}
Heads == [cancel : BOOLEAN, exited : BOOLEAN, state : States, port : Ports \cup {0},
          key : Requests \cup {None}, backoff : BOOLEAN, settling : BOOLEAN]
Processes == [port : Ports, key : Requests, phase : {"loading", "ok", "dead"}, cancelled : BOOLEAN]

ASSUME BigBrainAssumption ==
    /\ NumPools \in Nat
    /\ Restless \subseteq Nodes
    /\ Requests \subseteq [model : Models, names : SUBSET Names]
    /\ None \notin Requests /\ None \notin Heads /\ None \notin Processes

VARIABLES
    pools,      \* pool -> its request, or None
    ready,      \* the models that are ready in the catalog
    report,     \* restless phone -> what the registry knows of it
    head,       \* pool -> the head's state, or None
    proc,       \* pool -> the head's process, or None
    wanted,     \* the pools as this tick read them
    todo,       \* pools that this tick has not reconciled yet
    pc,         \* where the tick is
    after       \* the state to set once the head has stopped

world == <<pools, ready, report>>
vars == <<pools, ready, report, head, proc, wanted, todo, pc, after>>

BigBrainTypeOK ==
    /\ pools \in [Pools -> Requests \cup {None}]
    /\ ready \in SUBSET Models
    /\ report \in [Restless -> Reports]
    /\ head \in [Pools -> Heads \cup {None}]
    /\ proc \in [Pools -> Processes \cup {None}]
    /\ wanted \in [Pools -> Requests \cup {None}]
    /\ todo \in SUBSET Pools
    /\ pc \in {"idle", "pools", "stopping", "start", "poll", "answered", "forget", "forgetting"}
    /\ after \in States

BigBrainInit ==
    /\ pools = [p \in Pools |-> None]
    /\ ready = Models
    /\ report = [n \in Restless |-> "own"]
    /\ head = [p \in Pools |-> None]
    /\ proc = [p \in Pools |-> None]
    /\ wanted = [p \in Pools |-> None]
    /\ todo = {}
    /\ pc = "idle" /\ after = ""

-----------------------------------------------------------------------------
(* Pools and phones *)

\* The phones of a pool.
Members(r) == {NodeOf[x] : x \in r.names}

\* A Big Brain pool needs two nodes.
Valid(r) == Cardinality(r.names) >= 2

\* Mutant: names are compared, not the phones they stand for.
ConflictByName(p, r) ==
    \E q \in Pools \ {p} : pools[q] # None /\ pools[q].names \cap r.names # {}

\* Another enabled pool has one of the phones.
Conflict(p, r) ==
    \E q \in Pools \ {p} : pools[q] # None /\ Members(pools[q]) \cap Members(r) # {}

SetPool(p, r) ==
    /\ Valid(r) /\ ~Conflict(p, r)
    /\ pools' = [pools EXCEPT ![p] = r]
    /\ UNCHANGED <<ready, report, head, proc, wanted, todo, pc, after>>

DeletePool(p) ==
    /\ pools[p] # None
    /\ pools' = [pools EXCEPT ![p] = None]
    /\ UNCHANGED <<ready, report, head, proc, wanted, todo, pc, after>>

CatalogChanges ==
    /\ ready' \in SUBSET Models
    /\ UNCHANGED <<pools, report, head, proc, wanted, todo, pc, after>>

\* The answer to the heartbeats of phone n: lend the memory.
Lent(n) == \E p \in Pools : pools[p] # None /\ n \in Members(pools[p]) /\ pools[p].model \in ready

\* A phone reports what it was asked to do, or starts over, or is late with
\* its heartbeats, or is drained or forgotten.
NodeReports(n) ==
    /\ \/ report[n] \in {"own", "rpc", "late"} /\ report' = [report EXCEPT ![n] = IF Lent(n) THEN "rpc" ELSE "own"]
       \/ report' = [report EXCEPT ![n] = "own"]
       \/ report[n] = "rpc" /\ report' = [report EXCEPT ![n] = "late"]
       \/ report' = [report EXCEPT ![n] = "out"]
    /\ UNCHANGED <<pools, ready, head, proc, wanted, todo, pc, after>>

ReportOf(n) ==
    IF n \in Restless THEN report[n] ELSE IF Lent(n) THEN "rpc" ELSE "own"

-----------------------------------------------------------------------------
(* Head processes *)

Alive(p) == proc[p] # None /\ proc[p].phase # "dead"

\* The weights are on the phones and the head answers /health.
HeadLoads(p) ==
    /\ proc[p] # None /\ proc[p].phase = "loading"
    /\ proc' = [proc EXCEPT ![p].phase = "ok"]
    /\ UNCHANGED <<world, head, wanted, todo, pc, after>>

\* The process ends, by itself or because it was asked to.
HeadDies(p) ==
    /\ Alive(p)
    /\ proc' = [proc EXCEPT ![p].phase = "dead"]
    /\ UNCHANGED <<world, head, wanted, todo, pc, after>>

\* The goroutine that waits for the process closes done; it notes an exit
\* that nobody asked for.
WaitReturns(p) ==
    /\ proc[p] # None /\ proc[p].phase = "dead"
    /\ proc' = [proc EXCEPT ![p] = None]
    /\ head' = IF proc[p].cancelled THEN head
               ELSE [head EXCEPT ![p].exited = TRUE, ![p].backoff = TRUE, ![p].state = "error"]
    /\ UNCHANGED <<world, wanted, todo, pc, after>>

\* retryAt has passed.
BackoffEnds(p) ==
    /\ head[p] # None /\ head[p].backoff
    /\ head' = [head EXCEPT ![p].backoff = FALSE]
    /\ UNCHANGED <<world, proc, wanted, todo, pc, after>>

\* bigBrainSettle has passed since the head was stopped.
Settles(p) ==
    /\ head[p] # None /\ head[p].settling
    /\ head' = [head EXCEPT ![p].settling = FALSE]
    /\ UNCHANGED <<world, proc, wanted, todo, pc, after>>

-----------------------------------------------------------------------------
(* The tick *)

NewHead == [cancel |-> FALSE, exited |-> FALSE, state |-> "", port |-> 0, key |-> None,
            backoff |-> FALSE, settling |-> FALSE]
HeadOf(p) == IF head[p] = None THEN NewHead ELSE head[p]

\* Mutant: a head runs from its start until it is stopped.
IsStarted(p) == HeadOf(p).cancel

IsRunning(p) == HeadOf(p).cancel /\ ~HeadOf(p).exited

TickBegins ==
    /\ pc = "idle"
    /\ wanted' = pools
    /\ todo' = {p \in Pools : pools[p] # None}
    /\ pc' = "pools"
    /\ UNCHANGED <<world, head, proc, after>>

\* The goroutine of the stopped head has closed done.
Stopped(p) == proc[p] = None

\* The head's context is cancelled, and its fields are cleared; its state is
\* set only after it has ended.
StopHead(p) ==
    LET h == HeadOf(p)
    IN  /\ head' = [head EXCEPT ![p] =
                       [h EXCEPT !.cancel = FALSE, !.key = None, !.port = 0,
                                 !.exited = @ /\ ~h.cancel, !.settling = @ \/ h.cancel]]
        /\ proc' = IF h.cancel /\ proc[p] # None
                   THEN [proc EXCEPT ![p].cancelled = TRUE] ELSE proc

Current(p) == p \in todo /\ \A q \in todo : p <= q

\* Pool p is done in this tick.
PoolDone(p) == todo' = todo \ {p} /\ pc' = "pools"

\* Some member is not there, does something else, or is late: a running head
\* keeps a late member, because loading delays the heartbeats.
IsWaiting(p) ==
    \E n \in Members(wanted[p]) :
        \/ ReportOf(n) \in {"own", "out"}
        \/ ReportOf(n) = "late" /\ ~IsRunning(p)

\* The head is stopped: the model or a member is missing, or the pool has
\* other members or another model now.
ReconcileStops(p) ==
    /\ pc = "pools" /\ Current(p)
    /\ \/ wanted[p].model \notin ready /\ pc' = "stopping" /\ after' = "error"
       \/ wanted[p].model \in ready /\ IsWaiting(p) /\ pc' = "stopping" /\ after' = "preparing"
       \/ /\ wanted[p].model \in ready /\ ~IsWaiting(p)
          /\ IsRunning(p) /\ head[p].key # wanted[p]
          /\ pc' = "stopping" /\ after' = ""
    /\ StopHead(p)
    /\ UNCHANGED <<world, wanted, todo>>

HeadStopped(p) ==
    /\ pc = "stopping" /\ Current(p) /\ Stopped(p)
    /\ \/ after = "" /\ pc' = "start" /\ UNCHANGED <<head, todo>>
       \/ after # "" /\ head' = [head EXCEPT ![p].state = after] /\ PoolDone(p)
    /\ after' = ""
    /\ UNCHANGED <<world, proc, wanted>>

CanGoOn(p) == pc = "pools" /\ Current(p) /\ wanted[p].model \in ready /\ ~IsWaiting(p)

\* A running head is asked for its health while it loads.
ReconcilePolls(p) ==
    /\ CanGoOn(p) /\ IsRunning(p) /\ head[p].key = wanted[p]
    /\ IF head[p].state = "loading" THEN pc' = "poll" /\ UNCHANGED todo ELSE PoolDone(p)
    /\ UNCHANGED <<world, head, proc, wanted, after>>

PollFails(p) ==
    /\ pc = "poll" /\ Current(p)
    /\ PoolDone(p)
    /\ UNCHANGED <<world, head, proc, wanted, after>>

PollAnswered(p) ==
    /\ pc = "poll" /\ Current(p)
    /\ \E q \in Pools : proc[q] # None /\ proc[q].phase = "ok" /\ proc[q].port = head[p].port
    /\ pc' = "answered"
    /\ UNCHANGED <<world, head, proc, wanted, todo, after>>

\* The head is ready, whatever has happened to it since it answered.
HeadReady(p) ==
    /\ pc = "answered" /\ Current(p)
    /\ head' = [head EXCEPT ![p].state = "ready"]
    /\ PoolDone(p)
    /\ UNCHANGED <<world, proc, wanted, after>>

\* Mutant: only the ports of heads that are ready are avoided.
FreePortOfReady(p) ==
    LET used == {head[q].port : q \in {x \in Pools \ {p} : head[x] # None /\ head[x].state = "ready"}}
    IN  CHOOSE port \in Ports : port \notin used /\ 1..(port - 1) \subseteq used

\* The lowest port that no other running head uses.
FreePort(p) ==
    CHOOSE port \in Ports :
        /\ \A q \in Pools \ {p} : IsRunning(q) => head[q].port # port
        /\ \A lower \in 1..(port - 1) : \E q \in Pools \ {p} : IsRunning(q) /\ head[q].port = lower

\* Where a head may be started: it does not run, or was just stopped.
MayStart(p) == (CanGoOn(p) /\ ~IsRunning(p)) \/ (pc = "start" /\ Current(p))

\* Not yet, or not with this memory.
StartWaits(p) ==
    /\ MayStart(p)
    /\ LET h == HeadOf(p) IN
       head' = [head EXCEPT ![p] =
                   IF h.exited /\ h.backoff THEN [h EXCEPT !.state = "error"]
                   ELSE IF h.settling THEN [h EXCEPT !.state = "preparing"]
                   ELSE [h EXCEPT !.state = "error"]]
    /\ PoolDone(p)
    /\ UNCHANGED <<world, proc, wanted, after>>

StartHead(p) ==
    /\ MayStart(p)
    /\ ~(HeadOf(p).exited /\ HeadOf(p).backoff) /\ ~HeadOf(p).settling
    /\ \/ LET port == FreePort(p) IN
          /\ head' = [head EXCEPT ![p] =
                         [HeadOf(p) EXCEPT !.key = wanted[p], !.cancel = TRUE, !.exited = FALSE,
                                           !.state = "loading", !.port = port]]
          /\ proc' = [proc EXCEPT ![p] = [port |-> port, key |-> wanted[p], phase |-> "loading",
                                          cancelled |-> FALSE]]
       \/ /\ head' = [head EXCEPT ![p] =
                         [HeadOf(p) EXCEPT !.exited = TRUE, !.backoff = TRUE, !.state = "error"]]
          /\ UNCHANGED proc
    /\ PoolDone(p)
    /\ UNCHANGED <<world, wanted, after>>

\* Mutant: heads that do not run are kept.
ForgetRunningHeads ==
    /\ pc = "pools" /\ todo = {}
    /\ \/ (\A p \in Pools : IsRunning(p) => wanted[p] # None) /\ pc' = "idle" /\ UNCHANGED <<head, proc, todo>>
       \/ \E p \in Pools :
             /\ IsRunning(p) /\ wanted[p] = None
             /\ head' = [head EXCEPT ![p] = None]
             /\ proc' = IF proc[p] # None THEN [proc EXCEPT ![p].cancelled = TRUE] ELSE proc
             /\ todo' = {p} /\ pc' = "forgetting"
    /\ UNCHANGED <<world, wanted, after>>

\* Heads of pools that are gone are stopped last, and forgotten.
ForgetHeads ==
    /\ pc = "pools" /\ todo = {}
    /\ \/ (\A p \in Pools : head[p] # None => wanted[p] # None) /\ pc' = "idle" /\ UNCHANGED <<head, proc, todo>>
       \/ \E p \in Pools :
             /\ head[p] # None /\ wanted[p] = None
             /\ head' = [head EXCEPT ![p] = None]
             /\ proc' = IF head[p].cancel /\ proc[p] # None
                        THEN [proc EXCEPT ![p].cancelled = TRUE] ELSE proc
             /\ todo' = {p} /\ pc' = "forgetting"
    /\ UNCHANGED <<world, wanted, after>>

HeadForgotten(p) ==
    /\ pc = "forgetting" /\ p \in todo /\ Stopped(p)
    /\ todo' = {} /\ pc' = "pools"
    /\ UNCHANGED <<world, head, proc, wanted, after>>

Tick ==
    \/ TickBegins \/ ForgetHeads
    \/ \E p \in Pools :
          \/ ReconcileStops(p) \/ HeadStopped(p)
          \/ ReconcilePolls(p) \/ PollFails(p) \/ PollAnswered(p) \/ HeadReady(p)
          \/ StartWaits(p) \/ StartHead(p) \/ HeadForgotten(p)

\* The head is a backend of the gateway, for requests to its pool.
Offered(p) == pools[p] # None /\ head[p] # None /\ head[p].state = "ready"

Process(p) == HeadLoads(p) \/ HeadDies(p) \/ WaitReturns(p) \/ BackoffEnds(p) \/ Settles(p)

BigBrainNext ==
    \/ \E p \in Pools : DeletePool(p) \/ Process(p) \/ \E r \in Requests : SetPool(p, r)
    \/ \E n \in Restless : NodeReports(n)
    \/ CatalogChanges
    \/ Tick

\* The ticker and the timers go on, and a head that is asked to end is killed
\* after WaitDelay at the latest.
Fairness ==
    /\ WF_vars(Tick)
    /\ \A p \in Pools :
          /\ WF_vars(HeadDies(p) /\ proc[p].cancelled)
          /\ WF_vars(WaitReturns(p)) /\ WF_vars(BackoffEnds(p)) /\ WF_vars(Settles(p))

BigBrainSpec == BigBrainInit /\ [][BigBrainNext]_vars /\ Fairness

-----------------------------------------------------------------------------
(* Properties *)

\* What answers on the port of a head that runs, polls and requests alike, is
\* that head, with the model and the phones it was started for: a stopped
\* head has let go of its port before another one takes it (freePortLocked,
\* stop, start).
OwnHeadAnswers ==
    \A p, q \in Pools :
        IsRunning(p) /\ Alive(q) /\ proc[q].port = head[p].port
        => q = p /\ proc[q].key = head[p].key

\* Once a tick is over, no phone lends its memory to two heads that run, and
\* its names do not matter (poolConflict, bigBrainTick).
OneBrainPerPhone ==
    pc = "idle" =>
        \A p, q \in Pools :
            p # q /\ Alive(p) /\ Alive(q) => Members(proc[p].key) \cap Members(proc[q].key) = {}

\* The head of a pool that is deleted or disabled ends and is forgotten, also
\* when it still loads and whatever else happens (bigBrainTick, stop).
RemovedHeadsEnd ==
    \A p \in Pools : <>[](pools[p] = None) => <>[](proc[p] = None /\ head[p] = None)

\* A head that has ended is not offered as ready for ever: the exit is noticed
\* even when it comes between the answer to a poll and the state that the poll
\* sets (pollBigBrain, reconcileBigBrain).
DeadHeadsAreNotOffered ==
    \A p \in Pools : proc[p] = None /\ Offered(p) ~> proc[p] # None \/ ~Offered(p)

=============================================================================
