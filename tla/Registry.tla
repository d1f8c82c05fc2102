------------------------------ MODULE Registry ------------------------------
(***************************************************************************)
(* The controller's in-memory membership registry: which phones it knows,  *)
(* their lifecycle state, their drain flags and their aliases, plus the    *)
(* alias part of the routing file that a restarted controller loads.       *)
(*                                                                         *)
(* Every action but SetAlias is one critical section of Registry.mu.       *)
(* Naming a node takes two: SetAlias under Registry.mu and then            *)
(* SaveRouting under the mutex of the routing file, with other handlers in *)
(* between.                                                                *)
(*                                                                         *)
(* LastSeen is kept as its age, which stops growing at OfflineAfter: the   *)
(* sweep compares it with nothing larger.                                  *)
(***************************************************************************)
EXTENDS Naturals

CONSTANTS
    Nodes,          \* node ids that may register
    AliasNames,     \* valid aliases; an id of [a-z0-9-] is a valid alias too
    NoAlias,        \* the empty alias
    SuspectAfter,   \* silence before a node is SUSPECT, in ticks
    OfflineAfter,   \* silence before a node is OFFLINE, in ticks
    MaxUnsaved      \* bound on alias handlers waiting to save

ASSUME RegistryAssumption ==
    /\ NoAlias \notin AliasNames \cup Nodes
    /\ SuspectAfter \in Nat \ {0}
    /\ OfflineAfter \in Nat
    /\ SuspectAfter < OfflineAfter
    /\ MaxUnsaved \in Nat \ {0}

VARIABLES
    state,      \* lifecycle state; "ABSENT": not in Registry.nodes
    bench,      \* whether Benchmark is set
    ready,      \* whether LastHeartbeat reported a ready runtime
    age,        \* ticks since LastSeen
    drained,    \* node ids with a drain flag
    alias,      \* node id -> alias
    savedAlias, \* the aliases in the routing file
    unsaved,    \* alias handlers between SetAlias and saveRouting
    saveFailed, \* whether the last save failed
    shadowed    \* history: nodes that registered while their id was another's alias

regVars == <<state, bench, ready, age, drained, alias, savedAlias, unsaved, saveFailed,
             shadowed>>

States == {"ABSENT", "BENCHMARKING", "ACTIVE", "SUSPECT", "OFFLINE"}

TypeOK ==
    /\ state \in [Nodes -> States]
    /\ bench \in [Nodes -> BOOLEAN]
    /\ ready \in [Nodes -> BOOLEAN]
    /\ age \in [Nodes -> 0..OfflineAfter]
    /\ drained \in SUBSET Nodes
    /\ alias \in [Nodes -> AliasNames \cup {NoAlias}]
    /\ savedAlias \in [Nodes -> AliasNames \cup {NoAlias}]
    /\ unsaved \in 0..MaxUnsaved
    /\ saveFailed \in BOOLEAN
    /\ shadowed \in SUBSET Nodes

Known(n) == state[n] # "ABSENT"

Init ==
    /\ state = [n \in Nodes |-> "ABSENT"]
    /\ bench = [n \in Nodes |-> FALSE]
    /\ ready = [n \in Nodes |-> FALSE]
    /\ age = [n \in Nodes |-> 0]
    /\ drained = {}
    /\ alias = [n \in Nodes |-> NoAlias]
    /\ savedAlias = [n \in Nodes |-> NoAlias]
    /\ unsaved = 0
    /\ saveFailed = FALSE
    /\ shadowed = {}

-----------------------------------------------------------------------------
(* Lifecycle *)

\* A new node starts with no heartbeat; a known one keeps its last heartbeat.
\* Nobody looks whether its id is in use as an alias.
Register(n) ==
    /\ state' = [state EXCEPT ![n] = "BENCHMARKING"]
    /\ bench' = [bench EXCEPT ![n] = FALSE]
    /\ age' = [age EXCEPT ![n] = 0]
    /\ shadowed' = IF Known(n) THEN shadowed
                   ELSE IF \E other \in Nodes \ {n} : alias[other] = n THEN shadowed \cup {n}
                   ELSE shadowed \ {n}
    /\ UNCHANGED <<ready, drained, alias, savedAlias, unsaved, saveFailed>>

\* An unknown node is refused (ErrUnknownNode): nothing changes.
ReportBenchmark(n) ==
    /\ Known(n)
    /\ bench' = [bench EXCEPT ![n] = TRUE]
    /\ age' = [age EXCEPT ![n] = 0]
    /\ state' = [state EXCEPT ![n] = "ACTIVE"]
    /\ UNCHANGED <<ready, drained, alias, savedAlias, unsaved, saveFailed, shadowed>>

\* Mutant: every late node becomes ACTIVE, benchmarked or not.
ResumedUnmeasured(n) == IF state[n] \in {"SUSPECT", "OFFLINE"} THEN "ACTIVE" ELSE state[n]

\* Mutant: only SUSPECT is lifted.
ResumedSuspectOnly(n) ==
    IF state[n] # "SUSPECT" THEN state[n] ELSE IF bench[n] THEN "ACTIVE" ELSE "BENCHMARKING"

\* The state a heartbeat leaves a node in.
Resumed(n) ==
    IF state[n] \notin {"SUSPECT", "OFFLINE"} THEN state[n]
    ELSE IF bench[n] THEN "ACTIVE" ELSE "BENCHMARKING"

Heartbeat(n, r) ==
    /\ Known(n)
    /\ ready' = [ready EXCEPT ![n] = r]
    /\ age' = [age EXCEPT ![n] = 0]
    /\ state' = [state EXCEPT ![n] = Resumed(n)]
    /\ UNCHANGED <<bench, drained, alias, savedAlias, unsaved, saveFailed, shadowed>>

\* Mutant: the shorter limit is compared first.
DemotedSuspectFirst(n) ==
    IF ~Known(n) THEN "ABSENT"
    ELSE IF age[n] >= SuspectAfter /\ state[n] # "OFFLINE" THEN "SUSPECT"
    ELSE IF age[n] >= OfflineAfter THEN "OFFLINE"
    ELSE state[n]

\* What the sweep makes of node n.
Demoted(n) ==
    IF ~Known(n) THEN "ABSENT"
    ELSE IF age[n] >= OfflineAfter THEN "OFFLINE"
    ELSE IF age[n] >= SuspectAfter /\ state[n] # "OFFLINE" THEN "SUSPECT"
    ELSE state[n]

Sweep ==
    /\ state' = [n \in Nodes |-> Demoted(n)]
    /\ UNCHANGED <<bench, ready, age, drained, alias, savedAlias, unsaved, saveFailed, shadowed>>

\* Time passes; the age of LastSeen saturates.
Tick ==
    /\ age' = [n \in Nodes |->
                 IF Known(n) /\ age[n] < OfflineAfter THEN age[n] + 1 ELSE age[n]]
    /\ UNCHANGED <<state, bench, ready, drained, alias, savedAlias, unsaved, saveFailed, shadowed>>

Forget(n) ==
    /\ Known(n)
    /\ state' = [state EXCEPT ![n] = "ABSENT"]
    /\ bench' = [bench EXCEPT ![n] = FALSE]
    /\ ready' = [ready EXCEPT ![n] = FALSE]
    /\ age' = [age EXCEPT ![n] = 0]
    /\ UNCHANGED <<drained, alias, savedAlias, unsaved, saveFailed, shadowed>>

-----------------------------------------------------------------------------
(* Drain flags and aliases *)

SetDrained(n, d) ==
    /\ Known(n) \/ (~d /\ n \in drained)
    /\ drained' = IF d THEN drained \cup {n} ELSE drained \ {n}
    /\ UNCHANGED <<state, bench, ready, age, alias, savedAlias, unsaved, saveFailed, shadowed>>

\* Mutant: only aliases are compared.
AliasTakenByAlias(n, a) == \E other \in Nodes \ {n} : alias[other] = a

AliasTaken(n, a) ==
    \/ a \in Nodes \ {n} /\ Known(a)
    \/ \E other \in Nodes \ {n} : alias[other] = a

SetAlias(n, a) ==
    /\ Known(n) \/ (a = NoAlias /\ alias[n] # NoAlias)
    /\ a # NoAlias => ~AliasTaken(n, a)
    /\ unsaved < MaxUnsaved
    /\ alias' = [alias EXCEPT ![n] = a]
    /\ unsaved' = unsaved + 1
    /\ UNCHANGED <<state, bench, ready, age, drained, savedAlias, saveFailed, shadowed>>

\* Mutant: the error of the write is dropped.
SaveRoutingUnchecked ==
    /\ unsaved > 0
    /\ unsaved' = unsaved - 1
    /\ saveFailed' = FALSE
    /\ savedAlias' = alias \/ UNCHANGED savedAlias
    /\ UNCHANGED <<state, bench, ready, age, drained, alias, shadowed>>

\* The file is written from the aliases read inside the save, so whichever
\* handler saves last stores the newest ones.
SaveRouting ==
    /\ unsaved > 0
    /\ unsaved' = unsaved - 1
    /\ \/ /\ savedAlias' = alias
          /\ saveFailed' = FALSE
       \/ /\ saveFailed' = TRUE
          /\ UNCHANGED savedAlias
    /\ UNCHANGED <<state, bench, ready, age, drained, alias, shadowed>>

\* Pool, router and performance changes write the same file.
SaveOtherChange ==
    /\ savedAlias' = alias
    /\ saveFailed' = FALSE
    /\ UNCHANGED <<state, bench, ready, age, drained, alias, unsaved, shadowed>>

\* A new controller process: an empty registry and the stored aliases.
Restart ==
    /\ state' = [n \in Nodes |-> "ABSENT"]
    /\ bench' = [n \in Nodes |-> FALSE]
    /\ ready' = [n \in Nodes |-> FALSE]
    /\ age' = [n \in Nodes |-> 0]
    /\ drained' = {}
    /\ alias' = savedAlias
    /\ unsaved' = 0
    /\ saveFailed' = FALSE
    /\ shadowed' = {}
    /\ UNCHANGED savedAlias

-----------------------------------------------------------------------------
NodeStep(n) ==
    \/ Register(n)
    \/ ReportBenchmark(n)
    \/ \E r \in BOOLEAN : Heartbeat(n, r)

AdminStep ==
    \/ \E n \in Nodes : Forget(n)
    \/ \E n \in Nodes, d \in BOOLEAN : SetDrained(n, d)
    \/ \E n \in Nodes, a \in AliasNames \cup {NoAlias} : SetAlias(n, a)
    \/ SaveRouting
    \/ SaveOtherChange

Next ==
    \/ \E n \in Nodes : NodeStep(n)
    \/ AdminStep
    \/ Sweep
    \/ Tick
    \/ Restart

Spec == Init /\ [][Next]_regVars

\* The main loop sweeps every second, and time passes.
FairSpec == Spec /\ WF_regVars(Sweep) /\ WF_regVars(Tick)

-----------------------------------------------------------------------------
(* The operations that read the registry *)

\* The node a name addresses: first by alias, then by id.
Resolutions(name) ==
    LET byAlias == {n \in Nodes : alias[n] = name}
    IN  IF byAlias # {} THEN byAlias
        ELSE {n \in Nodes : n = name /\ Known(n)}

\* The nodes that a pool has as members by one of the names it lists.
Members(name) == {n \in Nodes : Known(n) /\ name \in {n, alias[n]}}

\* The nodes the gateway may send requests to, and those that take new ones.
Backends == {n \in Nodes : state[n] = "ACTIVE" /\ ready[n]}
Routable == Backends \ drained

-----------------------------------------------------------------------------
(* Properties *)

\* A node is ACTIVE only with the benchmark of its current registration: no
\* order of heartbeats, sweeps and re-registrations promotes an unmeasured
\* node (Registry.Heartbeat, Registry.Register).
ActiveIsBenchmarked ==
    \A n \in Nodes : state[n] = "ACTIVE" => bench[n]

\* SUSPECT and OFFLINE are never stale: a node in one of them has been silent
\* for that long, whatever it did before (Sweep against every operation that
\* refreshes LastSeen).
LatenessIsReal ==
    \A n \in Nodes :
        /\ state[n] = "SUSPECT" => age[n] >= SuspectAfter
        /\ state[n] = "OFFLINE" => age[n] >= OfflineAfter

\* A name addresses one node, whether it is looked up or listed in a pool, in
\* memory and after a restart from the routing file. Excepted are the pools
\* that list the id of a node which registered when another had it as its
\* alias: they have both (Registry.SetAlias, Registry.Lookup, poolMembers).
NamesAreUnambiguous ==
    \A name \in AliasNames \cup Nodes :
        /\ \A m, n \in Resolutions(name) : m = n
        /\ \A m, n \in Members(name) : m = n \/ name \in shadowed
        /\ \A m, n \in Nodes : savedAlias[m] = name /\ savedAlias[n] = name => m = n

\* Once every alias handler has returned and the last save did not fail, the
\* routing file holds the aliases the controller uses: overlapping saves
\* never leave an older set behind (Server.saveRouting).
FileIsCurrent == unsaved = 0 /\ ~saveFailed => savedAlias = alias

\* A node that stays silent is taken out: it goes OFFLINE unless it is seen
\* again, forgotten, or the controller restarts (Registry.Sweep).
SilentGoesOffline ==
    \A n \in Nodes :
        (Known(n) /\ age[n] = OfflineAfter)
            ~> (state[n] \in {"OFFLINE", "ABSENT"} \/ age[n] < OfflineAfter)
=============================================================================
