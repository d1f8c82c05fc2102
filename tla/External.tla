------------------------------ MODULE External ------------------------------
(***************************************************************************)
(* External nodes: OpenAI-compatible servers that the operator adds. Their *)
(* configurations are one of the controller's stores; on top of it, every  *)
(* node is polled for its models and measured once per model. Polls and    *)
(* self-tests take the configuration under the mutex, call the server      *)
(* without it, and take the mutex again for their result; meanwhile the    *)
(* node may have been replaced or removed. The speeds are kept in the file *)
(* with the configurations. An entry's id stands for the node object.      *)
(***************************************************************************)
EXTENDS Stores

CONSTANTS
    Nodes,          \* the names that external nodes are given
    Models,
    Url,            \* id -> the server of that configuration
    Allow,          \* id -> the models that it may use
    FailsOffline    \* failed polls before a node is OFFLINE

ASSUME ExternalAssumption ==
    /\ Nodes \subseteq Names /\ FailsOffline \in Nat \ {0}
    /\ \A id \in 1..MaxIds : Allow[id] \subseteq Models

VARIABLES
    live,       \* name -> [state, fails, models, speed, testing, drained] of its node
    saved,      \* name -> the speeds in the file
    polls,      \* poller -> the entry it polls, or None
    tests,      \* the self-tests under way: [entry, models]
    serving     \* the servers that answer

externalVars == <<live, saved, polls, tests, serving>>
allVars == <<storeVars, externalVars>>

Servers == {Url[id] : id \in 1..MaxIds}
Pollers == {"run", "admin"}

\* A speed is the server at which it was measured, or None.
Unmeasured == [m \in Models |-> None]
NewNode == [state |-> "OFFLINE", fails |-> 0, models |-> {}, speed |-> Unmeasured, testing |-> FALSE,
            drained |-> FALSE]

Speeds == [Models -> Servers \cup {None}]
NodeRecords == [state : {"ACTIVE", "OFFLINE"}, fails : 0..FailsOffline, models : SUBSET Models, speed : Speeds,
                testing : BOOLEAN, drained : BOOLEAN]
Configurations == [name : Nodes, id : 1..MaxIds]

ExternalTypeOK ==
    /\ StoresTypeOK
    /\ live \in [Nodes -> NodeRecords]
    /\ saved \in [Nodes -> Speeds]
    /\ polls \in [Pollers -> Configurations \cup {None}]
    /\ tests \subseteq [entry : Configurations, models : SUBSET Models]
    /\ kind = "externals" => mem \cup file \subseteq Configurations

ExternalInit ==
    /\ StoresInit
    /\ live = [n \in Nodes |-> NewNode]
    /\ saved = [n \in Nodes |-> Unmeasured]
    /\ polls = [p \in Pollers |-> None]
    /\ tests = {}
    /\ serving = {}

-----------------------------------------------------------------------------
(* Configurations *)

\* The node that replaces old: it keeps what is known of the same server.
Replaced(old, id) ==
    IF \E e \in old : Url[e.id] = Url[id]
    THEN LET node == live[(CHOOSE e \in old : TRUE).name]
         IN  [node EXCEPT !.models = @ \cap Allow[id], !.testing = FALSE]
    ELSE NewNode

PutExternal(n) ==
    /\ Put(n)
    /\ live' = [live EXCEPT ![n] = Replaced(Of(n, mem), lastId')]
    /\ UNCHANGED <<saved, polls, tests, serving>>

RemoveExternal(n) ==
    /\ Remove(n)
    /\ live' = [live EXCEPT ![n] = NewNode]
    /\ UNCHANGED <<saved, polls, tests, serving>>

\* Draining is not stored.
DrainExternal(n) ==
    /\ op = None /\ Of(n, mem) # {}
    /\ live' = [live EXCEPT ![n].drained = ~@]
    /\ UNCHANGED <<storeVars, saved, polls, tests, serving>>

\* The file is written with the speeds.
RenameExternal ==
    /\ Rename
    /\ saved' = [n \in Nodes |-> live[n].speed]
    /\ UNCHANGED <<live, polls, tests, serving>>

RestartExternal ==
    /\ Restart /\ UNCHANGED enforced
    /\ live' = [n \in Nodes |-> [NewNode EXCEPT !.speed = saved[n]]]
    /\ polls' = [p \in Pollers |-> None] /\ tests' = {}
    /\ UNCHANGED <<saved, serving>>

-----------------------------------------------------------------------------
(* Polls *)

\* Mutant: nodes that are OFFLINE are left alone.
BeginPollIfActive(p, n) ==
    /\ op = None /\ polls[p] = None
    /\ live[n].state = "ACTIVE" \/ live[n].fails = 0
    /\ \E e \in Of(n, mem) : polls' = [polls EXCEPT ![p] = e]
    /\ UNCHANGED <<storeVars, live, saved, tests, serving>>

BeginPoll(p, n) ==
    /\ op = None /\ polls[p] = None
    /\ \E e \in Of(n, mem) : polls' = [polls EXCEPT ![p] = e]
    /\ UNCHANGED <<storeVars, live, saved, tests, serving>>

Answered(node, id) == [node EXCEPT !.fails = 0, !.models = Allow[id], !.state = "ACTIVE"]

\* A node that is ACTIVE stays so through a few failures.
NotAnswered(node) ==
    LET fails == IF node.fails < FailsOffline THEN node.fails + 1 ELSE FailsOffline
    IN  [node EXCEPT !.fails = fails, !.state = IF fails >= FailsOffline THEN "OFFLINE" ELSE @]

\* The result counts only for the node that was polled.
EndPoll(p) ==
    /\ op = None /\ polls[p] # None
    /\ polls' = [polls EXCEPT ![p] = None]
    /\ LET e == polls[p]
       IN  live' = IF e \notin mem THEN live
                   ELSE [live EXCEPT ![e.name] = IF Url[e.id] \in serving THEN Answered(@, e.id) ELSE NotAnswered(@)]
    /\ UNCHANGED <<storeVars, saved, tests, serving>>

-----------------------------------------------------------------------------
(* Self-tests *)

BeginTest(n, models) ==
    /\ op = None
    /\ live[n].state = "ACTIVE" /\ ~live[n].testing
    /\ models # {}
    /\ \E e \in Of(n, mem) : tests' = tests \cup {[entry |-> e, models |-> models]}
    /\ live' = [live EXCEPT ![n].testing = TRUE]
    /\ UNCHANGED <<storeVars, saved, polls, serving>>

\* After every poll the models without a speed are measured; an administrator
\* has all of them measured again.
TestNewModels(n) == BeginTest(n, {m \in live[n].models : live[n].speed[m] = None})
TestAgain(n) == BeginTest(n, live[n].models)

Measured(node, t) ==
    [node EXCEPT !.testing = FALSE,
                 !.speed = [m \in Models |-> IF m \in t.models THEN Url[t.entry.id] ELSE @[m]]]

\* Mutant: the result counts for whatever node has the name.
EndTestByName(t) ==
    /\ op = None /\ t \in tests
    /\ tests' = tests \ {t}
    /\ \/ /\ Of(t.entry.name, mem) # {}
          /\ live' = [live EXCEPT ![t.entry.name] = Measured(@, t)]
          /\ Begin(mem)
       \/ Of(t.entry.name, mem) = {} /\ UNCHANGED <<live, op, mem>>
    /\ UNCHANGED <<kind, file, reading, enforced, lastId, historyVars, saved, polls, serving>>

\* The speeds are stored with all configurations, also one that could not be
\* stored before. A failed measurement counts as one.
EndTest(t) ==
    /\ op = None /\ t \in tests
    /\ tests' = tests \ {t}
    /\ \/ /\ t.entry \in mem
          /\ live' = [live EXCEPT ![t.entry.name] = Measured(@, t)]
          /\ Begin(mem)
       \/ t.entry \notin mem /\ UNCHANGED <<live, op, mem>>
    /\ UNCHANGED <<kind, file, reading, enforced, lastId, historyVars, saved, polls, serving>>

\* A server starts or stops to answer.
ServerChanges(u) ==
    /\ serving' = IF u \in serving THEN serving \ {u} ELSE serving \cup {u}
    /\ UNCHANGED <<storeVars, live, saved, polls, tests>>

-----------------------------------------------------------------------------

\* What the gateway may route to: one backend for each model of an ACTIVE node.
Speed(n, m) == live[n].speed[m]
Backends ==
    UNION {{[node |-> n, model |-> m, speed |-> Speed(n, m), drained |-> live[n].drained] : m \in live[n].models} :
              n \in {x \in Nodes : Of(x, mem) # {} /\ live[x].state = "ACTIVE"}}

Write == (WriteTemp \/ Done \/ Fail) /\ UNCHANGED externalVars

ExternalNext ==
    \/ kind # "externals" /\ StoresNext /\ UNCHANGED externalVars
    \/ /\ kind = "externals"
       /\ \/ \E n \in Nodes : \/ PutExternal(n) \/ RemoveExternal(n) \/ DrainExternal(n)
                              \/ \E p \in Pollers : BeginPoll(p, n)
                              \/ TestNewModels(n) \/ TestAgain(n)
          \/ \E p \in Pollers : EndPoll(p)
          \/ \E t \in tests : EndTest(t)
          \/ \E u \in Servers : ServerChanges(u)
          \/ Write \/ RenameExternal \/ RestartExternal

\* The poll loop and the calls it makes go on, writing a file ends, and the
\* mutex is handed out fairly.
ExternalSpec ==
    /\ ExternalInit /\ [][ExternalNext]_allVars
    /\ \A n \in Nodes : SF_allVars(kind = "externals" /\ BeginPoll("run", n))
    /\ SF_allVars(kind = "externals" /\ EndPoll("run"))
    /\ WF_allVars(kind = "externals" /\ (Write \/ RenameExternal))

-----------------------------------------------------------------------------
(* Properties *)

\* A node is routed by speeds that were measured at the server it is
\* configured for: neither a self-test that ends after its node was replaced,
\* nor a configuration that could not be stored, nor a restart mixes them up
\* (put, selfTest, LoadExternal).
SpeedsAreOfTheServer ==
    kind = "externals" =>
        \A e \in mem : \A m \in Models : Speed(e.name, m) \in {None, Url[e.id]}

\* A node whose server answers is routed to again with all its models, whatever
\* happened before, once it is no longer changed and the controller runs on
\* (poll, run, backends).
AnsweringNodesReturn ==
    \A e \in [name : Nodes, id : 1..MaxIds] :
        /\ <>[](kind = "externals" /\ e \in mem /\ Url[e.id] \in serving)
        /\ <>[][~RestartExternal]_allVars
        => <>[](\A m \in Allow[e.id] : \E b \in Backends : b.node = e.name /\ b.model = m)
=============================================================================
