----------------------------- MODULE Placement -----------------------------
(***************************************************************************)
(* The placement of models on nodes: the operator's spec, the plan that    *)
(* every change recomputes, what the nodes are told and report, and the    *)
(* multi-model benchmark (MMB), which drains the nodes under test, forces  *)
(* one model after the other onto them, and gives them back.               *)
(*                                                                         *)
(* The catalog is reduced to which models it knows and which are ready.    *)
(* PUT /admin/placement validates before it takes the lock, and DELETE     *)
(* /admin/models checks the placement before it removes the model, so both *)
(* have two steps. The spec's file is taken to hold the spec; Stores has   *)
(* what happens when it cannot be written.                                 *)
(***************************************************************************)
EXTENDS Planner

CONSTANTS
    Specs,          \* the placements that operators ask for
    Changing,       \* models that are added, downloaded and removed
    Attended,       \* nodes that leave, come back, lose their model and are drained
    Benchmarks,     \* sets of nodes that are benchmarked
    MaxEvents       \* bound on the requests of administrators and the crashes

\* Where the benchmark of a node is, the models it has left, and whether the
\* node was drained before.
BenchStates == [pc : {"next", "wait", "probe"}, todo : SUBSET Models, was : BOOLEAN]

ASSUME PlacementAssumption ==
    /\ None \notin BenchStates
    /\ Specs \subseteq [policy : [Models -> Policies \cup {None}], default : Models \cup {None}]
    /\ None \notin Specs
    /\ Changing \subseteq Models /\ Attended \subseteq Nodes /\ Benchmarks \subseteq SUBSET Nodes

VARIABLES
    catalog,    \* model -> "absent", "known" or "ready"
    up,         \* nodes that are not offline
    drained,    \* nodes that take no requests
    asked,      \* nodes whose last drain request of an administrator was to drain
    current,    \* node -> the model it reports
    spec,       \* the operator's placement
    override,   \* node -> the model a benchmark forces onto it
    plan,       \* node -> [model, reason]
    fresh,      \* nothing has changed since the plan was computed
    putting,    \* a spec that was validated, or None
    deleting,   \* a model whose users were checked, or None
    mmb,        \* the benchmark: [active, cancelled, parallel, queue, models]
    bench,      \* node -> its benchmark, or None
    events      \* how many requests and crashes there were

nodeVars == <<up, drained, asked, current>>
specVars == <<spec, putting, deleting>>
mmbVars == <<mmb, bench, override>>
planVars == <<plan, fresh>>
placementVars == <<catalog, nodeVars, specVars, mmbVars, planVars, events>>

NoSpec == [policy |-> [m \in Models |-> None], default |-> None]
NoRun == [active |-> FALSE, cancelled |-> FALSE, parallel |-> FALSE, queue |-> {},
          models |-> [n \in Nodes |-> {}]]

Ready == {m \in Models : catalog[m] = "ready"}
Known == {m \in Models : catalog[m] # "absent"}

\* The plan makes the controller tell the node what to serve.
Assigning(a) == a.reason \in {"pin", "replicas", "percent", "default", "benchmark"}

AssignedBy(p) == [n \in Nodes |-> IF Assigning(p[n]) THEN p[n].model ELSE None]

\* planInputs
Inputs == [up |-> up, drained |-> drained, current |-> current, ready |-> Ready, assigned |-> AssignedBy(plan)]

\* The plan with the reason of the nodes under test.
PlanFor(s, over, in) ==
    LET marked(p) == [n \in Nodes |-> IF over[n] # None /\ p[n].model = over[n]
                                      THEN [p[n] EXCEPT !.reason = "benchmark"] ELSE p[n]]
    IN  Once({marked(p) : p \in {Plan(s, over, in)}})

\* Replan, with what has just changed.
Replan(s, over, in) ==
    /\ \E o \in {over}, i \in {in} : plan' = PlanFor(s, o, i)
    /\ fresh' = TRUE

\* A request of an administrator, or a crash.
Event == events < MaxEvents /\ events' = events + 1

\* The state of the nodes and of the benchmark.
BenchTypeOK ==
    /\ drained \subseteq Nodes /\ asked \subseteq Nodes
    /\ override \in [Nodes -> Models \cup {None}]
    /\ bench \in [Nodes -> BenchStates \cup {None}]
    /\ mmb \in [active : BOOLEAN, cancelled : BOOLEAN, parallel : BOOLEAN, queue : SUBSET Nodes,
                models : [Nodes -> SUBSET Models]]

PlacementInit ==
    /\ catalog = [m \in Models |-> IF m \in Changing THEN "absent" ELSE "ready"]
    /\ up = Nodes /\ drained = {} /\ asked = {}
    /\ current = [n \in Nodes |-> None]
    /\ spec = NoSpec
    /\ override = [n \in Nodes |-> None]
    /\ plan = [n \in Nodes |-> Unassigned] /\ fresh = TRUE
    /\ putting = None /\ deleting = None
    /\ mmb = NoRun /\ bench = [n \in Nodes |-> None]
    /\ events = 0

-----------------------------------------------------------------------------
(* The catalog and the nodes *)

\* A model is added; its download ends. Both call OnChange, which is Replan.
CatalogChanges(m) ==
    /\ \/ catalog[m] = "absent" /\ catalog' = [catalog EXCEPT ![m] = "known"]
       \/ catalog[m] = "known" /\ catalog' = [catalog EXCEPT ![m] = "ready"]
    /\ Replan(spec, override, [Inputs EXCEPT !.ready = {x \in Models : catalog'[x] = "ready"}])
    /\ UNCHANGED <<nodeVars, specVars, mmbVars, events>>

\* What a heartbeat is answered: nothing, unless the model is still ready.
Desired(n) == IF Assigning(plan[n]) /\ plan[n].model \in Ready THEN plan[n].model ELSE None

\* The node has started to switch to what it was told, or lost what it had.
NodeReports(n) ==
    /\ n \in up
    /\ \/ Desired(n) # None /\ current' = [current EXCEPT ![n] = Desired(n)]
       \/ n \in Attended /\ current' = [current EXCEPT ![n] = None]
    /\ current' # current
    /\ fresh' = FALSE
    /\ UNCHANGED <<catalog, up, drained, asked, specVars, mmbVars, plan, events>>

\* The sweep; a registration calls Replan.
NodeLeaves(n) ==
    /\ n \in Attended \cap up
    /\ up' = up \ {n} /\ fresh' = FALSE
    /\ UNCHANGED <<catalog, drained, asked, current, specVars, mmbVars, plan, events>>

NodeReturns(n) ==
    /\ n \in Nodes \ up
    /\ up' = up \cup {n}
    /\ Replan(spec, override, [Inputs EXCEPT !.up = up'])
    /\ UNCHANGED <<catalog, drained, asked, current, specVars, mmbVars, events>>

\* The controller replans periodically.
ReplanTick ==
    /\ Replan(spec, override, Inputs)
    /\ UNCHANGED <<catalog, nodeVars, specVars, mmbVars, events>>

-----------------------------------------------------------------------------
(* What administrators do *)

Drain(n, drain) ==
    /\ Event
    /\ drained' = IF drain THEN drained \cup {n} ELSE drained \ {n}
    /\ asked' = IF drain THEN asked \cup {n} ELSE asked \ {n}
    /\ Replan(spec, override, [Inputs EXCEPT !.drained = drained'])
    /\ UNCHANGED <<catalog, up, current, specVars, mmbVars>>

\* PUT /admin/placement: an invalid spec is refused.
ValidatePlacement(s) ==
    /\ Event
    /\ putting = None
    /\ Validate(s, Nodes, Known)
    /\ putting' = s
    /\ UNCHANGED <<catalog, nodeVars, spec, deleting, mmbVars, planVars>>

\* The spec is stored, or the old one stays in use.
SetPlacement ==
    /\ putting # None
    /\ putting' = None
    /\ \/ spec' = putting /\ Replan(putting, override, Inputs)
       \/ UNCHANGED <<spec, planVars>>
    /\ UNCHANGED <<catalog, nodeVars, deleting, mmbVars, events>>

\* PATCH /admin/models/{id} with default: it is in use whether or not it could
\* be stored.
SetDefault(m, on) ==
    /\ Event
    /\ m \in Known
    /\ on \/ spec.default = m
    /\ spec' = [spec EXCEPT !.default = IF on THEN m ELSE None]
    /\ Replan(spec', override, Inputs)
    /\ UNCHANGED <<catalog, nodeVars, putting, deleting, mmbVars>>

\* DELETE /admin/models/{id}: refused while the placement uses the model.
CheckUsers(m) ==
    /\ Event
    /\ deleting = None
    /\ m \in Known \cap Changing /\ spec.policy[m] = None /\ spec.default # m
    /\ deleting' = m
    /\ UNCHANGED <<catalog, nodeVars, spec, putting, mmbVars, planVars>>

RemoveModel ==
    /\ deleting # None
    /\ catalog' = [catalog EXCEPT ![deleting] = "absent"]
    /\ deleting' = None
    /\ Replan(spec, override, [Inputs EXCEPT !.ready = Ready \ {deleting}])
    /\ UNCHANGED <<nodeVars, spec, putting, mmbVars, events>>

-----------------------------------------------------------------------------
(* The benchmark *)

\* The ready models that fit the node's class and budget; a run keeps those
\* it was started with.
ModelsFor(n) ==
    {m \in Ready : FitsRAM(m, ClassRAM[ClassOf[n]]) /\ (Budget[n] > 0 => Resident[m] <= Budget[n])}

MMBStart(nodes, parallel) ==
    /\ Event
    /\ ~mmb.active
    /\ \E n \in nodes : ModelsFor(n) # {}
    /\ mmb' = [active |-> TRUE, cancelled |-> FALSE, parallel |-> parallel, queue |-> nodes,
               models |-> [n \in Nodes |-> IF n \in nodes THEN ModelsFor(n) ELSE {}]]
    /\ UNCHANGED <<catalog, nodeVars, specVars, bench, override, planVars>>

MMBCancel ==
    /\ Event
    /\ mmb.active /\ ~mmb.cancelled
    /\ mmb' = [mmb EXCEPT !.cancelled = TRUE]
    /\ UNCHANGED <<catalog, nodeVars, specVars, bench, override, planVars>>

\* benchNode: the next node is drained.
BenchDrain(n) ==
    /\ n \in mmb.queue
    /\ mmb.parallel \/ \A o \in Nodes : bench[o] = None
    /\ mmb' = [mmb EXCEPT !.queue = @ \ {n}, !.models[n] = {}]
    /\ bench' = [bench EXCEPT ![n] = [pc |-> "next", todo |-> mmb.models[n], was |-> n \in drained]]
    /\ drained' = drained \cup {n} /\ fresh' = (fresh /\ drained' = drained)
    /\ UNCHANGED <<catalog, up, asked, current, specVars, override, plan, events>>

\* benchModel: the smallest model that is left.
BenchLoad(n) ==
    /\ bench[n] # None /\ bench[n].pc = "next" /\ ~mmb.cancelled
    /\ \E m \in bench[n].todo :
          /\ \A o \in bench[n].todo : Resident[m] + Sparse[m] <= Resident[o] + Sparse[o]
          /\ override' = [override EXCEPT ![n] = m]
          /\ bench' = [bench EXCEPT ![n].pc = "wait", ![n].todo = @ \ {m}]
    /\ Replan(spec, override', Inputs)
    /\ UNCHANGED <<catalog, nodeVars, specVars, mmb, events>>

\* waitServing and the probes. Both may fail, end at their deadline, or find
\* the run cancelled; then the next model is tried.
BenchProbes(n) ==
    /\ bench[n] # None /\ bench[n].pc = "wait" /\ current[n] = override[n]
    /\ bench' = [bench EXCEPT ![n].pc = "probe"]
    /\ UNCHANGED <<catalog, nodeVars, specVars, mmb, override, planVars, events>>

\* Mutant: the wait for the model has no deadline.
BenchEndsServedModel(n) ==
    /\ bench[n] # None /\ bench[n].pc = "probe"
    /\ bench' = [bench EXCEPT ![n].pc = "next"]
    /\ UNCHANGED <<catalog, nodeVars, specVars, mmb, override, planVars, events>>

BenchEndsModel(n) ==
    /\ bench[n] # None /\ bench[n].pc \in {"wait", "probe"}
    /\ bench' = [bench EXCEPT ![n].pc = "next"]
    /\ UNCHANGED <<catalog, nodeVars, specVars, mmb, override, planVars, events>>

\* Mutant: a cancelled benchmark stops where it is.
BenchRestoreUnlessCancelled(n) ==
    /\ bench[n] # None /\ bench[n].pc = "next"
    /\ mmb.cancelled \/ bench[n].todo = {}
    /\ bench' = [bench EXCEPT ![n] = None]
    /\ IF mmb.cancelled THEN UNCHANGED <<override, drained, planVars>>
       ELSE /\ override' = [override EXCEPT ![n] = None]
            /\ drained' = IF bench[n].was THEN drained ELSE drained \ {n}
            /\ Replan(spec, override', [Inputs EXCEPT !.drained = drained'])
    /\ UNCHANGED <<catalog, up, asked, current, specVars, mmb, events>>

\* The node gets its placement back, and takes requests if it did before:
\* the plan is computed twice, without the override and without the drain.
BenchRestore(n) ==
    /\ bench[n] # None /\ bench[n].pc = "next"
    /\ mmb.cancelled \/ bench[n].todo = {}
    /\ bench' = [bench EXCEPT ![n] = None]
    /\ override' = [override EXCEPT ![n] = None]
    /\ drained' = IF bench[n].was THEN drained ELSE drained \ {n}
    /\ IF bench[n].was THEN Replan(spec, override', Inputs)
       ELSE Replan(spec, override', [Inputs EXCEPT !.drained = drained',
                                       !.assigned = AssignedBy(PlanFor(spec, override', Inputs))])
    /\ UNCHANGED <<catalog, up, asked, current, specVars, mmb, events>>

MMBEnds ==
    /\ mmb.active /\ mmb.queue = {} /\ \A n \in Nodes : bench[n] = None
    /\ mmb' = NoRun
    /\ UNCHANGED <<catalog, nodeVars, specVars, bench, override, planVars, events>>

\* The controller dies and starts again: overrides, drains and the run are gone.
Crash ==
    /\ Event
    /\ drained' = {} /\ asked' = {}
    /\ override' = [n \in Nodes |-> None]
    /\ mmb' = NoRun /\ bench' = [n \in Nodes |-> None]
    /\ putting' = None /\ deleting' = None
    /\ Replan(spec, override',
              [Inputs EXCEPT !.drained = {}, !.assigned = [n \in Nodes |-> None]])
    /\ UNCHANGED <<catalog, up, current, spec>>

-----------------------------------------------------------------------------

Bench(n) == BenchDrain(n) \/ BenchLoad(n) \/ BenchProbes(n) \/ BenchEndsModel(n) \/ BenchRestore(n)

PlacementNext ==
    \/ \E m \in Changing : CatalogChanges(m) \/ CheckUsers(m)
    \/ \E n \in Nodes :
          \/ NodeReports(n) \/ NodeLeaves(n) \/ NodeReturns(n) \/ Bench(n)
    \/ \E n \in Attended, drain \in BOOLEAN : Drain(n, drain)
    \/ \E s \in Specs : ValidatePlacement(s)
    \/ \E m \in Models \ Changing, on \in BOOLEAN : SetDefault(m, on)
    \/ SetPlacement \/ RemoveModel \/ ReplanTick
    \/ \E nodes \in Benchmarks, parallel \in BOOLEAN : MMBStart(nodes, parallel)
    \/ MMBCancel \/ MMBEnds
    \/ Crash

\* Loading and probing end at their deadlines.
PlacementSpec ==
    /\ PlacementInit /\ [][PlacementNext]_placementVars
    /\ \A n \in Nodes : WF_placementVars(Bench(n))
    /\ WF_placementVars(MMBEnds)

-----------------------------------------------------------------------------
(* Properties *)

\* Plans do not flap: while nothing else changes, nodes that begin to switch
\* to what they were given, in any order and some of them only, do not make
\* the next plan give any node another model (preferFor, planInputs).
PlansDoNotFlap ==
    fresh =>
        \A following \in SUBSET {n \in up : Assigning(plan[n]) /\ current[n] # plan[n].model} :
            \A in \in {[Inputs EXCEPT !.current =
                           [n \in Nodes |-> IF n \in following THEN plan[n].model ELSE current[n]]]} :
                LET next == PlanFor(spec, override, in)
                IN  \A n \in up : next[n].model = plan[n].model

\* The default model also has a share of the nodes, as Validate allows.
SharesDefault(s) ==
    s.default # None /\ s.policy[s.default] # None /\ s.policy[s.default].mode # "pin"

\* Plans do not flap, unless the default model has a share of its own: then a
\* node that got it by default and serves it first is taken for the share, and
\* the node that was planned for it is free again (preferFor, planInputs).
PlanIsStable == ~SharesDefault(spec) => PlansDoNotFlap

\* When no benchmark runs, no model is forced onto a node, and a node is
\* drained only if an administrator asked for it last: neither cancelling nor
\* failing leaves a phone out of service (benchNode, execute).
NodesAreGivenBack ==
    ~mmb.active => \A n \in Nodes : override[n] = None /\ (n \in drained => n \in asked)

\* Every benchmark ends, whatever the phones do (waitServing, execute).
BenchmarksEnd == mmb.active ~> ~mmb.active
=============================================================================
