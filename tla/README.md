# Phoneborg in TLA+

Phoneborg turns Android phones into one OpenAI-compatible inference service: an
agent on every phone runs a llama.cpp server, and a controller keeps track of
the phones, routes requests to them, decides which model each of them runs,
can split one model across several of them (Big Brain), and executes long
"Super Borg" jobs. This directory is a specification of that program: TLA+ modules
translated from the Go source, TLC configurations that check them on small
instances, and proofs, checked by TLAPS, that the invariants which those runs
check, and the refinements, hold for every value of the constants.

The modules are written from the code. Where a document or a comment says
something else than the code does, the model follows the code, and the
difference is listed under "Observations".

    tlc -workers 2 -config Registry.cfg Registry      # one run
    tlapm MembershipProofs.tla                        # one proof module

`PROJECT.json` maps every definition to the lines it models, and lists the
runs, the mutants that show that each property can fail, the hazards the
properties are for and the theorems.


## 1. Inventory

### The parts, their state and their operations

| part | source | state | operations that change it |
|---|---|---|---|
| membership registry | `controller/registry.go` | nodes by id: state, benchmark, last heartbeat, last seen; drain flags; aliases | Register, ReportBenchmark, Heartbeat, Sweep, Forget, SetDrained, SetAlias, SetAliases |
| controller server and main loop | `controller/server.go`, `controller/cmd/controller` | wiring, a one-second ticker | agent handlers; Sweep and Reap every second |
| pools, aliases, routing file | `controller/pools.go`, `controller/perf.go`, `controller/router.go` | pools and the router's settings in memory and in one file | admin handlers: check, change memory, save |
| node agent session | `node-agent/agent.go` | where the session is, consecutive failures | register, measure, report, heartbeat, back off |
| node model manager | `node-agent/manager.go`, `runtime.go`, `download.go` | the running server, the desired model, backoff, RPC mode, model files | SetDesired, reconcile, load, fallback, enterRPC, leaveRPC; download and eviction |
| gateway request path | `controller/gateway/proxy.go`, `targets.go`, `picker.go` | in-flight counts, cooldowns, attempts, affinity | serveTarget, forward, Reap |
| Super Borg jobs | `controller/gateway/jobs.go`, `controller/jobs_admin.go` | jobs in memory, one file each, the runner | Create, Say, Cancel, Delete, the runner's steps and tools, LoadJobs |
| Super Borg chat, semantic router | `controller/gateway/superborg.go`, `router.go` | per request only, and counters | orchestration rounds, delegation, classification |
| API keys, admin tokens | `controller/gateway/auth.go`, `controller/admin_tokens.go` | entries in memory and in one file each; whether keys are enforced | create, revoke, reload, enforce |
| model catalog | `controller/models/catalog.go`, `download.go` | entries and their file, model files, partial files, downloads | add, update, remove, a download's steps, restart |
| planner, placement | `controller/models/planner.go`, `internal/memplan`, `controller/placement.go` | the operator's spec, benchmark overrides, the plan | set, delete, drain, replan; desired |
| Big Brain | `controller/bigbrain.go` | heads (llama-server processes on the controller) by pool | reconcile, start, poll, selfTest, stop |
| external nodes | `controller/external.go` | configurations, state, models and measured speeds, one file | put, remove, drain, poll, selfTest |
| MMB benchmark | `controller/mmb.go` | one active run, drains and overrides of its nodes, stored results | start, cancel, drain, load, measure, restore |
| firmware | `controller/firmware.go` | a cache of what vendors publish | read |
| devices | `controller/devices.go`, `provisioner/report.go` | what provisioners report, pending commands, the auto_provision setting | report, requestProvision, setAutoProvision |
| usage accounting | `controller/usage.go` | events and sums, one file | record |
| provisioner (pcprov) | `provisioner/*` | a lock file; records of phones, commands, acknowledgements; adb links | watch, provision, heal, report, slim |
| pbctl, web panel | `controller/cmd/pbctl`, `controller/ui` | none of the system's | - |

### How they interact

Agents call the controller (register, benchmark report, heartbeat); nothing is
pushed to them. The answer to a heartbeat carries the model the node should
run, which the agent hands to its manager through a channel of length one. The
gateway reads the ready nodes from the registry on every attempt, through
`Server.Backends`, and calls nodes directly. The controller's main loop calls
`Registry.Sweep` and `Gateway.Reap` once a second. Admin handlers change a
component under its mutex and then save a file, under the same mutex or another
one. The runner of the jobs calls models through the gateway. Changes of the
catalog, the placement, drains and registrations compute a new plan; a heartbeat's
answer is read from it, unless a Big Brain pool or a benchmark wants the phone.
The Big Brain supervisor starts head processes on the controller for pools whose
phones report that they lend their memory. pcprov, on the host the phones are
plugged into, reports to the controller and finds settings and commands in the
answer.

### What is hard here

* No call holds a lock across a network call, so everything read before one is
  old after it: the candidates of a request, the ready nodes of Reap, the
  status of a job during a step, the aliases between a change and its save.
* Agents and the controller fail separately and without telling each other.
  Calls time out after they were handled, or before; a restarted controller
  knows no node; a restarted agent comes back under its old id.
* A client must never hear two nodes, while failover, timers, the reaper and
  the client itself all end attempts.
* One job runner shares its jobs with users who cancel, delete and write to
  them, with workers in parallel, and with a disk that keeps the last save.
* A node switches models by stopping the one server it has; downloads, loads
  and memory may fail at every stage, and a crash leaves files and processes.
* Every store has a copy in memory and one in a file, and its own order of
  changing the two; a write may fail or be cut off.
* Supervisors (Big Brain, benchmark, download, poll and watch loops) act on what
  they read a step ago, while administrators change it.

### What makes each part correct

* registry: only measured nodes serve; SUSPECT and OFFLINE are never stale; a
  silent node is taken out; a name addresses one node; the file is current.
* session: neither side waits for the other for ever; a session never outlives
  what the controller knows of it.
* gateway: counts are exact on every path, caps are kept, no failover after the
  first byte, every request ends and is accounted for once.
* jobs: a running job is run, a queued one is eventually run, a crash costs at
  most the step under way, cancellation and deletion are not undone.
* manager: one server at a time; a failed switch leaves the previous model
  running; what the node reports is what it runs; it converges to what
  the controller wants.
* Big Brain: a pool's requests reach its own head, a phone is lent to one head,
  heads of removed pools end, dead heads are not offered for ever.
* catalog: a ready model has the whole file of its own source; downloads end.
* placement: plans do not flap; a benchmark ends and gives every phone back.
* stores: a change happens in memory and file at once or not at all, revocations
  last, refused creations leave nothing behind.
* external nodes: routed by speeds of their own server; they come back.
* provisioning: no request of an administrator is lost, and links are restored.


## 2. Plan

Order of work; all of it is done.

1. `Registry`: membership and aliases.
2. `Membership` (extends `Registry`): the agents' sessions against the registry
   over faults; `MembershipProofs` is about both.
3. `Gateway`, `MCGateway`, `GatewayProofs`: the request path.
4. `Jobs`, `JobsProofs`: the job store and its runner.
5. `Manager`, `MCManager`, `ManagerProofs`: the node's model manager, its
   download and its supervised server process, with agent crashes.
6. `BigBrain`, `MCBigBrain`, `BigBrainProofs`: the pools, the supervisor and its heads.
7. `Catalog`, `MCCatalog`, `CatalogProofs`: the catalog, its downloads and its files.
8. `Planner`, and `Placement` (extends it), `MCPlacement`: the plan as operators,
   what changes it, and the benchmark.
9. `Stores`, and `DurableStore`, the abstract store that it implements;
   `External` (extends `Stores`), `MCExternal`: the store of external nodes with
   their polls and self-tests.
10. `Provisioning`: pcprov, adb, and the controller's devices.
11. `StoresProofs` (of 9) and `OperationsProofs` (of 8, the planner's recursion
    included, and of 10).

`Registry` is written so that `Membership` can extend it and reuse its
invariant: each step of `Membership` is a step of `Registry` or leaves it alone
(`StepsRefineRegistry`), and so `Membership` implements `Registry`
(`MembershipImplementsRegistry`).


## 3. The modules

### Registry

`state` holds what `Registry.nodes` holds ("ABSENT" is a missing entry), `bench`
and `ready` are the parts of a node that other code acts on, and `age` is the
time since `LastSeen`, in ticks, saturating at `OfflineAfter`: Sweep compares it
with nothing larger, so nothing is lost. `drained` and `alias` survive
re-registration and Forget, as in the code.

Every operation is one action, because every operation is one critical section.
The exception is an alias change: `adminSetAlias` calls `SetAlias` under the
registry's mutex and then `saveRouting` under the server's, so `SetAlias` and
`SaveRouting` are two actions with a counter, `unsaved`, of the handlers between
them. `SaveRouting` may fail, in which case memory and file differ and the
handler answers with an error. `SaveOtherChange` is a pool or router change,
which writes the same file. `Restart` is a new process that loads the file.

A name is resolved in two ways: `Resolutions` is `Lookup`, and `Members` is how
a pool finds the nodes it lists, by id or by alias. They differ for an id that
was another node's alias when its node registered, which nothing prevents; the
history variable `shadowed` has these ids.

### Membership

The agents' side: `pc` is the place in `Agent.session`, `call` the one call in
flight. `Handle` is the controller's handler and uses the registry's actions.
`FailCall` is a timeout or a broken connection, before or after the call was
handled. A call that was given up on may still be handled later (`HandleLate`)
if its kind is in `LateCalls`. Crashes, controller restarts and Forgets are
faults, bounded by `MaxFaults`.

### Gateway

One handler per request. `pc` follows `serveTarget` and `forward`: "choose" is
the head of the attempt loop, "picked" the point after the picker's choice and
before `addInflight`, "waiting" and "copying" are inside `forward`, before and
after the response header, and "retry", "small" and "abort" are the three errors
it returns. A request's target is the set of nodes its filter accepts, so
`Inputs` ranges over node targets, pools and "auto", over prompt sizes and over
the use of tools. The choice among the candidates is left open, which covers
every policy and affinity.

Reap is two actions, as it reads the ready nodes before it takes the mutex.
Timers and cooldowns may fire at any time while armed. Three history variables
record what a client received and which usage events were written. A fourth,
`hurried`, has the requests that chose their node while another request had
chosen it and was not counted yet: the count that they saw was too low.

### Jobs

`present`, `status` and `work` are the jobs in memory, `disk` the files. The
runner is one process whose `pc` follows `Jobs.Run`, `run` and `step`; each
action is what it does while it holds `Jobs.mu` once. While a model is asked
(between "call" and what follows it) and while workers write, users' operations
interleave. The model's choice of a tool is open. A deleted job stays reachable
for the runner that executes it, which is why `status` and `work` are kept for
jobs that are not present.

`Store` is the write of a job file; with `DiskMayFail` it may fail, which the
code logs and ignores. `stale` records for which jobs the last write failed, so
that the properties can say what is promised when it did not. `Interrupted`
says that a job's run was cancelled and its step is still under way; such a step
may set the status once more, which the properties about cancelled and queued
jobs except.

### Manager

One phone. `Manager.Run` is a process whose `pc` follows `reconcile` and what it
calls: "leave" to "entering" are `leaveRPC` and `enterRPC`, "fetch" to "size" the
way to a model that is on disk and fits, "stopping", "load" and "unload" are
inside `load` and before `fallback`, and "fail" is the call of `fail`. Where the
code waits for a server to end (`<-done`), the action waits for `Stopped`.
`runtime` stands for the fields that are always set together (`runtime`,
`cancel`, `done`, `current`, `rpc`): what it serves, `RPC` or `Nothing`. `desired`
is the channel of length one. `prev` is a local variable of `load` and
`leaveRPC`.

`servers` are the `Runtime.Run` goroutines that have not returned, each with the
phase of its process. `Spawn`, `Exit` and `Ended` are the loop of `Run`;
`killStale` runs before the first start only, as in the code. `Crash` kills the
agent at any point: the channel, the fields and the goroutines are gone, the
files stay, and a server process that was running stays as `orphan`, which
answers `/health` on the same port until the next `Runtime.Run` kills it.

`files` and `part` are the models directory. A version stands for a SHA-256
together with the requested settings. A .part file holds nothing, a prefix of
some version, or every byte ("full"); a complete one is not told apart by its
content, since the code only asks the server for what lies behind its end. If
the wanted file is longer than that, the server answers with the rest, and the
hash is wrong again; both ways the download fails and the file stays complete.

Whether storage, memory and the network suffice is open: `MakeRoom` deletes any
set of the files that `evictLRU` may delete and may fail, `Fits` and
`DoesNotFit` are both possible, a download breaks off at any point, a load may
time out at any time. The backoff ends at any time, which covers the doubling
and the earlier retry after the budget has grown.

`Status` has two steps, as in the code: `CopyStatus` copies the fields under the
mutex, and `Probe` asks `/health` without it, while Run goes on. In between,
`report` has the model that will be reported; the history bit `overtaken` says
that a server of another model was started since. `Offers` is how the controller
reads the result: `Server.Backends` refuses a node that reports a switch, and an
error hides the switch. A status that cannot make the phone a backend has no
effect and is not followed.

### BigBrain

`pools` are the enabled Big Brain pools (a disabled one is absent), `head` the
`head` structs of the supervisor and `proc` the llama-server process that belongs
to each. The tick is not atomic: it reads the pools (`wanted`), reconciles one
pool after the other, and where `stop` waits for a process to end the tick waits
(`pc`, `after`). Administrators change pools, the catalog and phones between any
two of these steps. `Valid` and `Conflict` are the checks of a pool that is written:
phones are compared after their names, ids or aliases, have been resolved.

Only the phones in `Restless` have a state of their own: their reports lag, fail
and are withdrawn. The others do at once what the controller asks, which only
removes interleavings that a restless phone still has. Whether the phones' memory
suffices is open. Left out: the self-test of a head, which only measures, the
tensor split, and `stopAll` at the end of the controller.

### Catalog

`entry` are the catalog's entries and `saved` the ones in the state file; `file`
and `part` are what is on disk. A partial file has an inode, because a download
keeps its file open while `Remove` unlinks it by name and a later download makes
a new one with the same name. Content is abstracted to the sources its bytes come
from and to whether they are all there, which is what tells a sound model from a
mixture. A source in `Local` is a file on the controller's own disk, which is read
on from where the partial file ends. Each download is a process whose steps are
`fetch`'s and `run`'s.

`Remove` has two steps: it gives up the lock before it deletes the files. `Add`
may come at any time, as in the code, also while something of the removal is
under way, and crashes and failing saves are not bounded. The history variable
`mixed` has the models for which that went wrong or may have: those added again
when it was not `Quiet`, that is while the removal had yet to delete the files, or
a cancelled download was to open the partial file for a local source (it
writes some bytes before it looks at its context) or was being checked; and those
whose entry the state file did not have, because a save had failed. A model leaves
the set when it is added anew or with another source and all is quiet. `Inodes` is
no bound: `FreshInodeExists` proves that there is always one left.

### Planner and Placement

`Planner` has no state: `Plan` is `models.Plan`, pins, replicas, percentages and
default in the code's order, with the ties that the code breaks by sorting.
`IdOrder` is the order of the models' ids, by which the last ties are broken.
Among the policies of one mode larger models choose first: `Turn` is a model's
place in that order, `ClaimsAt` adds what the policy whose turn it is takes of the
nodes that nobody has, and `Claims` is the recursion over the turns.
Memory is counted in small units; the halving of contexts, the two KV types, the
Android baseline and the speed prediction are kept, because they decide who gets
what. A policy's own speed limit is left out.

`Placement` extends it with all that changes the plan's inputs:
`ValidatePlacement` and `SetPlacement` are the two halves of `PUT
/admin/placement`, and deleting a model has two halves as well (`CheckUsers`,
`RemoveModel`), since each checks before it takes the lock. `Replan` is part of
every action whose code calls it. The benchmark is one run with a process for each
node (`bench`): drain, override, wait, probe, restore. `Crash` is a new
controller, which forgets overrides and drains. Members of Big Brain pools, which
the code removes from the planner's inputs, are not in this module.

### Stores, DurableStore and External

The keys, the admin tokens, the external nodes and the device settings are each a
map with a mutex and a file written by temporary file, sync and rename. One module
models all four; `kind` is chosen in the initial state and selects the order in
which memory and file change and what is left of a failed write. `WriteTemp`,
`Rename`, `Done` and `Fail` are the steps of a write, and a crash may come between
any two. `Reload` (SIGHUP) reads the file without the mutex, so it is two actions.
Crashes are crashes of the process; the loss of power is not modelled.

`DurableStore` is what such a store promises: a change is one step on both
copies, a failed one is none. `Stores` implements it under the mapping that
takes `mem` to `Effective`, what readers will find once the change under way
has been decided, and `lenient` to `Lenient`: external nodes and settings keep a
change in use that could not be stored, keys and tokens do not.

`External` extends `Stores` with the nodes behind the configurations: polls by the
loop and by administrators, and self-tests, which take the configuration under
the mutex and call the server without it. An entry's id stands for the node
object, so a result that belongs to a replaced node can be told apart, as the
code does by comparing pointers. A speed is the server it was measured at. The
operator's own speed, which hides the measured one, is left out.

### Provisioning

pcprov as one process that lists the phones, visits each (skip, heal, or provision
step by step), and reports. adb and the phone are external: `phone` and `forward`
are the links, which a phone loses when it is unplugged or re-enumerates, between
any two adb calls. The controller's side (`setting`, `wanted`) is `devices.go`.
A report is sent, handled and answered in separate steps; it may fail before or
after it was handled. Backoff is whether it is over.

`served` says of each phone whether the last request for it was executed or
refused. Two history variables have the requests for which the code does not see
to that: `forgotten`, which a restarted controller no longer has in its queue, and
`crossed`, which were made while pcprov had yet to send, or to send again, the
acknowledgement of an earlier request for the same phone.


## 4. The runs

| run | instance | checks |
|---|---|---|
| `Registry` | 2 nodes, one of whose ids is also an alias, 2 overlapping alias handlers | ActiveIsBenchmarked, LatenessIsReal, NamesAreUnambiguous, FileIsCurrent, SilentGoesOffline |
| `Membership` | 1 node, 4 faults, late benchmark reports and heartbeats | HeartbeatsAreMeasured, Recovers, DeadGoesOffline |
| `GatewayFailover` | 1 request of every kind, 3 nodes with small, large and unknown context, 2 attempts | EveryRequestIsAccounted, LostNodesAreReleased, RequestsEnd |
| `GatewayShared` | 2 requests, 2 nodes with cap 1 | InflightIsExact, OneVoice, CapIsKept |
| `JobsStore` | 1 job, 2 documents, 1 crash, a disk that fails | IdleJobsAreStored, DeletedStaysDeleted |
| `JobsQueue` | 2 jobs, a message each, 1 crash | RunningIsRun, CancelLasts, QueuedJobsRun |
| `Manager` | 2 models, a wish to serve one, 2 Big Brain pools, 3 configurations, 1 crash | OneServer, ViewIsTrue, KeepsServing, ReportIsTrue, Converges |
| `BigBrain` | 2 pools, 3 phones of which one is restless, an alias, 1 model | OwnHeadAnswers, OneBrainPerPhone, RemovedHeadsEnd, DeadHeadsAreNotOffered |
| `Catalog` | 1 model, a remote and a local source, 2 downloads of 2 attempts | ReadyIsWhole, DownloadsEnd |
| `Placement` | 2 models, 2 nodes, 3 placements, 3 requests or crashes, a benchmark of both nodes | PlanIsStable, NodesAreGivenBack, BenchmarksEnd |
| `Stores` | the four kinds of store, 2 names, 3 ids, 1 external node on two servers | RevokedStaysRevoked, ErrorsChangeNothing, SpeedsAreOfTheServer, ImplementsDurableStore, AnsweringNodesReturn |
| `Provisioning` | 1 phone, 2 ports, 3 faults, 2 requests | RequestsAreNotLost, LinksAreHealed |

What each shows is in the `about` of the run in `PROJECT.json`, and above each
property in its module. The modules also state type invariants; the proofs use them,
and no run spends its time on them.

### Bounds, and why they are enough

* `Registry`: every property is about one node or a pair of nodes, hence two.
  `SuspectAfter` = 1 and `OfflineAfter` = 2 give the three ages the sweep tells
  apart. One alias is enough for two nodes to want it, and it is the id of the
  second node, so the clash of aliases with ids occurs, in both orders. Two unsaved handlers are
  what it takes for one save to overtake another.
* `Membership`: sessions of different nodes share nothing but the controller,
  whose restarts are in the model; one node is enough. A session gives up after
  three failed heartbeats, so four faults reach the end of a session followed by
  one more fault. The ticks saturate, so the ages are complete.
* `Gateway`: two attempts and three nodes let failover run out of attempts while
  a node is left; two requests on two nodes with room for one each are what it
  takes to share a count and to exceed a cap.
  The number of cluster changes, timeouts and reaps is not bounded.
* `Jobs`: two documents let two workers run in parallel while a third write is
  planned; two steps let a second step overwrite or lose what the first did; one
  crash may happen anywhere, and a second one starts from a state that the first
  may leave as well. Two jobs and one message each are what the wake channel, of
  length one, needs to lose a wake-up if it could.
* `Manager`: a switch concerns the model that runs and the wanted one, hence two
  models; two pools let a phone go from one to the other without leaving RPC
  mode. The three configurations are a phone that has another model than the
  wanted one, one that has the wanted model and no RPC binary, and an empty one.
  The crash may happen at every step, with a server in every phase. The number
  of wishes, failures and retries is not bounded.
* `BigBrain`: what may go wrong concerns a port or a phone that two heads want,
  hence two pools; of three phones one can be in either, and it is
  also known by an alias. Changes, deaths and ticks are not bounded.
* `Catalog`: models share nothing, so one is enough. Two downloads are the old
  and the new one of a model that was removed and added again with another
  source; two attempts let one resume what it or its predecessor left. Adds,
  removals, crashes and failing saves are not bounded. That a cancelled download
  which is being checked does harm takes a third download, so this run does not
  show that this exception is needed; an instance with three downloads does.
* `Placement`: two models of different size compete for two different
  nodes, one of which leaves and is drained. Three requests are a placement, a
  benchmark and a cancellation, or a crash between them.
* `Stores`: two names and three ids let an entry be replaced, revoked and made
  again. Id 3 has another server than ids 1 and 2, so that a node is replaced with
  and without its server. Two failed polls are a threshold above one. Writes,
  failures, crashes, reloads and polls are not bounded.
* `Provisioning`: pcprov works on one phone at a time and keeps a record of its
  own for each; two ports let the one that a phone's agent advertises differ
  from the one that is forwarded. Two requests let an acknowledgement meet a
  newer one; three faults let a phone re-enumerate while a report fails.

Deadlock is checked everywhere except in the `Jobs` runs, where the users may
have nothing left to do within the bounds and the runner sleeps.

### Fairness, and why the code justifies it

* `Registry`, `Membership`: the controller's ticker sweeps every second and time
  passes (WF of Sweep and of Tick). A running agent's loop has a ticker and
  timeouts on all calls (WF of AgentStep); a call that is not given up on is
  handled (WF of Handle). Nothing has to fail, to crash, to be restarted or to
  arrive late.
* `Gateway`: `ReaperSpec` assumes only that handlers, which are runnable
  goroutines, go on and that the reaper runs. `LostNodesAreReleased` holds under
  that alone, with nodes that freeze. `RequestsEnd` also assumes `Timers`: the
  first-token timer fires on an attempt that waits, and an answer that has begun
  either ends or is cut by the idle timer. A node that sends one byte after the
  other for ever is excluded; the code has no limit for it.
* `Jobs`: the runner's goroutine goes on (WF of Runner), and a step makes
  finitely many tool calls (SF of EndStep): they are the calls of one model
  answer, which is a finite list. Users owe nothing.
* `Manager`: the goroutines of the agent go on (WF of Run, of the probe of a
  status, which has a timeout, and of the supervisor of the server), the answer
  to a heartbeat calls SetDesired every few seconds whatever else the agent does
  in between (SF), and the backoff is a time that passes. `Converges` is an implication: under
  `Success`, that is if storage, network and memory suffice again and again and a
  server that is tried again and again answers at last. That part is an
  assumption about the phone, not about the code.
* `BigBrain`: the supervisor's ticker (WF of the tick's steps); a process whose
  context was cancelled dies, as `exec.CommandContext` kills it, and its waiting
  goroutine returns (WF of both); backoff and the settling time pass.
* `Catalog`: a download's goroutine goes on (WF of Download): every read ends, by
  success, error or cancellation. Administrators owe nothing. `DownloadsEnd` is
  an implication: a controller that crashes again and again starts every download
  again, so crashes have to stop at some time.
* `Placement`: the goroutines of the benchmark go on (WF of Bench(n) and of
  MMBEnds): its waits have deadlines.
* `Stores`: the loop of the external nodes polls every node again and again, also
  when a write holds the mutex in between (SF of the start and the end of a
  poll by the loop, whose HTTP client has a timeout), and a write that began ends.
* `Provisioning`: the loop of pcprov (WF of Watch, whose adb calls have timeouts)
  and time (WF of BackoffEnds). SF of a successful heal says that a heal which is
  tried again and again on a phone that is there succeeds at last: an assumption
  about adb.

### Mutants

Every property of a passing run has a mutant: a definition that models code,
changed the way a plausible bug would change it, under which TLC finds the
property violated. They are the definitions with a comment "Mutant:".


## 5. The proofs

All proofs are for every value of the constants that satisfies the module's
named assumption: any nodes, requests, targets, jobs, documents and limits.

**MembershipProofs** proves of `Registry` `TypeOK`, `ActiveIsBenchmarked`,
`LatenessIsReal`, `NamesAreUnambiguous` and `FileIsCurrent`. The inductive
invariant `RegistryInv` adds to them that aliases are distinct in memory as well as
in the file, where each needs the other, because a save copies the one into the
other and a restart copies it back; and that an alias which is the id of a
known node is in `shadowed` (`ShadowsAreKnown`).

It proves of `Membership` that every step of it is a step of
`Registry` or leaves that unchanged (`StepsRefineRegistry`), hence that `Membership`
implements the specification of `Registry` (`MembershipImplementsRegistry`), from
which the registry's invariant carries over, and `SessionsAreMeasured`: if registrations
that were given up on do not arrive late, a node that is known and whose agent
is in its heartbeat phase has its benchmark. The invariant needs to know what an
answer means: between the controller's "ok" to a benchmark report and the
agent's next step the benchmark is there unless the node is forgotten.

**GatewayProofs** proves `InflightIsExact`, `OneVoice`, `CapIsKept` and
`EveryRequestIsAccounted`. The first is a statement about cardinalities: a step
of one request adds it to or removes it from one set of forwarded requests
(`ForwardExact`, `LeaveExact`), and leaves all others as they are (`StayExact`).
`CapIsKept` rests on it: a request that is not `hurried` chose a node when all
that had chosen it were counted, so that the count it compared with the cap was
the number of requests there (`PickCounts`, `CapAfterPick`); all other steps only
take requests away (`CapStays`). The others rest on what the place of a handler says about its node and its
tried nodes: inside an attempt, the current node is among the tried ones, and
nothing was heard before the copy.

**JobsProofs** proves `RunningIsRun`, `CancelLasts`, `IdleJobsAreStored`
and `DeletedStaysDeleted`. `RunningIsRun` is inductive with the types alone.
`Stored` generalises the statement about files: the file of a job that the
runner does not hold is its snapshot, and of a job that it holds it is some
earlier, sound state; a job's deletion removes its file and no later save
writes it, as `SaveLocked` looks the job up again. The action property
`CancelLasts` needs that where the runner may still give its job a status, a run
that is not stopped is that of a running job (`DecidesRunning`), so a cancelled
job is decided on by nobody but a step that was interrupted; and that a
cancellation which could be written is what a restart finds (`CancelIsStored`).

**ManagerProofs** proves `ManagerTypeOK`, `OneServer`, `ViewIsTrue`,
`KeepsServing` and `ReportIsTrue`, for any models, versions, wishes,
configurations and number of crashes. `ViewIsTrue` speaks of the moments between
two reconciliations only, so the invariant says what holds inside one:
`Working` (which desired state Run has at each place), `Modes` (the flags, and
that `preRPC` and `prev` are empty where nothing has to be restored, without
which eviction could delete their files), `Supervised` (which server there is at
each place: the one of `runtime`, only one that ends, or the one being loaded),
`Reported` (a status under way that was not overtaken names the model of whatever
server there is, also of one that ends; `ReportIsTrue` follows from it)
and `Consistent` (a desired state noted as applied, also in `prev` and `preRPC`,
is about the model beside it, and that model has its file; the fallback needs
this, because it keeps `lastApplied`). Each part is preserved given the ones
before it, one lemma for each part and one step for each action.

**StoresProofs** proves of `Stores` and of `External`, whose steps are steps of
`Stores` or leave it alone, `RevokedStaysRevoked` and `ErrorsChangeNothing`, and
that both specifications implement `DurableStore` (`StoresAreDurable`), for any
names and ids and all four kinds of store. The invariant `StoreInv` says that a
change under way is one that the abstract store can make (`ChangeInv`); that ids
are never given twice (`AgesInv`), so what was revoked or failed cannot come back
as something new; and where a revoked or failed entry may not be while a write or
a Reload is between its steps: not in memory, file, the change under way, what it
would undo to, or what a Reload has read (`GoneInv`, `FailedInv`). Given the
invariant, `MapsStep` shows that every step is a step of the abstract store or
changes nothing there: the rename is the moment of a change.
`SpeedsBelong` proves `SpeedsAreOfTheServer` for any external nodes and servers.
It needs to know that a name has one configuration (`NamesInv`), and the same of
the speeds in the file, which a restart takes.

**OperationsProofs** is about two components that share no state.
`RequestsAreKept` proves `RequestsAreNotLost` for any phones, ports and faults;
`CommandsInv` says that an acknowledgement which pcprov has yet to send, or may
send again, is about a phone whose last request was served, or `crossed` with it;
so what the controller takes off its queue was served. `BenchmarksGiveBack` proves `NodesAreGivenBack` for any
nodes, models and specs; `BenchInv` ties each override and each drain to the
benchmark of that node which will undo it.

`PlansAreStable` proves `PlanIsStable` for any nodes, models and sizes and any spec
whose default model has no share of its own: if every input of a plan stays and any
of the nodes begin to serve what they were planned for, a new plan gives every node
the model it had. The argument:

* For one model, `Prefers` orders the nodes strictly and totally
  (`PrefersOrder`), so the nodes that a policy takes are the only set of their size
  that is preferred to the rest (`TopFacts`). If some of them begin to serve the
  model they move up, and the set is the same (`TopAgain`, `ClaimAgain`).
* The turns of two policies differ (`TurnsDiffer`), and later turns only add nodes
  that had nothing (`ClaimsExtend`). So if the policies before took what they took,
  the next has the same nodes to choose from (`ClaimsAtAgain`), and all take what
  they took (`ClaimsAgain`), and pins, defaults and overrides as well (`PlanAgain`).
  The induction over the turns, and the unfolding of the recursive function
  (`ClaimsAre`), look at a smallest turn for which the claim fails (`Smallest`), since
  the induction theorems of the library cannot be used.
* The invariant `PlanInv` says that a plan which is fresh is the one that the
  planner makes of what is known now and of some earlier assignments. It is
  needed because the assignments that the plan was made from are overwritten by it.

The exception for `SharesDefault` was found by this proof: `ClaimAgain` fails where
a node that did not get a model by its policy may serve it by default.

`PolicyTakesItsShare` says of every input that a policy takes as many of the nodes
left to it as it asks for, or all that are eligible, and the preferred ones;
`NodesGetOneModel` that with a valid spec no node is claimed twice, so that the choice
that `PlanOf` makes among a node's claims has one candidate.

**BigBrainProofs** proves `BigBrainTypeOK`, `OwnHeadAnswers` and
`OneBrainPerPhone` for any number of pools, phones and names. A port is given
again at once when its head is stopped, so the invariant says who can have a
process at all: the head itself, or a stopped head that the tick waits for
(`HeadInv`), and no other process has the port of a head that runs (`PortInv`).
`PortIsFree` is a pigeonhole argument: there are as many ports as pools.
`OneBrainPerPhone` follows from `Apart`, that pools which exist or were read
together share no phone, and `KeyInv`, that a head which was reconciled has the
phones its pool asked for.

**CatalogProofs** proves `CatalogTypeOK` and `ReadyIsWhole`, for any models,
sources, downloads and attempts and any number of crashes and failing saves.
`EntriesInv` always holds: an entry that is downloading and its download name each
other, and every other download was cancelled. The rest of the invariant is
about each model that is not in `mixed`: the state file has it as it is
(`StoredInv`); while it is in the catalog, its partial file has bytes of its
source only (`PartInv`); a cancelled download of it has another file open or fails
before it writes, and will not delete by name (`CancelledInv`); the current
download has the partial file open, and from the last byte on it is whole
(`CurrentInv`). `Elsewhere` says that a step which leaves a model, its files and
its downloads alone keeps all this, which is what makes one lemma for each action
enough; all steps of a download but the last are instances of `WorkModel`, what it
may do to its own state and to its file. `AddStep` shows why a model that is added
anew when all is quiet is sound again, whatever happened to it before.

Not proved and checked by TLC only:

* the liveness properties (SilentGoesOffline, Recovers, DeadGoesOffline,
  LostNodesAreReleased, RequestsEnd, QueuedJobsRun, Converges, RemovedHeadsEnd,
  DeadHeadsAreNotOffered, DownloadsEnd, BenchmarksEnd, AnsweringNodesReturn,
  LinksAreHealed), since fairness and ENABLED are out of the prover's reach.

`MembershipTypeOK` is proved in the parts that the other proofs need.


## 6. Observations

Seen while modelling, true of the code and, unless it says otherwise, of the
model. Where a comment or a document says something else, it is quoted.

Registry, session and gateway:

* A registration that the agent gave up on and that is handled after the
  session's benchmark report leaves the node BENCHMARKING, while the agent sends
  heartbeats and never reports a benchmark again. With "register" in `LateCalls`
  TLC refutes `Recovers`. It takes a handler that is delayed for longer than the
  agent's timeout and its next calls.
* `registry.go:200` says "Aliases are unique and never equal another node's id", but
  an alias is checked against the ids of registered nodes only, so it may equal
  the id of a node that registers later. `Lookup` then prefers the alias, and a
  pool that lists the name has both nodes as members (`pools.go:339`).
  `NamesAreUnambiguous` excepts exactly these names in pools (`shadowed`); without
  the exception TLC refutes it.
* `Register` keeps the last heartbeat, so after its new benchmark a node is
  routed to by what its runtime reported before (`registry.go:69`).
* `candidates` reads a node's in-flight count and `forward` raises it later, with
  the picker between them and no lock across both, so two requests that arrive
  together are both sent to a node with `MaxConcurrency` 1. `picker.go:32` says
  "MaxConcurrency caps the node's in-flight requests". `CapIsKept` does not count
  the requests that chose together with another one (`hurried`); if it did, TLC
  would refute it.
* A client that leaves in the middle of an answer puts the node on cooldown
  (`proxy.go:518`), although `proxy.go:36` speaks of nodes that failed.
* The affinity table is pruned before a pin is added, so it may hold one more
  than its limit. Not in the model.

Jobs:

* A step that is under way when a job is cancelled sets the job's status at its
  end, so a cancelled job may end as waiting, done or failed. `jobs.go:319` says
  "Cancel stops a job". `CancelLasts` excepts the step under way (`Interrupted`).
* If the user also writes to the job before that step ends, `Say` queues it, and
  the step overwrites "queued" with its own status: the job is not run again and
  the message is not read until the next one. `jobs.go:295` says that a job which
  is not running "is queued again to act on it", and `jobs.go:319` that a cancelled
  one "can be resumed with Say". `QueuedJobsRun` excepts it; without the exception
  TLC refutes it.
* A message that arrives after the last prompt of a job was made is kept, but
  the job may finish without having seen it (`jobs.go:683`).

Manager:

* If a .part file holds every byte (the agent died between the last byte and the
  rename, or the hash was wrong), the range request starts at its end,
  `http.ServeContent` answers 416, and `downloadModel` returns an error
  (`download.go:135`) without removing the file. Every retry ends the same way,
  until somebody deletes it. `docs/ARCHITECTURE.md:507` says that the agent
  "resumes it from the partial file (HTTP Range) once it has re-registered", and
  `docs/REAL_PHONES.md:277` that it resumes "if the agent restarts mid-download".
  `Converges` excepts such a file (`Resumable`); without the exception TLC refutes it.
* After a crash of the agent, the process it left behind answers `/health` until
  `killStale` runs. A load that asks in that moment takes its new server for
  healthy (`manager.go:503`). `ReportIsTrue` excludes the moment, and no later
  state depends on it.
* `Status` copies the manager's fields, unlocks, and then probes `/health` on the
  port (`manager.go:175` to `:183`), without asking which server answers. If the
  old server is stopped and the next one is healthy before the probe, the
  heartbeat offers the old model as ready on a phone that serves the new one, until
  the next heartbeat. `ReportIsTrue` excepts it (`overtaken`); without the exception
  TLC refutes it.
* If the agent dies between `cmd.Start` and the write of the pid file
  (`runtime.go:124`), no later agent kills the process. This window is not in the
  model.
* When a switch fails, the phone falls back to its model, and the controller then
  wants that model again, `reconcile` returns early and the error stays
  (`manager.go:241`). The phone serves and is routed to; `mmb.waitServing`, which
  reads the state "error" first (`mmb.go:403`), reports a failed load.
* The file of a model is replaced in place when its SHA-256 changes. If the new
  content does not load, the fallback to "the previous model" runs the same file.
* Eviction keeps the running model and the wanted one, but not the static model of
  the agent's flags: if it is evicted, the agent has nothing to run after a
  restart until the controller's wish has been downloaded.

Big Brain:

* `stop` clears a head's port at once and leaves its state "ready" until the
  process has ended (`bigbrain.go:533`), and a poll that was under way may set
  "ready" after the process exited (`:451`). Both last until the next tick.
* Pools that are wanted are reconciled before heads that are not are stopped
  (`bigbrain.go:243`), so a phone that moves from a removed pool to a new one
  may be asked by the new head while the old one still runs, until the tick is
  over. `OneBrainPerPhone` speaks of the end of a tick.
* Conflicts between pools are checked when a pool is written
  (`pools.go:431`). An alias that is set after both pools exist can put a phone in
  both. Aliases do not change in the model.
* A crash of the controller leaves its head processes running; they hold their
  ports. Crashes of the controller are not in this module.
* A self-test finds its head again by the port alone (`bigbrain.go:490`), which a
  newer head may have got meanwhile. Not in the model.

Catalog:

* `Remove` deletes the files after it has given up the lock (`catalog.go:436`), so a
  model that is added again between the two can lose its new file or partial file,
  and the next download to open it mixes sources.
* A cancelled download that reads a local file looks at its context only after it
  has written a chunk. If it has yet to open its partial file, that is the file of
  the model that was added again meanwhile.
* A download looks at its context after the last attempt and not again before it
  hashes the file and reads its metadata, and removes the file that it rejects by
  its name (`download.go:49` to `:60`). If its model was removed and added again
  meanwhile, that is the new download's file; a third one, removed too and about
  to open its file, then creates an empty one, which the new download renames.
* If the save of an Add fails, the caller gets an error and the download runs all
  the same (`catalog.go:371`). A crash then brings back the entry of the file, with
  its older source, and the next download resumes the other source's partial file.

`ReadyIsWhole` excepts the models that met one of these (`mixed`). Without the
first, second or fourth exception TLC refutes it in the run's instance, without the
third with three downloads.

Placement and benchmark:

* `preferFor` puts nodes that serve a model before those that the last plan gave it
  (`planner.go:397`). A default model may have replicas or a percentage of its
  own (`Validate` allows it), and then a node that got it by default and serves it
  first replaces the one that was planned for the policy, which another policy
  then takes. `planner.go:393` says "so plans do not flap while a node switches".
  `PlanIsStable` excepts such specs (`SharesDefault`); with `Specs <- MCDefaultSpecs`
  TLC refutes `PlansDoNotFlap`, which does not.
* A placement is validated before the lock is taken and a model's users are
  checked before it is removed (`models_admin.go:127`, `:216`), so the two can
  cross and leave a placement that names a removed model. The plan skips it.
* `adminSetPlacement` takes a change back that could not be saved; `setDefault`
  keeps it. Failing saves are in `Stores`.
* A benchmark gives a node back as it found it: a drain or undrain by an
  administrator during the benchmark is undone at its end (`mmb.go:289`).
  `NodesAreGivenBack` is stated accordingly.

Stores and external nodes:

* `Reload` reads the key file without the mutex (`auth.go:306`). A Revoke or Create
  that happens between the read and the use is undone in memory, though not in the
  file. `RevokedStaysRevoked` excludes it by `raced`. In the same way, a
  Create before the SIGHUP overwrites an edit of the file by hand.
* An external node that could not be stored, and a setting, stay in use until the
  restart, while the caller got an error.
* `put` of an unchanged server drops the flag that a self-test runs, so two can
  run at a time (`external.go:551`); the later result wins, and both are of that
  server.
* An external name is checked against the aliases and then stored under another
  lock (`external.go:741`). Not in the model.
* `Enforce` checks that a key exists and then switches (`auth.go`), so with a
  Revoke of the last key in between nobody has access.
* `admin.go:518` says of `applyGatewayUpdate` that it "validates the whole update,
  then applies it, so a bad field changes nothing", but `auth_mode` "keys" is
  enforced before the thermal limit and the router are validated
  (`admin.go:553` to `575`). Gateway settings are not in the model.
* `Flush` of the usage clears its dirty flag before it writes. Not in the model.

Provisioning:

* An acknowledgement names a phone, not a request. One that is still to be sent, or
  that is sent again because its answer was lost, takes a newer request for the
  same phone off the queue, which nobody has executed. `RequestsAreNotLost` excepts
  such a request (`crossed`).
* Pending commands are in memory only (`devices.go:102`), so a restarted controller
  has forgotten them; `RequestsAreNotLost` excepts those (`forgotten`).
* A failing `adb devices` looks like an empty list: every phone is "gone" and is
  provisioned again when it is back.
* A phone that is plugged in again before its "gone" was seen keeps
  `provisioned`, and an agent that died meanwhile is not restarted.
* pcprov starts with `autoProvision` on, before the first answer tells it the
  setting.
* Commands are sent to every host that reports. One host is in the model.
* A failed provisioning that an administrator forced doubles the backoff like
  any other.


## 7. What is not modelled

* Super Borg chat and the semantic router: sequential code within one request,
  whose course depends on what language models answer; the requests they make
  take the modelled path, and what they share is that path's counts.
* The Ollama API, a translation of formats around the same path; prewarm and
  probes, single requests without an effect on the controller's state.
* Firmware: reads vendors' pages and compares versions; nothing acts on it.
* `pbctl` and the web panel, clients without state of the system; of the
  provisioner, slimming, the choice of a llama.cpp build and the one-shot
  commands, which take no part in the watch loop.
* Node discovery: reading `/proc`, `/sys` and battery values, and the
  floating-point benchmark.
* Within the modelled parts: the resolution of names to targets, the picker's
  policies and affinity (the choice among candidates is open); gateway settings;
  sums of usage; the GGUF parser and source URLs; stored results of the benchmark;
  the primary admin token, which never changes; stores without a file; the orderly
  end of the controller (`stopAll`, `Catalog.Close`).
* Texts, events and logs; metrics; the bodies of requests and answers, of which
  the size, the use of tools and the point at which bytes reach the client are
  kept; free storage, the tensor cache of RPC mode and the self-test of a new
  server on the phone; wall-clock time, which is replaced by ticks in the registry
  and by "at any time while armed" elsewhere.
