------------------------------ MODULE Manager ------------------------------
(***************************************************************************)
(* A phone's model manager. It brings the one inference server of the      *)
(* phone in line with what the controller wants: it downloads and sizes a  *)
(* model, stops the running server and starts another one, goes back to    *)
(* the previous model when that fails, and lends the phone to a Big Brain  *)
(* pool as an RPC server. The server is kept running by a goroutine of its *)
(* own (Runtime.Run); the agent's heartbeats set the desired state and     *)
(* report the manager's status meanwhile; the agent may crash at any time  *)
(* and leaves its files and its server process behind.                     *)
(*                                                                         *)
(* A model's version stands for the file's SHA-256 and for the requested   *)
(* settings. Memory and storage are left open: a model may or may not fit, *)
(* and making room may delete any of the files that it may delete. The     *)
(* backoff after a failure ends at some later time.                        *)
(***************************************************************************)
EXTENDS Naturals

CONSTANTS
    Models,         \* model ids
    Versions,       \* versions of a model
    Wishes,         \* [rpc, model, version]: what the controller may want
    Configs,        \* [static, rpc]: the agent's -model, and whether it has an RPC binary
    Nothing,        \* no model, no server, no file, no desired state
    RPC,            \* what ggml-rpc-server serves
    Release,        \* releaseRPC, the desired state that ends RPC mode
    MaxCrashes      \* bound on crashes of the agent

ASSUME ManagerAssumption ==
    /\ RPC # Nothing /\ RPC \notin Models /\ Nothing \notin Models
    /\ {Nothing, "full"} \cap Versions = {} /\ Nothing # "full"
    /\ Wishes \subseteq [rpc : BOOLEAN, model : Models, version : Versions]
    /\ {Nothing, Release} \cap Wishes = {} /\ Nothing # Release
    /\ Configs \subseteq [static : Models \cup {Nothing}, rpc : BOOLEAN]
    /\ MaxCrashes \in Nat

VARIABLES
    config,     \* the agent's flags
    want,       \* what the controller answers to a heartbeat; Nothing: keep
    desired,    \* the content of desiredCh
    pc,         \* where Run is
    d,          \* the desired state it reconciles
    prev,       \* what ran before, in a local variable of load or leaveRPC
    runtime,    \* what Manager.runtime serves; current and rpc follow from it
    preRPC,     \* Manager.preRPC: what ran before RPC mode, and its lastApplied
    lastApplied,
    backoff,    \* lastFailed, until retryAt has passed
    lastErr,    \* whether lastErr is set
    switching,
    servers,    \* the runtimes whose Run has not returned
    report,     \* the heartbeat's call of Status, between the copy and the probe
    orphan,     \* a server process that a crashed agent left behind
    files,      \* model -> the version of its file
    part,       \* model -> version a prefix of which is in the .part file
    served,     \* history: this agent has had a model running
    crashes     \* crashes so far

storage == <<files, part>>
outside == <<config, want, crashes>>
vars == <<config, want, desired, pc, d, prev, runtime, preRPC, lastApplied, backoff, lastErr,
          switching, servers, report, orphan, files, part, served, crashes>>

\* A server: what it serves, whether its process has been started, is
\* loading, answers or has exited, and whether its context is cancelled.
Servers == [serves : Models \cup {RPC}, phase : {"new", "up", "ok", "down"}, stop : BOOLEAN]

\* A status under way: the model it names, and whether a server of another
\* model was started since (history).
Reports == [model : Models, overtaken : BOOLEAN]

\* A .part file is complete once it is "full", whatever is in it.
Parts == Versions \cup {Nothing, "full"}
Applied == Wishes \cup {Nothing}
Runtimes == Models \cup {RPC, Nothing}

Switch == {"fetch", "room", "download", "rename", "size", "stopping", "load", "unload", "fail"}
Places == {"idle", "leave", "leaving", "check", "enter", "entering"} \cup Switch

ManagerTypeOK ==
    /\ config \in Configs
    /\ want \in Applied /\ desired \in Applied \cup {Release}
    /\ pc \in Places
    /\ d \in Applied \cup {Release}
    /\ prev \in [runtime : Runtimes, lastApplied : Applied]
    /\ runtime \in Runtimes
    /\ preRPC \in [runtime : Runtimes, lastApplied : Applied]
    /\ lastApplied \in Applied /\ backoff \in Applied
    /\ lastErr \in BOOLEAN /\ switching \in BOOLEAN
    /\ servers \in SUBSET Servers
    /\ report \in Reports \cup {Nothing}
    /\ orphan \in Runtimes
    /\ files \in [Models -> Versions \cup {Nothing}]
    /\ part \in [Models -> Parts]
    /\ served \in BOOLEAN
    /\ crashes \in 0..MaxCrashes

NoState == [runtime |-> Nothing, lastApplied |-> Nothing]

\* A server that was just started, if there is anything to serve.
Started(m) ==
    IF m = Nothing THEN {} ELSE {[serves |-> m, phase |-> "new", stop |-> FALSE]}

ManagerInit ==
    /\ config \in Configs
    /\ want = Nothing /\ desired = Nothing
    /\ pc = "idle" /\ d = Nothing /\ prev = NoState
    /\ runtime = config.static
    /\ preRPC = NoState
    /\ lastApplied = Nothing /\ backoff = Nothing
    /\ lastErr = FALSE /\ switching = FALSE
    /\ servers = Started(config.static) /\ report = Nothing
    /\ orphan = Nothing
    /\ files \in [Models -> Versions \cup {Nothing}]
    /\ \A m \in Models : files[m] # Nothing <=> m = config.static
    /\ part = [m \in Models |-> Nothing]
    /\ served = (config.static # Nothing)
    /\ crashes = 0

-----------------------------------------------------------------------------
(* The controller and the heartbeats *)

ControllerDecides ==
    /\ want' \in Applied
    /\ UNCHANGED <<config, desired, pc, d, prev, runtime, preRPC, lastApplied, backoff, lastErr,
                   switching, servers, report, orphan, storage, served, crashes>>

\* Mutant: no desired state changes nothing.
SetDesiredOnly ==
    /\ report = Nothing
    /\ want # Nothing
    /\ desired' = want
    /\ UNCHANGED <<outside, pc, d, prev, runtime, preRPC, lastApplied, backoff, lastErr,
                   switching, servers, report, orphan, storage, served>>

\* The newest value replaces one that was not taken yet. No desired state
\* changes nothing, but ends RPC mode. The same goroutine calls Status before.
SetDesired ==
    /\ report = Nothing
    /\ want # Nothing \/ runtime = RPC
    /\ desired' = IF want = Nothing THEN Release ELSE want
    /\ UNCHANGED <<outside, pc, d, prev, runtime, preRPC, lastApplied, backoff, lastErr,
                   switching, servers, report, orphan, storage, served>>

-----------------------------------------------------------------------------
(* The supervised server *)

Become(s, t) == servers' = (servers \ {s}) \cup {t}

ServerUnchanged ==
    UNCHANGED <<outside, desired, pc, d, prev, runtime, preRPC, lastApplied, backoff, lastErr,
                switching, report, storage, served>>

\* Run first kills a process that was left behind, then starts its own.
Spawn(s) ==
    /\ s.phase \in {"new", "down"} /\ ~s.stop
    /\ Become(s, [s EXCEPT !.phase = "up"])
    /\ orphan' = IF s.phase = "new" THEN Nothing ELSE orphan
    /\ ServerUnchanged

\* The server has loaded its model.
Healthy(s) ==
    /\ s.phase = "up"
    /\ s.serves \in Models => files[s.serves] # Nothing
    /\ Become(s, [s EXCEPT !.phase = "ok"])
    /\ UNCHANGED orphan /\ ServerUnchanged

\* The process exits and is started again after a while.
Exit(s) ==
    /\ s.phase \in {"up", "ok"} /\ ~s.stop
    /\ Become(s, [s EXCEPT !.phase = "down"])
    /\ UNCHANGED orphan /\ ServerUnchanged

\* Run returns and closes done.
Ended(s) ==
    /\ s.stop
    /\ servers' = servers \ {s}
    /\ orphan' = IF s.phase = "new" THEN Nothing ELSE orphan
    /\ ServerUnchanged

\* The manager cancels the server, and waits for it.
StopServer == servers' = {[s EXCEPT !.stop = TRUE] : s \in servers} /\ UNCHANGED report
Stopped == servers = {}

\* It starts a server of m, if there is anything to serve; the status copied
\* before may be of another model.
StartServer(m) ==
    /\ servers' = Started(m)
    /\ report' = IF report = Nothing \/ m \in {Nothing, report.model} THEN report
                 ELSE [report EXCEPT !.overtaken = TRUE]

\* Something answers /health on the port.
Answers ==
    \/ \E s \in servers : s.phase = "ok" /\ s.serves \in Models
    \/ orphan \in Models

-----------------------------------------------------------------------------
(* Status, as the gateway reads it *)

\* An error is reported rather than a switch, and only a reported switch
\* keeps requests away.
Offers == runtime \in Models /\ (lastErr \/ ~switching)

ReportUnchanged ==
    UNCHANGED <<outside, desired, pc, d, prev, runtime, preRPC, lastApplied, backoff, lastErr,
                switching, servers, orphan, storage, served>>

\* Status copies the manager's fields and unlocks; a status that cannot make
\* the phone a backend, whatever the probe finds, is not followed.
CopyStatus ==
    /\ report = Nothing /\ Offers
    /\ report' = [model |-> runtime, overtaken |-> FALSE]
    /\ ReportUnchanged

\* Then it probes /health on the port, whichever server has it now.
Probe ==
    /\ report # Nothing
    /\ report' = Nothing
    /\ ReportUnchanged

-----------------------------------------------------------------------------
(* Run, and RPC mode *)

Take ==
    /\ pc = "idle" /\ desired # Nothing
    /\ d' = desired /\ desired' = Nothing
    /\ pc' = IF desired # Release /\ desired.rpc THEN "enter" ELSE "leave"
    /\ UNCHANGED <<outside, prev, runtime, preRPC, lastApplied, backoff, lastErr, switching,
                   servers, report, orphan, storage, served>>

\* Run goes to place p; between two reconciliations there is no d.
Goto(p) ==
    /\ pc' = p
    /\ d' = IF p = "idle" THEN Nothing ELSE d

\* Where reconcile goes on after leaveRPC.
AfterLeave == IF d = Release THEN "idle" ELSE "check"

LeaveRPC ==
    /\ pc = "leave"
    /\ \/ /\ runtime # RPC
          /\ Goto(AfterLeave)
          /\ UNCHANGED <<prev, runtime, preRPC, lastApplied, lastErr, servers, report>>
       \/ /\ runtime = RPC
          /\ prev' = preRPC /\ preRPC' = NoState
          /\ runtime' = Nothing /\ lastApplied' = Nothing /\ lastErr' = FALSE
          /\ StopServer
          /\ Goto("leaving")
    /\ UNCHANGED <<outside, desired, backoff, switching, orphan, storage, served>>

\* What ran before RPC mode, if anything, is started again.
LeftRPC ==
    /\ pc = "leaving" /\ Stopped
    /\ runtime' = prev.runtime /\ lastApplied' = prev.lastApplied
    /\ StartServer(prev.runtime)
    /\ prev' = NoState
    /\ Goto(AfterLeave)
    /\ UNCHANGED <<outside, desired, preRPC, backoff, lastErr, switching, orphan, storage,
                   served>>

\* Mutant: what runs is noted even in RPC mode.
NotedAlways == [runtime |-> runtime, lastApplied |-> lastApplied]

\* What is to be restored after RPC mode.
Noted ==
    IF runtime = RPC THEN preRPC
    ELSE IF runtime = Nothing THEN NoState
    ELSE [runtime |-> runtime, lastApplied |-> lastApplied]

EnterRPC ==
    /\ pc = "enter"
    /\ \/ /\ runtime = RPC /\ lastApplied = d
          /\ Goto("idle")
          /\ UNCHANGED <<preRPC, lastErr, servers, report>>
       \/ /\ ~(runtime = RPC /\ lastApplied = d) /\ ~config.rpc
          /\ lastErr' = TRUE
          /\ Goto("idle")
          /\ UNCHANGED <<preRPC, servers, report>>
       \/ /\ ~(runtime = RPC /\ lastApplied = d) /\ config.rpc
          /\ preRPC' = Noted
          /\ StopServer
          /\ Goto("entering")
          /\ UNCHANGED lastErr
    /\ UNCHANGED <<outside, desired, prev, runtime, lastApplied, backoff, switching, orphan,
                   storage, served>>

EnteredRPC ==
    /\ pc = "entering" /\ Stopped
    /\ StartServer(RPC)
    /\ runtime' = RPC /\ lastApplied' = d /\ lastErr' = FALSE
    /\ backoff' = Nothing
    /\ Goto("idle")
    /\ UNCHANGED <<outside, desired, prev, preRPC, switching, orphan, storage, served>>

-----------------------------------------------------------------------------
(* reconcile: a switch to model d *)

\* What a step inside reconcile leaves alone in any case.
SwitchUnchanged == UNCHANGED <<outside, desired, preRPC>>

\* The state is applied already, or it failed and is not to be retried yet;
\* a budget that has grown permits an earlier retry.
Skip ==
    /\ pc = "check"
    /\ lastApplied = d \/ backoff = d
    /\ Goto("idle")
    /\ UNCHANGED <<prev, runtime, lastApplied, backoff, lastErr, switching, servers, report,
                   orphan, storage, served>>
    /\ SwitchUnchanged

\* Mutant: an earlier error is still reported during the switch.
BeginWithError ==
    /\ pc = "check" /\ lastApplied # d
    /\ switching' = TRUE
    /\ Goto("fetch")
    /\ UNCHANGED <<prev, runtime, lastApplied, backoff, lastErr, servers, report, orphan,
                   storage, served>>
    /\ SwitchUnchanged

Begin ==
    /\ pc = "check" /\ lastApplied # d
    /\ switching' = TRUE /\ lastErr' = FALSE
    /\ Goto("fetch")
    /\ UNCHANGED <<prev, runtime, lastApplied, backoff, servers, report, orphan, storage,
                   served>>
    /\ SwitchUnchanged

\* A file with the right hash is not downloaded again.
Fetch ==
    /\ pc = "fetch"
    /\ Goto(IF files[d.model] = d.version THEN "size" ELSE "room")
    /\ UNCHANGED <<prev, runtime, lastApplied, backoff, lastErr, switching, servers, report,
                   orphan, storage, served>>
    /\ SwitchUnchanged

\* The step goes to place p and changes nothing but the files.
FilesStep(p) ==
    /\ Goto(p)
    /\ UNCHANGED <<prev, runtime, lastApplied, backoff, lastErr, switching, servers, report,
                   orphan, served>>
    /\ SwitchUnchanged

\* Files that may be deleted for room: not the running model's, not d's.
Evictable == Models \ {runtime, d.model}

\* There may be too little storage even without the other files.
MakeRoom ==
    /\ pc = "room"
    /\ \E gone \in SUBSET Evictable :
          files' = [m \in Models |-> IF m \in gone THEN Nothing ELSE files[m]]
    /\ UNCHANGED part
    /\ FilesStep("download") \/ FilesStep("fail")

\* The download goes on from the bytes in the .part file and breaks off.
DownloadBreaks ==
    /\ pc = "download" /\ part[d.model] # "full"
    /\ \/ part[d.model] = Nothing /\ part' = [part EXCEPT ![d.model] = d.version]
       \/ UNCHANGED part
    /\ UNCHANGED files
    /\ FilesStep("fail")

\* The same, and the agent is still reading.
DownloadGoesOn ==
    /\ pc = "download" /\ part[d.model] = Nothing
    /\ part' = [part EXCEPT ![d.model] = d.version]
    /\ UNCHANGED files
    /\ FilesStep("download")

\* The last byte arrives, and the hash is the wanted one.
DownloadWhole ==
    /\ pc = "download" /\ part[d.model] \in {Nothing, d.version}
    /\ part' = [part EXCEPT ![d.model] = "full"]
    /\ UNCHANGED files
    /\ FilesStep("rename")

\* The hash is another one: the bytes in the .part file are of an earlier
\* version, or the controller's file has been replaced.
DownloadMismatch ==
    /\ pc = "download" /\ part[d.model] # "full"
    /\ part' = [part EXCEPT ![d.model] = "full"]
    /\ UNCHANGED files
    /\ FilesStep("fail")

\* A complete .part file: the range starts at its end and is refused (416).
DownloadRefused ==
    /\ pc = "download" /\ part[d.model] = "full"
    /\ UNCHANGED storage
    /\ FilesStep("fail")

Rename ==
    /\ pc = "rename"
    /\ files' = [files EXCEPT ![d.model] = d.version]
    /\ part' = [part EXCEPT ![d.model] = Nothing]
    /\ FilesStep("size")

\* d is in force; the deferred call ends the switch.
Apply ==
    /\ lastApplied' = d /\ lastErr' = FALSE
    /\ backoff' = Nothing
    /\ switching' = FALSE
    /\ Goto("idle")

\* It fits: load stops the running server.
Fits ==
    /\ pc = "size"
    /\ prev' = [runtime |-> runtime, lastApplied |-> Nothing]
    /\ StopServer
    /\ Goto("stopping")
    /\ UNCHANGED <<runtime, lastApplied, backoff, lastErr, switching, orphan, storage, served>>
    /\ SwitchUnchanged

\* It does not fit; if the model is running already it is kept.
DoesNotFit ==
    /\ pc = "size"
    /\ \/ runtime = d.model /\ Apply
       \/ /\ runtime # d.model
          /\ Goto("fail")
          /\ UNCHANGED <<lastApplied, backoff, lastErr, switching>>
    /\ UNCHANGED <<prev, runtime, servers, report, orphan, storage, served>>
    /\ SwitchUnchanged

\* Mutant: load does not wait until the old server has gone.
LoadAtOnce ==
    /\ pc = "stopping"
    /\ servers' = servers \cup Started(d.model) /\ UNCHANGED report
    /\ Goto("load")
    /\ UNCHANGED <<prev, runtime, lastApplied, backoff, lastErr, switching, orphan, storage,
                   served>>
    /\ SwitchUnchanged

Load ==
    /\ pc = "stopping" /\ Stopped
    /\ StartServer(d.model)
    /\ Goto("load")
    /\ UNCHANGED <<prev, runtime, lastApplied, backoff, lastErr, switching, orphan, storage,
                   served>>
    /\ SwitchUnchanged

LoadSucceeds ==
    /\ pc = "load" /\ Answers
    /\ runtime' = d.model /\ served' = TRUE
    /\ prev' = NoState
    /\ Apply
    /\ UNCHANGED <<servers, report, orphan, storage>>
    /\ SwitchUnchanged

\* Two minutes have passed.
LoadTimesOut ==
    /\ pc = "load"
    /\ StopServer
    /\ Goto("unload")
    /\ UNCHANGED <<prev, runtime, lastApplied, backoff, lastErr, switching, orphan, storage,
                   served>>
    /\ SwitchUnchanged

\* Mutant: the wrong model is noted as the current one.
FallbackAsCurrent ==
    /\ pc = "unload" /\ Stopped
    /\ StartServer(prev.runtime)
    /\ runtime' = IF prev.runtime = Nothing THEN Nothing ELSE d.model
    /\ prev' = NoState
    /\ Goto("fail")
    /\ UNCHANGED <<lastApplied, backoff, lastErr, switching, orphan, storage, served>>
    /\ SwitchUnchanged

\* The previous model is started again if its file is still there.
Fallback ==
    /\ pc = "unload" /\ Stopped
    /\ runtime' = IF prev.runtime \in Models /\ files[prev.runtime] # Nothing
                  THEN prev.runtime ELSE Nothing
    /\ StartServer(runtime')
    /\ prev' = NoState
    /\ Goto("fail")
    /\ UNCHANGED <<lastApplied, backoff, lastErr, switching, orphan, storage, served>>
    /\ SwitchUnchanged

Fail ==
    /\ pc = "fail"
    /\ lastErr' = TRUE /\ backoff' = d
    /\ switching' = FALSE
    /\ Goto("idle")
    /\ UNCHANGED <<prev, runtime, lastApplied, servers, report, orphan, storage, served>>
    /\ SwitchUnchanged

BackoffEnds ==
    /\ backoff # Nothing
    /\ backoff' = Nothing
    /\ UNCHANGED <<outside, desired, pc, d, prev, runtime, preRPC, lastApplied, lastErr,
                   switching, servers, report, orphan, storage, served>>

-----------------------------------------------------------------------------
\* The agent is killed and started again. Its server process goes on.
Crash ==
    /\ crashes < MaxCrashes
    /\ crashes' = crashes + 1
    /\ \/ \E s \in servers : s.phase \in {"up", "ok"} /\ orphan' = s.serves
       \/ (\A s \in servers : s.phase \in {"new", "down"}) /\ UNCHANGED orphan
    /\ servers' = Started(config.static) /\ report' = Nothing
    /\ runtime' = config.static
    /\ served' = (config.static \in Models /\ files[config.static] # Nothing)
    /\ desired' = Nothing /\ pc' = "idle" /\ d' = Nothing
    /\ prev' = NoState /\ preRPC' = NoState
    /\ lastApplied' = Nothing /\ backoff' = Nothing
    /\ lastErr' = FALSE /\ switching' = FALSE
    /\ UNCHANGED <<config, want, storage>>

Run ==
    \/ Take \/ LeaveRPC \/ LeftRPC \/ EnterRPC \/ EnteredRPC
    \/ Skip \/ Begin \/ Fetch \/ MakeRoom
    \/ DownloadBreaks \/ DownloadGoesOn \/ DownloadWhole \/ DownloadMismatch \/ DownloadRefused
    \/ Rename \/ Fits \/ DoesNotFit \/ Load \/ LoadSucceeds \/ LoadTimesOut \/ Fallback \/ Fail

RunServer(s) == Spawn(s) \/ Ended(s)

ManagerNext ==
    \/ ControllerDecides \/ SetDesired \/ CopyStatus \/ Probe
    \/ \E s \in servers : RunServer(s) \/ Healthy(s) \/ Exit(s)
    \/ Run \/ BackoffEnds
    \/ Crash

ManagerSpec == ManagerInit /\ [][ManagerNext]_vars

\* The goroutines of the agent go on: the manager, where it does not wait for
\* a server to end, the supervisor of the server and the heartbeats, each of
\* which calls Status first and SetDesired last; and the backoff runs out.
ManagerFairSpec ==
    /\ ManagerSpec
    /\ WF_vars(Run) /\ SF_vars(SetDesired) /\ WF_vars(Probe) /\ WF_vars(BackoffEnds)
    /\ WF_vars(\E s \in servers : RunServer(s))

\* Storage, network and memory suffice now and then, and a server that is
\* tried again and again answers in time at last.
Success ==
    /\ SF_vars(MakeRoom /\ pc' = "download") /\ SF_vars(DownloadWhole) /\ SF_vars(Fits)
    /\ SF_vars(pc = "load" /\ \E s \in servers : Spawn(s))
    /\ SF_vars(pc = "load" /\ \E s \in servers : Healthy(s))
    /\ SF_vars(LoadSucceeds)

-----------------------------------------------------------------------------
(* Properties *)

\* At most one inference server has the port: every path that starts one has
\* waited for the one before it, and a process that a crashed agent left
\* behind is killed first (Manager.load, fallback, enterRPC, leaveRPC,
\* killStale).
OneServer ==
    /\ \A s, t \in servers : s = t
    /\ \A s \in servers : s.phase \in {"up", "ok"} => orphan = Nothing

\* Between two reconciliations the manager's view is the truth: the server
\* it keeps is the only one and serves what it says, and the desired state it
\* takes for applied is about the model that runs; a failed switch or a stay
\* in a Big Brain pool does not separate the two (Manager.reconcile).
ViewIsTrue ==
    pc = "idle" =>
        /\ {s.serves : s \in servers} = {runtime} \ {Nothing}
        /\ \A s \in servers : ~s.stop
        /\ lastApplied # Nothing =>
              runtime = IF lastApplied.rpc THEN RPC ELSE lastApplied.model

\* "eviction never removes the currently-served model": a phone that has had
\* a working model keeps one to run, with its file, through failed downloads,
\* failed loads and stays in a Big Brain pool (Manager.makeRoom, fallback,
\* enterRPC, leaveRPC).
Kept ==
    IF pc \in {"leaving", "stopping", "load", "unload"} THEN prev.runtime
    ELSE IF runtime = RPC THEN preRPC.runtime
    ELSE runtime
KeepsServing == served => Kept \in Models /\ files[Kept] # Nothing

\* A phone that the gateway may send requests to answers with the model it
\* reports: whenever the probe of a status under way finds a server, that
\* server serves the model copied before, since a manager that replaces its
\* server says so first (Manager.Status, Backends). Excepted is a status that
\* was overtaken: the fields were copied before, and the probe is made after,
\* a server of another model was started; and the moment in which the process
\* of a crashed agent has not been killed yet.
ReportIsTrue ==
    report # Nothing /\ Answers /\ orphan = Nothing =>
        report.overtaken \/ \E s \in servers : s.phase = "ok" /\ s.serves = report.model

\* A phone ends up with what the controller goes on wanting, through crashes,
\* failed switches and stays in a Big Brain pool, provided that no .part file
\* is left that cannot be resumed (Manager.Run, SetDesired, reconcile).
Settled ==
    IF want = Nothing THEN runtime # RPC
    ELSE lastApplied = want /\ runtime = IF want.rpc THEN RPC ELSE want.model
Resumable == want = Nothing \/ pc = "rename" \/ part[want.model] \in {Nothing, want.version}
Possible == want = Nothing \/ ~want.rpc \/ config.rpc
Converges ==
    Success /\ <>[][UNCHANGED want]_want /\ <>[](Possible /\ Resumable) => <>[]Settled

=============================================================================
