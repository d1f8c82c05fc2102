--------------------------- MODULE ManagerProofs ---------------------------
(* The safety of a phone's model manager, for any models, versions, wishes,  *)
(* configurations and number of crashes.                                     *)
EXTENDS Manager, TLAPS

(***************************************************************************)
(* The inductive invariant. Its parts are ordered: each is preserved given *)
(* the ones before it.                                                     *)
(***************************************************************************)

\* What Run works on at each place.
Working ==
    /\ pc \in Switch \cup {"check"} => d \in Wishes /\ ~d.rpc
    /\ pc \in {"enter", "entering"} => d \in Wishes /\ d.rpc
    /\ pc \in {"leave", "leaving"} => d = Release \/ (d \in Wishes /\ ~d.rpc)

\* The error and the switch as a heartbeat sees them, and where RPC mode,
\* what ran before it and the local variable prev may be.
Modes ==
    /\ switching <=> pc \in Switch
    /\ switching => ~lastErr
    /\ pc \in Switch \cup {"check"} => runtime # RPC
    /\ pc = "leaving" => runtime = Nothing /\ lastApplied = Nothing
    /\ prev.runtime # RPC /\ preRPC.runtime # RPC
    /\ pc \in {"stopping", "load", "unload"} =>
          prev.runtime = runtime /\ prev.lastApplied = Nothing
    /\ pc \notin {"leaving", "stopping", "load", "unload"} => prev = NoState
    /\ runtime # RPC /\ pc # "entering" => preRPC = NoState
    /\ runtime # RPC /\ pc = "entering" => preRPC.runtime = runtime

\* The server at each place: the one of runtime, none but one that ends, or
\* the one that is being loaded.
Steady == {"idle", "leave", "check", "enter", "fetch", "room", "download", "rename", "size", "fail"}
Alone == \A s, t \in servers : s = t
Serving(r) ==
    /\ \A s \in servers : s.serves = r /\ ~s.stop
    /\ r # Nothing => servers # {}
Ending == \A s \in servers : s.stop

Supervised ==
    /\ Alone
    /\ \A s \in servers : s.phase # "new" => orphan = Nothing
    /\ pc \in Steady => Serving(runtime)
    /\ pc \in {"entering", "leaving", "stopping", "unload"} => Ending
    /\ pc = "entering" => \A s \in servers : s.serves = runtime
    /\ pc = "load" => Serving(d.model)

\* A desired state taken for applied is about what runs, and its file exists.
Applies(r, a) ==
    a # Nothing => /\ r = IF a.rpc THEN RPC ELSE a.model
                   /\ a.rpc \/ files[a.model] # Nothing
Consistent ==
    /\ pc \in {"size", "stopping", "load", "unload"} => files[d.model] = d.version
    /\ Applies(runtime, lastApplied)
    /\ Applies(prev.runtime, prev.lastApplied)
    /\ Applies(preRPC.runtime, preRPC.lastApplied)

\* A status under way that was not overtaken is of the model that the server
\* serves, if there is one.
Reported ==
    report # Nothing => report.overtaken \/ \A s \in servers : s.serves = report.model

ManagerInv ==
    ManagerTypeOK /\ Working /\ Modes /\ Supervised /\ Reported /\ Consistent /\ KeepsServing

\* The types hold what the manager starts from.
LEMMA NothingTyped ==
    /\ Nothing \in Runtimes /\ RPC \in Runtimes
    /\ Nothing \in Applied /\ Wishes \subseteq Applied
    /\ NoState \in [runtime : Runtimes, lastApplied : Applied]
    /\ {"idle", "leaving", "entering"} \subseteq Places
BY DEF Runtimes, Applied, NoState, Places

-----------------------------------------------------------------------------
(* The servers *)

\* A server that is started is new, alone and not cancelled.
LEMMA StartedIsOne ==
    ASSUME NEW m \in Runtimes
    PROVE  /\ Started(m) \in SUBSET Servers
           /\ \A s \in Started(m) : s.serves = m /\ s.phase = "new" /\ ~s.stop
           /\ \A s, t \in Started(m) : s = t
           /\ m # Nothing => Started(m) # {}
<1>1. CASE m = Nothing
  BY <1>1 DEF Started
<1>2. CASE m # Nothing
  <2>1. Started(m) = {[serves |-> m, phase |-> "new", stop |-> FALSE]}
    BY <1>2 DEF Started
  <2>2. [serves |-> m, phase |-> "new", stop |-> FALSE] \in Servers
    BY <1>2 DEF Servers, Runtimes
  <2>3. QED
    BY <2>1, <2>2
<1>3. QED
  BY <1>1, <1>2

\* StopServer cancels every server and changes nothing else of them.
LEMMA StopServerStops ==
    ASSUME servers \in SUBSET Servers, StopServer
    PROVE  /\ servers' \in SUBSET Servers
           /\ \A t \in servers' :
                 t.stop /\ \E s \in servers : s.serves = t.serves /\ s.phase = t.phase
           /\ Alone => Alone'
           /\ report' = report
BY DEF StopServer, Servers, Alone

\* StartServer starts one, and overtakes the status of another model.
LEMMA StartServerStarts ==
    ASSUME report \in Reports \cup {Nothing}, NEW m \in Runtimes, StartServer(m)
    PROVE  /\ servers' \in SUBSET Servers
           /\ \A s \in servers' : s.serves = m /\ s.phase = "new" /\ ~s.stop
           /\ Alone'
           /\ m # Nothing => servers' # {}
           /\ m = Nothing => servers' = {}
           /\ report' \in Reports \cup {Nothing}
           /\ report' # Nothing =>
                 report'.overtaken \/ (report' = report /\ m \in {Nothing, report.model})
<1>1. servers' = Started(m)
  BY DEF StartServer
<1>2. CASE report = Nothing \/ m \in {Nothing, report.model}
  BY <1>1, <1>2, StartedIsOne DEF StartServer, Alone, Started
<1>3. CASE report # Nothing /\ m \notin {Nothing, report.model}
  <2>1. report \in Reports /\ report' = [report EXCEPT !.overtaken = TRUE]
    BY <1>3 DEF StartServer
  <2>2. report' \in Reports /\ report'.overtaken = TRUE
    BY <2>1 DEF Reports
  <2>3. \A s \in servers' : s.serves = m /\ s.phase = "new" /\ ~s.stop
    BY <1>1, StartedIsOne
  <2>4. servers' \in SUBSET Servers /\ Alone' /\ servers' # {}
    BY <1>1, <1>3, StartedIsOne DEF Alone
  <2>5. QED
    BY <1>3, <2>2, <2>3, <2>4
<1>4. QED
  BY <1>2, <1>3

\* A lone server that becomes t is replaced by t.
LEMMA BecomesOne ==
    ASSUME Alone, NEW s \in servers, NEW t, Become(s, t)
    PROVE  servers' = {t}
BY DEF Alone, Become

\* A server that changes its phase stays a server.
LEMMA ServerTyped ==
    ASSUME servers \in SUBSET Servers, NEW s \in servers, NEW p \in {"new", "up", "ok", "down"},
           Become(s, [s EXCEPT !.phase = p])
    PROVE  servers' \in SUBSET Servers
<1>1. [s EXCEPT !.phase = p] \in Servers
  BY DEF Servers
<1>2. QED
  BY <1>1 DEF Become

-----------------------------------------------------------------------------
(* The parts of the invariant are preserved *)

\* Every step keeps the types.
LEMMA TypeStep ==
    ASSUME ManagerTypeOK, Working, [ManagerNext]_vars
    PROVE  ManagerTypeOK'
<1> USE ManagerAssumption DEF Goto, outside, storage, ManagerTypeOK
<1>0. CASE CopyStatus \/ Probe
  <2>1. report' \in Reports \cup {Nothing}
    <3>1. CASE CopyStatus
      <4>1. runtime \in Models /\ report' = [model |-> runtime, overtaken |-> FALSE]
        BY <3>1 DEF CopyStatus, Offers
      <4>2. QED
        BY <4>1 DEF Reports
    <3>2. CASE Probe
      BY <3>2 DEF Probe
    <3>3. QED
      BY <1>0, <3>1, <3>2
  <2>2. QED
    BY <1>0, <2>1 DEF CopyStatus, Probe, ReportUnchanged
<1>1. CASE UNCHANGED vars
  BY <1>1 DEF vars
<1>2. CASE ControllerDecides
  BY <1>2 DEF ControllerDecides
<1>3. CASE SetDesired
  BY <1>3 DEF SetDesired, Applied
<1>4. ASSUME NEW s \in servers, Spawn(s) PROVE ManagerTypeOK'
  <2>1. servers' \in SUBSET Servers /\ orphan' \in Runtimes
    BY <1>4, ServerTyped DEF Spawn, Runtimes
  <2>2. QED
    BY <1>4, <2>1 DEF Spawn, ServerUnchanged
<1>5. ASSUME NEW s \in servers, Ended(s) PROVE ManagerTypeOK'
  BY <1>5 DEF Ended, ServerUnchanged, Runtimes
<1>6. ASSUME NEW s \in servers, Healthy(s) PROVE ManagerTypeOK'
  BY <1>6, ServerTyped DEF Healthy, ServerUnchanged
<1>7. ASSUME NEW s \in servers, Exit(s) PROVE ManagerTypeOK'
  BY <1>7, ServerTyped DEF Exit, ServerUnchanged
<1>8. CASE Take
  BY <1>8 DEF Take, Places, Switch, Applied
<1>9. CASE LeaveRPC
  <2>1. CASE runtime # RPC
    BY <1>9, <2>1 DEF LeaveRPC, AfterLeave, Places, Switch, Applied
  <2>2. CASE runtime = RPC
    <3>1. servers' \in SUBSET Servers
      BY <1>9, <2>2, StopServerStops DEF LeaveRPC
    <3>2. QED
      BY <1>9, <2>2, <3>1, StopServerStops, NothingTyped DEF LeaveRPC
  <2>3. QED
    BY <1>9, <2>1, <2>2 DEF LeaveRPC
<1>10. CASE LeftRPC
  <2>1. servers' \in SUBSET Servers /\ report' \in Reports \cup {Nothing}
    BY <1>10, StartServerStarts DEF LeftRPC
  <2>2. QED
    BY <1>10, <2>1 DEF LeftRPC, AfterLeave, Places, Switch, Applied, NoState, Runtimes
<1>11. CASE EnterRPC
  <2>1. CASE UNCHANGED <<preRPC, servers, report>> /\ Goto("idle")
    <3>1. lastErr' \in BOOLEAN
      BY <1>11 DEF EnterRPC
    <3>2. QED
      BY <1>11, <2>1, <3>1, NothingTyped DEF EnterRPC
  <2>2. CASE preRPC' = Noted /\ StopServer /\ Goto("entering") /\ UNCHANGED lastErr
    <3>1. servers' \in SUBSET Servers
      BY <2>2, StopServerStops
    <3>2. preRPC' \in [runtime : Runtimes, lastApplied : Applied]
      BY <2>2, NothingTyped DEF Noted
    <3>3. QED
      BY <1>11, <2>2, <3>1, <3>2, StopServerStops, NothingTyped DEF EnterRPC
  <2>3. QED
    BY <1>11, <2>1, <2>2 DEF EnterRPC
<1>12. CASE EnteredRPC
  <2>1. servers' \in SUBSET Servers /\ report' \in Reports \cup {Nothing}
    BY <1>12, StartServerStarts, NothingTyped DEF EnteredRPC
  <2>2. d \in Wishes
    BY <1>12 DEF EnteredRPC, Working
  <2>3. QED
    BY <1>12, <2>1, <2>2, NothingTyped DEF EnteredRPC
<1>13. CASE Skip
  BY <1>13 DEF Skip, SwitchUnchanged, Places, Switch, Applied
<1>14. CASE Begin
  BY <1>14 DEF Begin, SwitchUnchanged, Places, Switch
<1>15. CASE Fetch
  BY <1>15 DEF Fetch, SwitchUnchanged, Places, Switch
<1>16. CASE MakeRoom
  BY <1>16 DEF MakeRoom, FilesStep, Evictable, SwitchUnchanged, Places, Switch
<1>17. CASE DownloadBreaks
  BY <1>17 DEF DownloadBreaks, FilesStep, SwitchUnchanged, Places, Switch, Parts, Working
<1>18. CASE DownloadGoesOn
  BY <1>18 DEF DownloadGoesOn, FilesStep, SwitchUnchanged, Places, Switch, Parts, Working
<1>19. CASE DownloadWhole
  BY <1>19 DEF DownloadWhole, FilesStep, SwitchUnchanged, Places, Switch, Parts, Working
<1>20. CASE DownloadMismatch
  BY <1>20 DEF DownloadMismatch, FilesStep, SwitchUnchanged, Places, Switch, Parts, Working
<1>21. CASE DownloadRefused
  BY <1>21 DEF DownloadRefused, FilesStep, SwitchUnchanged, Places, Switch, Parts, Working
<1>22. CASE Rename
  BY <1>22 DEF Rename, FilesStep, SwitchUnchanged, Places, Switch, Parts, Working
<1>23. CASE Fits
  BY <1>23, StopServerStops DEF Fits, SwitchUnchanged, Places, Switch, Applied, Working
<1>24. CASE DoesNotFit
  BY <1>24 DEF DoesNotFit, Apply, SwitchUnchanged, Places, Switch, Applied, Working
<1>25. CASE Load
  <2>1. servers' \in SUBSET Servers /\ report' \in Reports \cup {Nothing}
    BY <1>25, StartServerStarts DEF Load, Runtimes, Working, Switch
  <2>2. QED
    BY <1>25, <2>1 DEF Load, SwitchUnchanged, Places, Switch
<1>26. CASE LoadSucceeds
  BY <1>26 DEF LoadSucceeds, Apply, SwitchUnchanged, Places, Switch, Applied, Working, Runtimes,
     NoState
<1>27. CASE LoadTimesOut
  BY <1>27, StopServerStops DEF LoadTimesOut, SwitchUnchanged, Places, Switch
<1>28. CASE Fallback
  <2>1. runtime' \in Runtimes
    BY <1>28 DEF Fallback, Runtimes
  <2>2. servers' \in SUBSET Servers /\ report' \in Reports \cup {Nothing}
    BY <1>28, <2>1, StartServerStarts DEF Fallback
  <2>3. QED
    BY <1>28, <2>1, <2>2, NothingTyped DEF Fallback, SwitchUnchanged, Places, Switch
<1>29. CASE Fail
  BY <1>29 DEF Fail, SwitchUnchanged, Places, Switch, Applied, Working
<1>30. CASE BackoffEnds
  BY <1>30 DEF BackoffEnds, Applied
<1>31. CASE Crash
  <2>1. servers' \in SUBSET Servers
    BY <1>31, StartedIsOne DEF Crash, Runtimes
  <2>2. orphan' \in Runtimes
    BY <1>31 DEF Crash, Servers, Runtimes
  <2>3. crashes' \in 0..MaxCrashes
    BY <1>31 DEF Crash
  <2>4. QED
    BY <1>31, <2>1, <2>2, <2>3 DEF Crash, Places, Applied, Runtimes, NoState
<1>32. QED
  BY <1>0, <1>1, <1>2, <1>3, <1>4, <1>5, <1>6, <1>7, <1>8, <1>9, <1>10, <1>11, <1>12, <1>13, <1>14,
     <1>15, <1>16, <1>17, <1>18, <1>19, <1>20, <1>21, <1>22, <1>23, <1>24, <1>25, <1>26, <1>27,
     <1>28, <1>29, <1>30, <1>31 DEF ManagerNext, Run, RunServer

\* Every step leaves Run with a desired state that fits its place.
LEMMA WorkingStep ==
    ASSUME ManagerTypeOK, Working, [ManagerNext]_vars
    PROVE  Working'
<1> USE ManagerAssumption DEF Goto, outside, storage, Working, Switch
<1>0. CASE CopyStatus \/ Probe
  BY <1>0 DEF CopyStatus, Probe, ReportUnchanged
<1>1. CASE UNCHANGED vars
  BY <1>1 DEF vars
<1>2. CASE ControllerDecides
  BY <1>2 DEF ControllerDecides
<1>3. CASE SetDesired
  BY <1>3 DEF SetDesired
<1>4. ASSUME NEW s \in servers, Spawn(s) PROVE Working'
  BY <1>4 DEF Spawn, ServerUnchanged
<1>5. ASSUME NEW s \in servers, Ended(s) PROVE Working'
  BY <1>5 DEF Ended, ServerUnchanged
<1>6. ASSUME NEW s \in servers, Healthy(s) PROVE Working'
  BY <1>6 DEF Healthy, ServerUnchanged
<1>7. ASSUME NEW s \in servers, Exit(s) PROVE Working'
  BY <1>7 DEF Exit, ServerUnchanged
<1>8. CASE Take
  BY <1>8 DEF Take, ManagerTypeOK, Applied
<1>9. CASE LeaveRPC
  BY <1>9 DEF LeaveRPC, AfterLeave, ManagerTypeOK
<1>10. CASE LeftRPC
  BY <1>10 DEF LeftRPC, AfterLeave
<1>11. CASE EnterRPC
  BY <1>11 DEF EnterRPC, Noted
<1>12. CASE EnteredRPC
  BY <1>12 DEF EnteredRPC
<1>13. CASE Skip
  BY <1>13 DEF Skip, SwitchUnchanged
<1>14. CASE Begin
  BY <1>14 DEF Begin, SwitchUnchanged
<1>15. CASE Fetch
  BY <1>15 DEF Fetch, SwitchUnchanged
<1>16. CASE MakeRoom
  BY <1>16 DEF MakeRoom, FilesStep, Evictable, SwitchUnchanged
<1>17. CASE DownloadBreaks
  BY <1>17 DEF DownloadBreaks, FilesStep, SwitchUnchanged
<1>18. CASE DownloadGoesOn
  BY <1>18 DEF DownloadGoesOn, FilesStep, SwitchUnchanged
<1>19. CASE DownloadWhole
  BY <1>19 DEF DownloadWhole, FilesStep, SwitchUnchanged
<1>20. CASE DownloadMismatch
  BY <1>20 DEF DownloadMismatch, FilesStep, SwitchUnchanged
<1>21. CASE DownloadRefused
  BY <1>21 DEF DownloadRefused, FilesStep, SwitchUnchanged
<1>22. CASE Rename
  BY <1>22 DEF Rename, FilesStep, SwitchUnchanged
<1>23. CASE Fits
  BY <1>23 DEF Fits, SwitchUnchanged
<1>24. CASE DoesNotFit
  BY <1>24 DEF DoesNotFit, Apply, SwitchUnchanged
<1>25. CASE Load
  BY <1>25 DEF Load, SwitchUnchanged
<1>26. CASE LoadSucceeds
  BY <1>26 DEF LoadSucceeds, Apply, SwitchUnchanged
<1>27. CASE LoadTimesOut
  BY <1>27 DEF LoadTimesOut, SwitchUnchanged
<1>28. CASE Fallback
  BY <1>28 DEF Fallback, SwitchUnchanged
<1>29. CASE Fail
  BY <1>29 DEF Fail, SwitchUnchanged
<1>30. CASE BackoffEnds
  BY <1>30 DEF BackoffEnds
<1>31. CASE Crash
  BY <1>31 DEF Crash
<1>32. QED
  BY <1>0, <1>1, <1>2, <1>3, <1>4, <1>5, <1>6, <1>7, <1>8, <1>9, <1>10, <1>11, <1>12, <1>13, <1>14,
     <1>15, <1>16, <1>17, <1>18, <1>19, <1>20, <1>21, <1>22, <1>23, <1>24, <1>25, <1>26, <1>27,
     <1>28, <1>29, <1>30, <1>31 DEF ManagerNext, Run, RunServer

\* Every step keeps the flags in line with the place of Run.
LEMMA ModesStep ==
    ASSUME ManagerTypeOK, Working, Modes, [ManagerNext]_vars
    PROVE  Modes'
<1> USE ManagerAssumption DEF Goto, outside, storage, Modes, NoState, Switch
<1>0. CASE CopyStatus \/ Probe
  BY <1>0 DEF CopyStatus, Probe, ReportUnchanged
<1>1. CASE UNCHANGED vars
  BY <1>1 DEF vars
<1>2. CASE ControllerDecides
  BY <1>2 DEF ControllerDecides
<1>3. CASE SetDesired
  BY <1>3 DEF SetDesired
<1>4. ASSUME NEW s \in servers, Spawn(s) PROVE Modes'
  BY <1>4 DEF Spawn, ServerUnchanged
<1>5. ASSUME NEW s \in servers, Ended(s) PROVE Modes'
  BY <1>5 DEF Ended, ServerUnchanged
<1>6. ASSUME NEW s \in servers, Healthy(s) PROVE Modes'
  BY <1>6 DEF Healthy, ServerUnchanged
<1>7. ASSUME NEW s \in servers, Exit(s) PROVE Modes'
  BY <1>7 DEF Exit, ServerUnchanged
<1>8. CASE Take
  BY <1>8 DEF Take
<1>9. CASE LeaveRPC
  BY <1>9 DEF LeaveRPC, AfterLeave, ManagerTypeOK, Working, Runtimes
<1>10. CASE LeftRPC
  BY <1>10 DEF LeftRPC, AfterLeave, ManagerTypeOK, Working, Runtimes
<1>11. CASE EnterRPC
  BY <1>11 DEF EnterRPC, Noted, ManagerTypeOK, Working, Runtimes
<1>12. CASE EnteredRPC
  BY <1>12 DEF EnteredRPC
<1>13. CASE Skip
  BY <1>13 DEF Skip, SwitchUnchanged
<1>14. CASE Begin
  BY <1>14 DEF Begin, SwitchUnchanged
<1>15. CASE Fetch
  BY <1>15 DEF Fetch, SwitchUnchanged
<1>16. CASE MakeRoom
  <2>1. PICK p \in {"download", "fail"} : FilesStep(p)
    BY <1>16 DEF MakeRoom
  <2>2. QED
    BY <1>16, <2>1 DEF MakeRoom, FilesStep, Evictable, SwitchUnchanged
<1>17. CASE DownloadBreaks
  BY <1>17 DEF DownloadBreaks, FilesStep, SwitchUnchanged
<1>18. CASE DownloadGoesOn
  BY <1>18 DEF DownloadGoesOn, FilesStep, SwitchUnchanged
<1>19. CASE DownloadWhole
  BY <1>19 DEF DownloadWhole, FilesStep, SwitchUnchanged
<1>20. CASE DownloadMismatch
  BY <1>20 DEF DownloadMismatch, FilesStep, SwitchUnchanged
<1>21. CASE DownloadRefused
  BY <1>21 DEF DownloadRefused, FilesStep, SwitchUnchanged
<1>22. CASE Rename
  BY <1>22 DEF Rename, FilesStep, SwitchUnchanged
<1>23. CASE Fits
  BY <1>23 DEF Fits, SwitchUnchanged
<1>24. CASE DoesNotFit
  <2>1. CASE runtime = d.model /\ Apply
    BY <1>24, <2>1 DEF DoesNotFit, SwitchUnchanged, Apply
  <2>2. CASE runtime # d.model
    <3>1. /\ pc = "size" /\ pc' = "fail"
          /\ UNCHANGED <<prev, runtime, preRPC, lastApplied, lastErr, switching>>
      BY <1>24, <2>2 DEF DoesNotFit, SwitchUnchanged
    <3>2. QED
      BY <3>1
  <2>3. QED
    BY <1>24, <2>1, <2>2 DEF DoesNotFit
<1>25. CASE Load
  BY <1>25 DEF Load, SwitchUnchanged
<1>26. CASE LoadSucceeds
  BY <1>26 DEF LoadSucceeds, Apply, SwitchUnchanged, ManagerTypeOK, Working, Runtimes
<1>27. CASE LoadTimesOut
  BY <1>27 DEF LoadTimesOut, SwitchUnchanged
<1>28. CASE Fallback
  BY <1>28 DEF Fallback, SwitchUnchanged, ManagerTypeOK, Working, Runtimes
<1>29. CASE Fail
  BY <1>29 DEF Fail, SwitchUnchanged
<1>30. CASE BackoffEnds
  BY <1>30 DEF BackoffEnds
<1>31. CASE Crash
  BY <1>31 DEF Crash, ManagerTypeOK, Working, Runtimes
<1>32. QED
  BY <1>0, <1>1, <1>2, <1>3, <1>4, <1>5, <1>6, <1>7, <1>8, <1>9, <1>10, <1>11, <1>12, <1>13, <1>14,
     <1>15, <1>16, <1>17, <1>18, <1>19, <1>20, <1>21, <1>22, <1>23, <1>24, <1>25, <1>26, <1>27,
     <1>28, <1>29, <1>30, <1>31 DEF ManagerNext, Run, RunServer

\* Every step keeps the one server that the place of Run calls for.
LEMMA SupervisedStep ==
    ASSUME ManagerTypeOK, Working, Modes, Supervised, [ManagerNext]_vars
    PROVE  Supervised'
<1> USE ManagerAssumption DEF Goto, outside, storage, Supervised, Serving, Ending, Steady
<1>0. CASE CopyStatus \/ Probe
  BY <1>0 DEF CopyStatus, Probe, ReportUnchanged, Alone
<1>1. CASE UNCHANGED vars
  BY <1>1 DEF vars, Alone
<1>2. CASE ControllerDecides
  BY <1>2 DEF ControllerDecides, Alone
<1>3. CASE SetDesired
  BY <1>3 DEF SetDesired, Alone
<1>4. ASSUME NEW s \in servers, Spawn(s) PROVE Supervised'
  <2> DEFINE t == [s EXCEPT !.phase = "up"]
  <2>1. servers' = {t}
    BY <1>4, BecomesOne DEF Spawn, Supervised
  <2>2. t.phase = "up" /\ t.serves = s.serves /\ t.stop = s.stop
    BY DEF ManagerTypeOK, Servers
  <2>3. QED
    BY <1>4, <2>1, <2>2 DEF Spawn, ServerUnchanged, Alone
<1>5. ASSUME NEW s \in servers, Ended(s) PROVE Supervised'
  BY <1>5 DEF Ended, ServerUnchanged, Alone
<1>6. ASSUME NEW s \in servers, Healthy(s) PROVE Supervised'
  <2> DEFINE t == [s EXCEPT !.phase = "ok"]
  <2>1. servers' = {t}
    BY <1>6, BecomesOne DEF Healthy, Supervised
  <2>2. t.phase = "ok" /\ t.serves = s.serves /\ t.stop = s.stop
    BY DEF ManagerTypeOK, Servers
  <2>3. QED
    BY <1>6, <2>1, <2>2 DEF Healthy, ServerUnchanged, Alone
<1>7. ASSUME NEW s \in servers, Exit(s) PROVE Supervised'
  <2> DEFINE t == [s EXCEPT !.phase = "down"]
  <2>1. servers' = {t}
    BY <1>7, BecomesOne DEF Exit, Supervised
  <2>2. t.phase = "down" /\ t.serves = s.serves /\ t.stop = s.stop
    BY DEF ManagerTypeOK, Servers
  <2>3. QED
    BY <1>7, <2>1, <2>2 DEF Exit, ServerUnchanged, Alone
<1>8. CASE Take
  BY <1>8 DEF Take, Alone
<1>9. CASE LeaveRPC
  <2>1. CASE runtime # RPC
    BY <1>9, <2>1 DEF LeaveRPC, AfterLeave, Alone
  <2>2. CASE runtime = RPC
    BY <1>9, <2>2, StopServerStops DEF LeaveRPC, AfterLeave, ManagerTypeOK
  <2>3. QED
    BY <1>9, <2>1, <2>2 DEF LeaveRPC
<1>10. CASE LeftRPC
  <2>1. Alone' /\ Serving(runtime)' /\ \A s \in servers' : s.phase = "new"
    BY <1>10, StartServerStarts DEF LeftRPC, ManagerTypeOK
  <2>2. QED
    BY <1>10, <2>1 DEF LeftRPC, AfterLeave
<1>11. CASE EnterRPC
  <2>1. CASE UNCHANGED servers /\ Goto("idle")
    BY <1>11, <2>1 DEF EnterRPC, Alone
  <2>2. CASE StopServer /\ Goto("entering")
    BY <1>11, <2>2, StopServerStops DEF EnterRPC, ManagerTypeOK
  <2>3. QED
    BY <1>11, <2>1, <2>2 DEF EnterRPC
<1>12. CASE EnteredRPC
  <2>1. Alone' /\ Serving(runtime)' /\ \A s \in servers' : s.phase = "new"
    BY <1>12, StartServerStarts, NothingTyped DEF EnteredRPC, ManagerTypeOK
  <2>2. QED
    BY <1>12, <2>1 DEF EnteredRPC
<1>13. CASE Skip
  BY <1>13 DEF Skip, SwitchUnchanged, Alone
<1>14. CASE Begin
  BY <1>14 DEF Begin, SwitchUnchanged, Alone
<1>15. CASE Fetch
  BY <1>15 DEF Fetch, SwitchUnchanged, Alone
<1>16. CASE MakeRoom
  BY <1>16 DEF MakeRoom, FilesStep, Evictable, SwitchUnchanged, Alone
<1>17. CASE DownloadBreaks
  BY <1>17 DEF DownloadBreaks, FilesStep, SwitchUnchanged, Alone
<1>18. CASE DownloadGoesOn
  BY <1>18 DEF DownloadGoesOn, FilesStep, SwitchUnchanged, Alone
<1>19. CASE DownloadWhole
  BY <1>19 DEF DownloadWhole, FilesStep, SwitchUnchanged, Alone
<1>20. CASE DownloadMismatch
  BY <1>20 DEF DownloadMismatch, FilesStep, SwitchUnchanged, Alone
<1>21. CASE DownloadRefused
  BY <1>21 DEF DownloadRefused, FilesStep, SwitchUnchanged, Alone
<1>22. CASE Rename
  BY <1>22 DEF Rename, FilesStep, SwitchUnchanged, Alone
<1>23. CASE Fits
  BY <1>23, StopServerStops DEF Fits, SwitchUnchanged, ManagerTypeOK
<1>24. CASE DoesNotFit
  BY <1>24 DEF DoesNotFit, Apply, SwitchUnchanged, Alone
<1>25. CASE Load
  <2>1. d.model \in Runtimes \ {Nothing} /\ d' = d
    BY <1>25 DEF Load, Working, Switch, Runtimes
  <2>2. QED
    BY <1>25, <2>1, StartServerStarts DEF Load, SwitchUnchanged, ManagerTypeOK
<1>26. CASE LoadSucceeds
  BY <1>26 DEF LoadSucceeds, Apply, SwitchUnchanged, Alone
<1>27. CASE LoadTimesOut
  BY <1>27, StopServerStops DEF LoadTimesOut, SwitchUnchanged, ManagerTypeOK
<1>28. CASE Fallback
  <2>1. runtime' \in Runtimes
    BY <1>28 DEF Fallback, ManagerTypeOK, Runtimes
  <2>2. Alone' /\ Serving(runtime)' /\ \A s \in servers' : s.phase = "new"
    BY <1>28, <2>1, StartServerStarts DEF Fallback, ManagerTypeOK
  <2>3. QED
    BY <1>28, <2>2 DEF Fallback, SwitchUnchanged
<1>29. CASE Fail
  BY <1>29 DEF Fail, SwitchUnchanged, Alone
<1>30. CASE BackoffEnds
  BY <1>30 DEF BackoffEnds, Alone
<1>31. CASE Crash
  BY <1>31, StartedIsOne DEF Crash, ManagerTypeOK, Alone, Modes, Working, Stopped, Runtimes
<1>32. QED
  BY <1>0, <1>1, <1>2, <1>3, <1>4, <1>5, <1>6, <1>7, <1>8, <1>9, <1>10, <1>11, <1>12, <1>13, <1>14,
     <1>15, <1>16, <1>17, <1>18, <1>19, <1>20, <1>21, <1>22, <1>23, <1>24, <1>25, <1>26, <1>27,
     <1>28, <1>29, <1>30, <1>31 DEF ManagerNext, Run, RunServer

\* Every step keeps what is known of the status under way.
LEMMA ReportedStep ==
    ASSUME ManagerTypeOK, Working, Modes, Supervised, Reported, [ManagerNext]_vars
    PROVE  Reported'
<1> USE ManagerAssumption DEF Reported
\* The four things a step may do to the servers and to the status.
<1>1. ASSUME UNCHANGED <<servers, report>> PROVE Reported'
  BY <1>1
<1>2. ASSUME NEW s \in servers, NEW p, Become(s, [s EXCEPT !.phase = p]), UNCHANGED report
      PROVE  Reported'
  BY <1>2 DEF Become, ManagerTypeOK, Servers
<1>3. ASSUME StopServer PROVE Reported'
  BY <1>3, StopServerStops DEF ManagerTypeOK
<1>4. ASSUME NEW m \in Runtimes, StartServer(m) PROVE Reported'
  BY <1>4, StartServerStarts DEF ManagerTypeOK
<1>5. CASE CopyStatus
  <2>1. pc \notin Switch /\ runtime \in Models
    BY <1>5 DEF CopyStatus, Offers, Modes
  <2>2. pc \in Steady \/ pc = "entering"
    BY <2>1 DEF ManagerTypeOK, Modes, Places, Switch, Steady
  <2>3. \A s \in servers : s.serves = runtime
    BY <2>2 DEF Supervised, Serving
  <2>4. QED
    BY <1>5, <2>3 DEF CopyStatus, ReportUnchanged
<1>6. CASE Probe \/ Crash
  BY <1>6 DEF Probe, Crash
<1>7. CASE UNCHANGED vars \/ ControllerDecides \/ SetDesired \/ Take \/ Skip \/ Begin \/ Fetch
  BY <1>1, <1>7 DEF vars, ControllerDecides, SetDesired, Take, Skip, Begin, Fetch
<1>8. CASE MakeRoom \/ DownloadBreaks \/ DownloadGoesOn \/ DownloadWhole \/ DownloadMismatch
           \/ DownloadRefused \/ Rename
  BY <1>1, <1>8 DEF MakeRoom, DownloadBreaks, DownloadGoesOn, DownloadWhole, DownloadMismatch,
                    DownloadRefused, Rename, FilesStep
<1>9. CASE DoesNotFit \/ LoadSucceeds \/ Fail \/ BackoffEnds
  BY <1>1, <1>9 DEF DoesNotFit, LoadSucceeds, Fail, BackoffEnds
<1>10. ASSUME NEW s \in servers, Spawn(s) \/ Healthy(s) \/ Exit(s) PROVE Reported'
  BY <1>2, <1>10 DEF Spawn, Healthy, Exit, ServerUnchanged
<1>11. ASSUME NEW s \in servers, Ended(s) PROVE Reported'
  BY <1>11 DEF Ended, ServerUnchanged
<1>12. CASE LeaveRPC \/ EnterRPC \/ Fits \/ LoadTimesOut
  BY <1>1, <1>3, <1>12 DEF LeaveRPC, EnterRPC, Fits, LoadTimesOut
<1>13. CASE LeftRPC \/ EnteredRPC
  BY <1>4, <1>13, NothingTyped DEF LeftRPC, EnteredRPC, ManagerTypeOK
<1>14. CASE Load
  BY <1>4, <1>14 DEF Load, Working, Switch, Runtimes
<1>15. CASE Fallback
  BY <1>4, <1>15 DEF Fallback, Runtimes
<1>16. QED
  BY <1>5, <1>6, <1>7, <1>8, <1>9, <1>10, <1>11, <1>12, <1>13, <1>14, <1>15
     DEF ManagerNext, Run, RunServer

\* Every step keeps what is taken for applied in line with what runs.
LEMMA ConsistentStep ==
    ASSUME ManagerTypeOK, Working, Modes, Consistent, [ManagerNext]_vars
    PROVE  Consistent'
<1> USE ManagerAssumption DEF Goto, outside, storage, Consistent, Applies
<1>0. CASE CopyStatus \/ Probe
  BY <1>0 DEF CopyStatus, Probe, ReportUnchanged
<1>1. CASE UNCHANGED vars
  BY <1>1 DEF vars
<1>2. CASE ControllerDecides
  BY <1>2 DEF ControllerDecides
<1>3. CASE SetDesired
  BY <1>3 DEF SetDesired
<1>4. ASSUME NEW s \in servers, Spawn(s) PROVE Consistent'
  BY <1>4 DEF Spawn, ServerUnchanged
<1>5. ASSUME NEW s \in servers, Ended(s) PROVE Consistent'
  BY <1>5 DEF Ended, ServerUnchanged
<1>6. ASSUME NEW s \in servers, Healthy(s) PROVE Consistent'
  BY <1>6 DEF Healthy, ServerUnchanged
<1>7. ASSUME NEW s \in servers, Exit(s) PROVE Consistent'
  BY <1>7 DEF Exit, ServerUnchanged
<1>8. CASE Take
  BY <1>8 DEF Take, ManagerTypeOK, Working, Modes, Switch, NoState, Runtimes, Applied
<1>9. CASE LeaveRPC
  BY <1>9 DEF LeaveRPC, AfterLeave, ManagerTypeOK, Working, Modes, Switch, NoState, Runtimes,
     Applied
<1>10. CASE LeftRPC
  BY <1>10 DEF LeftRPC, AfterLeave, ManagerTypeOK, Working, Modes, Switch, NoState, Runtimes,
     Applied
<1>11. CASE EnterRPC
  BY <1>11 DEF EnterRPC, Noted, ManagerTypeOK, Working, Modes, Switch, NoState, Runtimes,
     Applied
<1>12. CASE EnteredRPC
  BY <1>12 DEF EnteredRPC, ManagerTypeOK, Working, Modes, Switch, NoState, Runtimes, Applied
<1>13. CASE Skip
  BY <1>13 DEF Skip, SwitchUnchanged, ManagerTypeOK, Working, Modes, Switch, NoState, Runtimes,
     Applied
<1>14. CASE Begin
  BY <1>14 DEF Begin, SwitchUnchanged, ManagerTypeOK, Working, Modes, Switch, NoState, Runtimes,
     Applied
<1>15. CASE Fetch
  BY <1>15 DEF Fetch, SwitchUnchanged, ManagerTypeOK, Working, Modes, Switch, NoState, Runtimes,
     Applied
<1>16. CASE MakeRoom
  <2>1. PICK p \in {"download", "fail"} : FilesStep(p)
    BY <1>16 DEF MakeRoom
  <2>2. QED
    BY <1>16, <2>1 DEF MakeRoom, FilesStep, Evictable, SwitchUnchanged, ManagerTypeOK, Working,
       Modes, Switch, NoState, Applied
<1>17. CASE DownloadBreaks
  BY <1>17 DEF DownloadBreaks, FilesStep, SwitchUnchanged, ManagerTypeOK, Working, Modes,
     Switch, NoState, Runtimes, Applied
<1>18. CASE DownloadGoesOn
  BY <1>18 DEF DownloadGoesOn, FilesStep, SwitchUnchanged, ManagerTypeOK, Working, Modes,
     Switch, NoState, Runtimes, Applied
<1>19. CASE DownloadWhole
  BY <1>19 DEF DownloadWhole, FilesStep, SwitchUnchanged, ManagerTypeOK, Working, Modes, Switch,
     NoState, Runtimes, Applied
<1>20. CASE DownloadMismatch
  BY <1>20 DEF DownloadMismatch, FilesStep, SwitchUnchanged, ManagerTypeOK, Working, Modes,
     Switch, NoState, Runtimes, Applied
<1>21. CASE DownloadRefused
  BY <1>21 DEF DownloadRefused, FilesStep, SwitchUnchanged, ManagerTypeOK, Working, Modes,
     Switch, NoState, Runtimes, Applied
<1>22. CASE Rename
  BY <1>22 DEF Rename, FilesStep, SwitchUnchanged, ManagerTypeOK, Working, Modes, Switch,
     NoState, Runtimes, Applied
<1>23. CASE Fits
  BY <1>23 DEF Fits, SwitchUnchanged, ManagerTypeOK, Working, Modes, Switch, NoState, Runtimes,
     Applied
<1>24. CASE DoesNotFit
  <2>1. CASE runtime = d.model /\ Apply
    BY <1>24, <2>1 DEF DoesNotFit, SwitchUnchanged, ManagerTypeOK, Working, Modes, Switch,
       Applied, Apply
  <2>2. CASE runtime # d.model
    BY <1>24, <2>2 DEF DoesNotFit, SwitchUnchanged, ManagerTypeOK, Working, Modes, Switch,
       Applied
  <2>3. QED
    BY <1>24, <2>1, <2>2 DEF DoesNotFit
<1>25. CASE Load
  BY <1>25 DEF Load, SwitchUnchanged, ManagerTypeOK, Working, Modes, Switch, NoState, Runtimes,
     Applied
<1>26. CASE LoadSucceeds
  BY <1>26 DEF LoadSucceeds, Apply, SwitchUnchanged, ManagerTypeOK, Working, Modes, Switch,
     NoState, Runtimes, Applied
<1>27. CASE LoadTimesOut
  BY <1>27 DEF LoadTimesOut, SwitchUnchanged, ManagerTypeOK, Working, Modes, Switch, NoState,
     Runtimes, Applied
<1>28. CASE Fallback
  BY <1>28 DEF Fallback, SwitchUnchanged, ManagerTypeOK, Working, Modes, Switch, NoState,
     Runtimes, Applied
<1>29. CASE Fail
  BY <1>29 DEF Fail, SwitchUnchanged, ManagerTypeOK, Working, Modes, Switch, NoState, Runtimes,
     Applied
<1>30. CASE BackoffEnds
  BY <1>30 DEF BackoffEnds
<1>31. CASE Crash
  BY <1>31 DEF Crash, ManagerTypeOK, Working, Modes, Switch, NoState, Runtimes, Applied
<1>32. QED
  BY <1>0, <1>1, <1>2, <1>3, <1>4, <1>5, <1>6, <1>7, <1>8, <1>9, <1>10, <1>11, <1>12, <1>13, <1>14,
     <1>15, <1>16, <1>17, <1>18, <1>19, <1>20, <1>21, <1>22, <1>23, <1>24, <1>25, <1>26, <1>27,
     <1>28, <1>29, <1>30, <1>31 DEF ManagerNext, Run, RunServer

\* Every step keeps a model to run.
LEMMA KeepsServingStep ==
    ASSUME ManagerTypeOK, Working, Modes, Consistent, KeepsServing, [ManagerNext]_vars
    PROVE  KeepsServing'
<1> USE ManagerAssumption DEF Goto, outside, storage, KeepsServing, Kept
<1>0. CASE CopyStatus \/ Probe
  BY <1>0 DEF CopyStatus, Probe, ReportUnchanged
<1>1. CASE UNCHANGED vars
  BY <1>1 DEF vars
<1>2. CASE ControllerDecides
  BY <1>2 DEF ControllerDecides
<1>3. CASE SetDesired
  BY <1>3 DEF SetDesired
<1>4. ASSUME NEW s \in servers, Spawn(s) PROVE KeepsServing'
  BY <1>4 DEF Spawn, ServerUnchanged
<1>5. ASSUME NEW s \in servers, Ended(s) PROVE KeepsServing'
  BY <1>5 DEF Ended, ServerUnchanged
<1>6. ASSUME NEW s \in servers, Healthy(s) PROVE KeepsServing'
  BY <1>6 DEF Healthy, ServerUnchanged
<1>7. ASSUME NEW s \in servers, Exit(s) PROVE KeepsServing'
  BY <1>7 DEF Exit, ServerUnchanged
<1>8. CASE Take
  BY <1>8 DEF Take, ManagerTypeOK, Working, Modes, Consistent, Switch, NoState, Runtimes
<1>9. CASE LeaveRPC
  BY <1>9 DEF LeaveRPC, AfterLeave, ManagerTypeOK, Working, Modes, Consistent, Switch, NoState,
     Runtimes
<1>10. CASE LeftRPC
  BY <1>10 DEF LeftRPC, AfterLeave, ManagerTypeOK, Working, Modes, Consistent, Switch, NoState,
     Runtimes
<1>11. CASE EnterRPC
  BY <1>11 DEF EnterRPC, Noted, ManagerTypeOK, Working, Modes, Consistent, Switch, NoState,
     Runtimes
<1>12. CASE EnteredRPC
  BY <1>12 DEF EnteredRPC, ManagerTypeOK, Working, Modes, Consistent, Switch, NoState, Runtimes
<1>13. CASE Skip
  BY <1>13 DEF Skip, SwitchUnchanged, ManagerTypeOK, Working, Modes, Consistent, Switch,
     NoState, Runtimes
<1>14. CASE Begin
  BY <1>14 DEF Begin, SwitchUnchanged, ManagerTypeOK, Working, Modes, Consistent, Switch,
     NoState, Runtimes
<1>15. CASE Fetch
  BY <1>15 DEF Fetch, SwitchUnchanged, ManagerTypeOK, Working, Modes, Consistent, Switch,
     NoState, Runtimes
<1>16. CASE MakeRoom
  <2>1. PICK p \in {"download", "fail"} : FilesStep(p)
    BY <1>16 DEF MakeRoom
  <2>2. QED
    BY <1>16, <2>1 DEF MakeRoom, FilesStep, Evictable, SwitchUnchanged, ManagerTypeOK, Working,
       Modes, Switch
<1>17. CASE DownloadBreaks
  BY <1>17 DEF DownloadBreaks, FilesStep, SwitchUnchanged, ManagerTypeOK, Working, Modes,
     Consistent, Switch, NoState, Runtimes
<1>18. CASE DownloadGoesOn
  BY <1>18 DEF DownloadGoesOn, FilesStep, SwitchUnchanged, ManagerTypeOK, Working, Modes,
     Consistent, Switch, NoState, Runtimes
<1>19. CASE DownloadWhole
  BY <1>19 DEF DownloadWhole, FilesStep, SwitchUnchanged, ManagerTypeOK, Working, Modes,
     Consistent, Switch, NoState, Runtimes
<1>20. CASE DownloadMismatch
  BY <1>20 DEF DownloadMismatch, FilesStep, SwitchUnchanged, ManagerTypeOK, Working, Modes,
     Consistent, Switch, NoState, Runtimes
<1>21. CASE DownloadRefused
  BY <1>21 DEF DownloadRefused, FilesStep, SwitchUnchanged, ManagerTypeOK, Working, Modes,
     Consistent, Switch, NoState, Runtimes
<1>22. CASE Rename
  BY <1>22 DEF Rename, FilesStep, SwitchUnchanged, ManagerTypeOK, Working, Modes, Consistent,
     Switch, NoState, Runtimes
<1>23. CASE Fits
  BY <1>23 DEF Fits, SwitchUnchanged, ManagerTypeOK, Working, Modes, Consistent, Switch,
     NoState, Runtimes
<1>24. CASE DoesNotFit
  BY <1>24 DEF DoesNotFit, Apply, SwitchUnchanged, ManagerTypeOK, Working, Modes, Consistent,
     Switch, NoState, Runtimes
<1>25. CASE Load
  BY <1>25 DEF Load, SwitchUnchanged, ManagerTypeOK, Working, Modes, Consistent, Switch,
     NoState, Runtimes
<1>26. CASE LoadSucceeds
  BY <1>26 DEF LoadSucceeds, Apply, SwitchUnchanged, ManagerTypeOK, Working, Modes, Consistent,
     Switch, NoState, Runtimes
<1>27. CASE LoadTimesOut
  BY <1>27 DEF LoadTimesOut, SwitchUnchanged, ManagerTypeOK, Working, Modes, Consistent, Switch,
     NoState, Runtimes
<1>28. CASE Fallback
  BY <1>28 DEF Fallback, SwitchUnchanged, ManagerTypeOK, Working, Modes, Consistent, Switch,
     NoState, Runtimes
<1>29. CASE Fail
  BY <1>29 DEF Fail, SwitchUnchanged, ManagerTypeOK, Working, Modes, Consistent, Switch,
     NoState, Runtimes
<1>30. CASE BackoffEnds
  BY <1>30 DEF BackoffEnds
<1>31. CASE Crash
  BY <1>31 DEF Crash, ManagerTypeOK, Working, Modes, Consistent, Switch, NoState, Runtimes
<1>32. QED
  BY <1>0, <1>1, <1>2, <1>3, <1>4, <1>5, <1>6, <1>7, <1>8, <1>9, <1>10, <1>11, <1>12, <1>13, <1>14,
     <1>15, <1>16, <1>17, <1>18, <1>19, <1>20, <1>21, <1>22, <1>23, <1>24, <1>25, <1>26, <1>27,
     <1>28, <1>29, <1>30, <1>31 DEF ManagerNext, Run, RunServer

-----------------------------------------------------------------------------
(* The theorems *)

\* The invariant holds at the start.
LEMMA InvInit == ManagerInit => ManagerInv
<1> SUFFICES ASSUME ManagerInit PROVE ManagerInv
  OBVIOUS
<1> USE ManagerAssumption DEF ManagerInit, NoState
<1>1. config.static \in Runtimes /\ config.static # RPC
  BY DEF Runtimes
<1>2. ManagerTypeOK
  <2>1. part \in [Models -> Parts]
    BY DEF Parts
  <2>2. served \in BOOLEAN
    BY Zenon
  <2>3. servers \in SUBSET Servers
    BY <1>1, StartedIsOne
  <2>4. /\ prev \in [runtime : Runtimes, lastApplied : Applied]
        /\ preRPC \in [runtime : Runtimes, lastApplied : Applied]
    BY NothingTyped
  <2>5. /\ config \in Configs /\ files \in [Models -> Versions \cup {Nothing}]
        /\ want \in Applied /\ desired \in Applied /\ d \in Applied /\ lastApplied \in Applied
        /\ backoff \in Applied /\ pc \in Places /\ orphan \in Runtimes
        /\ report \in Reports \cup {Nothing}
    BY NothingTyped
  <2>6. lastErr \in BOOLEAN /\ switching \in BOOLEAN
    BY Zenon
  <2>7. runtime \in Runtimes /\ crashes \in 0..MaxCrashes
    BY <1>1
  <2> HIDE DEF ManagerInit
  <2>8. QED
    BY <2>1, <2>2, <2>3, <2>4, <2>5, <2>6, <2>7 DEF ManagerTypeOK
<1>3. Working /\ Modes
  BY <1>1 DEF Working, Modes, Switch
<1>4. Supervised /\ Reported
  BY <1>1, StartedIsOne DEF Supervised, Alone, Serving, Ending, Steady, Reported
<1>5. Consistent /\ KeepsServing
  BY <1>1 DEF Consistent, Applies, KeepsServing, Kept, Runtimes
<1>6. QED
  BY <1>2, <1>3, <1>4, <1>5 DEF ManagerInv

\* The invariant holds in every reachable state.
THEOREM InvHolds == ManagerSpec => []ManagerInv
<1>1. ManagerInv /\ [ManagerNext]_vars => ManagerInv'
  BY TypeStep, WorkingStep, ModesStep, SupervisedStep, ReportedStep, ConsistentStep,
     KeepsServingStep
     DEF ManagerInv
<1>2. QED
  BY <1>1, InvInit, PTL DEF ManagerSpec

\* The manager's state keeps its types, whatever the controller wants and
\* wherever the agent crashes.
THEOREM ManagerTypeCorrect == ManagerSpec => []ManagerTypeOK
<1>1. ManagerInv => ManagerTypeOK
  BY DEF ManagerInv
<1>2. QED
  BY <1>1, InvHolds, PTL

\* No two inference servers ever share the port of a phone.
THEOREM ServersNeverOverlap == ManagerSpec => []OneServer
<1>1. ManagerInv => OneServer
  BY DEF ManagerInv, Supervised, Alone, OneServer
<1>2. QED
  BY <1>1, InvHolds, PTL

\* Between two reconciliations the manager knows what runs.
THEOREM ManagerKnowsWhatRuns == ManagerSpec => []ViewIsTrue
<1>1. ASSUME ManagerInv, pc = "idle"
      PROVE  {s.serves : s \in servers} = {runtime} \ {Nothing} /\ \A s \in servers : ~s.stop
  <2>1. Serving(runtime) /\ servers \in SUBSET Servers
    BY <1>1 DEF ManagerInv, Supervised, Steady, ManagerTypeOK
  <2>2. \A s \in servers : s.serves = runtime /\ runtime # Nothing
    BY <2>1, ManagerAssumption DEF Serving, Servers
  <2>3. QED
    BY <2>1, <2>2 DEF Serving
<1>2. ManagerInv => ViewIsTrue
  BY <1>1 DEF ManagerInv, ViewIsTrue, Consistent, Applies
<1>3. QED
  BY <1>2, InvHolds, PTL

\* A phone that has had a working model always has one to run, or to go back
\* to, and its file.
THEOREM WorkingModelIsKept == ManagerSpec => []KeepsServing
<1>1. ManagerInv => KeepsServing
  BY DEF ManagerInv
<1>2. QED
  BY <1>1, InvHolds, PTL

\* What a heartbeat lets the gateway use answers with the reported model,
\* unless a server of another model was started between the copy of the status
\* and the probe of /health, or the process of a crashed agent still answers
\* (Manager.Status, Runtime.Status).
THEOREM ReportsAreTrue == ManagerSpec => []ReportIsTrue
<1>1. ManagerInv => ReportIsTrue
  <2>1. ASSUME Answers, orphan = Nothing PROVE \E s \in servers : s.phase = "ok"
    BY <2>1, ManagerAssumption DEF Answers
  <2>2. QED
    BY <2>1 DEF ManagerInv, Reported, ReportIsTrue
<1>2. QED
  BY <1>1, InvHolds, PTL
=============================================================================
