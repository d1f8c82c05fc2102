-------------------------- MODULE MembershipProofs --------------------------
(* The registry's invariants, for any set of nodes, aliases and timeouts,    *)
(* and then what holds of any number of agents, faults and interleavings     *)
(* that use it when no abandoned registration arrives late.                  *)
EXTENDS Membership, TLAPS

(***************************************************************************)
(* The inductive invariant. ActiveIsBenchmarked, LatenessIsReal and        *)
(* FileIsCurrent are inductive beside TypeOK. That names are unambiguous   *)
(* is not, as stated: Lookup says nothing about aliases of nodes it        *)
(* shadows. AliasesDistinct is what SetAlias maintains, in memory and in   *)
(* the file, and ShadowsAreKnown what it and Register do for ids.          *)
(***************************************************************************)
Distinct(f) == \A m, n \in Nodes : m # n /\ f[m] # NoAlias => f[m] # f[n]
AliasesDistinct == Distinct(alias) /\ Distinct(savedAlias)

\* A known node whose id is another's alias registered when it was one.
ShadowsAreKnown ==
    \A m, n \in Nodes : m # n /\ Known(n) /\ alias[m] = n => n \in shadowed

RegistryInv ==
    /\ TypeOK
    /\ ActiveIsBenchmarked
    /\ LatenessIsReal
    /\ AliasesDistinct
    /\ ShadowsAreKnown
    /\ FileIsCurrent

\* Type correctness of every registry step.
LEMMA StepTyped == TypeOK /\ [Next]_regVars => TypeOK'
<1> SUFFICES ASSUME TypeOK, [Next]_regVars PROVE TypeOK'
  OBVIOUS
<1> USE RegistryAssumption DEF TypeOK, States
<1>1. ASSUME NEW n \in Nodes, Register(n) PROVE TypeOK'
  BY <1>1 DEF Register
<1>2. ASSUME NEW n \in Nodes, ReportBenchmark(n) PROVE TypeOK'
  BY <1>2 DEF ReportBenchmark
<1>3. ASSUME NEW n \in Nodes, NEW r \in BOOLEAN, Heartbeat(n, r) PROVE TypeOK'
  BY <1>3 DEF Heartbeat, Resumed
<1>4. CASE Sweep
  BY <1>4 DEF Sweep, Demoted
<1>5. CASE Tick
  BY <1>5 DEF Tick
<1>6. ASSUME NEW n \in Nodes, Forget(n) PROVE TypeOK'
  BY <1>6 DEF Forget
<1>7. ASSUME NEW n \in Nodes, NEW d \in BOOLEAN, SetDrained(n, d) PROVE TypeOK'
  BY <1>7 DEF SetDrained
<1>8. ASSUME NEW n \in Nodes, NEW a \in AliasNames \cup {NoAlias}, SetAlias(n, a)
      PROVE TypeOK'
  BY <1>8 DEF SetAlias
<1>9. CASE SaveRouting
  <2>1. unsaved' \in 0..MaxUnsaved
    BY <1>9 DEF SaveRouting
  <2>2. saveFailed' \in BOOLEAN
    BY <1>9, Zenon DEF SaveRouting
  <2>3. savedAlias' \in [Nodes -> AliasNames \cup {NoAlias}]
    BY <1>9 DEF SaveRouting
  <2>4. QED
    BY <1>9, <2>1, <2>2, <2>3, Zenon DEF SaveRouting
<1>10. CASE SaveOtherChange
  BY <1>10 DEF SaveOtherChange
<1>11. CASE Restart
  <2>1. /\ unsaved' \in 0..MaxUnsaved
        /\ age' \in [Nodes -> 0..OfflineAfter]
    BY <1>11 DEF Restart
  <2>2. /\ state' \in [Nodes -> States]
        /\ bench' \in [Nodes -> BOOLEAN]
        /\ ready' \in [Nodes -> BOOLEAN]
        /\ drained' \in SUBSET Nodes
        /\ saveFailed' \in BOOLEAN
        /\ shadowed' \in SUBSET Nodes
    BY <1>11, Zenon DEF Restart
  <2>3. QED
    BY <1>11, <2>1, <2>2, Zenon DEF Restart
<1>12. CASE UNCHANGED regVars
  BY <1>12 DEF regVars
<1>13. QED
  BY <1>1, <1>2, <1>3, <1>4, <1>5, <1>6, <1>7, <1>8, <1>9, <1>10, <1>11, <1>12
     DEF Next, NodeStep, AdminStep

\* The lifecycle part: states follow benchmarks and silence.
LEMMA StepLifecycle ==
    TypeOK /\ ActiveIsBenchmarked /\ LatenessIsReal /\ [Next]_regVars
        => ActiveIsBenchmarked' /\ LatenessIsReal'
<1> SUFFICES ASSUME TypeOK, ActiveIsBenchmarked, LatenessIsReal, [Next]_regVars
             PROVE  ActiveIsBenchmarked' /\ LatenessIsReal'
  OBVIOUS
<1> USE RegistryAssumption DEF TypeOK, States, ActiveIsBenchmarked, LatenessIsReal, Known
<1>1. ASSUME NEW n \in Nodes, Register(n)
      PROVE ActiveIsBenchmarked' /\ LatenessIsReal'
  BY <1>1 DEF Register
<1>2. ASSUME NEW n \in Nodes, ReportBenchmark(n)
      PROVE ActiveIsBenchmarked' /\ LatenessIsReal'
  BY <1>2 DEF ReportBenchmark
<1>3. ASSUME NEW n \in Nodes, NEW r \in BOOLEAN, Heartbeat(n, r)
      PROVE ActiveIsBenchmarked' /\ LatenessIsReal'
  BY <1>3 DEF Heartbeat, Resumed
<1>4. CASE Sweep
  BY <1>4 DEF Sweep, Demoted
<1>5. CASE Tick
  BY <1>5 DEF Tick
<1>6. ASSUME NEW n \in Nodes, Forget(n)
      PROVE ActiveIsBenchmarked' /\ LatenessIsReal'
  BY <1>6 DEF Forget
<1>7. CASE Restart
  BY <1>7 DEF Restart
<1>8. CASE UNCHANGED <<state, bench, age>>
  BY <1>8
<1>9. QED
  BY <1>1, <1>2, <1>3, <1>4, <1>5, <1>6, <1>7, <1>8
     DEF Next, NodeStep, AdminStep, SetDrained, SetAlias, SaveRouting,
         SaveOtherChange, regVars

\* The alias part: names stay distinct in memory and in the file, and the
\* file is current when no handler is between its two critical sections.
LEMMA StepAliases ==
    TypeOK /\ AliasesDistinct /\ FileIsCurrent /\ [Next]_regVars
        => AliasesDistinct' /\ FileIsCurrent'
<1> SUFFICES ASSUME TypeOK, AliasesDistinct, FileIsCurrent, [Next]_regVars
             PROVE  AliasesDistinct' /\ FileIsCurrent'
  OBVIOUS
<1> USE RegistryAssumption DEF TypeOK, AliasesDistinct, Distinct, FileIsCurrent
<1>1. ASSUME NEW n \in Nodes, NEW a \in AliasNames \cup {NoAlias}, SetAlias(n, a)
      PROVE AliasesDistinct' /\ FileIsCurrent'
  BY <1>1 DEF SetAlias, AliasTaken
<1>2. CASE SaveRouting
  BY <1>2 DEF SaveRouting
<1>3. CASE SaveOtherChange
  BY <1>3 DEF SaveOtherChange
<1>4. CASE Restart
  BY <1>4 DEF Restart
<1>5. CASE UNCHANGED <<alias, savedAlias, unsaved, saveFailed>>
  BY <1>5
<1>6. QED
  BY <1>1, <1>2, <1>3, <1>4, <1>5
     DEF Next, NodeStep, AdminStep, Register, ReportBenchmark, Heartbeat, Sweep,
         Tick, Forget, SetDrained, regVars

\* The ids: SetAlias refuses the id of a known node, and Register takes note.
LEMMA StepShadows == TypeOK /\ ShadowsAreKnown /\ [Next]_regVars => ShadowsAreKnown'
<1> SUFFICES ASSUME TypeOK, ShadowsAreKnown, [Next]_regVars PROVE ShadowsAreKnown'
  OBVIOUS
<1> USE RegistryAssumption DEF TypeOK, States, ShadowsAreKnown, Known
<1>1. ASSUME NEW n \in Nodes, Register(n) PROVE ShadowsAreKnown'
  BY <1>1 DEF Register
<1>2. ASSUME NEW n \in Nodes, ReportBenchmark(n) PROVE ShadowsAreKnown'
  BY <1>2 DEF ReportBenchmark
<1>3. ASSUME NEW n \in Nodes, NEW r \in BOOLEAN, Heartbeat(n, r) PROVE ShadowsAreKnown'
  BY <1>3 DEF Heartbeat, Resumed
<1>4. CASE Sweep
  BY <1>4 DEF Sweep, Demoted
<1>5. ASSUME NEW n \in Nodes, Forget(n) PROVE ShadowsAreKnown'
  BY <1>5 DEF Forget
<1>6. ASSUME NEW n \in Nodes, NEW a \in AliasNames \cup {NoAlias}, SetAlias(n, a)
      PROVE ShadowsAreKnown'
  BY <1>6 DEF SetAlias, AliasTaken
<1>7. CASE Restart
  BY <1>7 DEF Restart
<1>8. CASE UNCHANGED <<state, alias, shadowed>>
  BY <1>8
<1>9. QED
  BY <1>1, <1>2, <1>3, <1>4, <1>5, <1>6, <1>7, <1>8
     DEF Next, NodeStep, AdminStep, Tick, SetDrained, SaveRouting, SaveOtherChange, regVars

\* The registry's inductive invariant holds in every behaviour.
THEOREM RegistryInvariant == Spec => []RegistryInv
<1>1. ASSUME Init PROVE RegistryInv
  <2>1. /\ unsaved \in 0..MaxUnsaved
        /\ age \in [Nodes -> 0..OfflineAfter]
    BY <1>1, RegistryAssumption DEF Init
  <2>2. /\ state \in [Nodes -> States]
        /\ bench \in [Nodes -> BOOLEAN]
        /\ ready \in [Nodes -> BOOLEAN]
        /\ drained \in SUBSET Nodes
        /\ alias \in [Nodes -> AliasNames \cup {NoAlias}]
        /\ savedAlias \in [Nodes -> AliasNames \cup {NoAlias}]
        /\ saveFailed \in BOOLEAN
        /\ shadowed \in SUBSET Nodes
    BY <1>1, Zenon DEF Init, States
  <2>3. ActiveIsBenchmarked /\ LatenessIsReal
    BY <1>1 DEF Init, ActiveIsBenchmarked, LatenessIsReal
  <2>4. AliasesDistinct /\ FileIsCurrent
    BY <1>1 DEF Init, AliasesDistinct, Distinct, FileIsCurrent
  <2>5. ShadowsAreKnown
    BY <1>1 DEF Init, ShadowsAreKnown, Known
  <2>6. QED
    BY <2>1, <2>2, <2>3, <2>4, <2>5 DEF RegistryInv, TypeOK
<1>2. RegistryInv /\ [Next]_regVars => RegistryInv'
  BY StepTyped, StepLifecycle, StepAliases, StepShadows DEF RegistryInv
<1>3. QED
  BY <1>1, <1>2, PTL DEF Spec

\* Every reachable registry state has the declared types.
THEOREM TypeCorrect == Spec => []TypeOK
<1>1. RegistryInv => TypeOK
  BY DEF RegistryInv
<1>2. QED
  BY <1>1, RegistryInvariant, PTL

\* No order of registrations, reports, heartbeats and sweeps makes an
\* unmeasured node ACTIVE.
THEOREM ActiveNodesAreBenchmarked == Spec => []ActiveIsBenchmarked
<1>1. RegistryInv => ActiveIsBenchmarked
  BY DEF RegistryInv
<1>2. QED
  BY <1>1, RegistryInvariant, PTL

\* SUSPECT and OFFLINE are never stale, for any pair of timeouts.
THEOREM DemotionsAreReal == Spec => []LatenessIsReal
<1>1. RegistryInv => LatenessIsReal
  BY DEF RegistryInv
<1>2. QED
  BY <1>1, RegistryInvariant, PTL

\* Lookup has at most one answer for any name, also in a controller restarted
\* from the routing file, and a pool has at most one member by each name it
\* lists, unless that is the id of a node which registered when it was
\* another's alias.
THEOREM NamesAddressOneNode == Spec => []NamesAreUnambiguous
<1>1. ASSUME RegistryInv, NEW name \in AliasNames \cup Nodes, NEW m \in Nodes, NEW n \in Nodes, m # n
      PROVE  /\ ~(m \in Resolutions(name) /\ n \in Resolutions(name))
             /\ m \in Members(name) /\ n \in Members(name) => name \in shadowed
             /\ ~(savedAlias[m] = name /\ savedAlias[n] = name)
  <2>1. name # NoAlias
    BY RegistryAssumption
  <2>2. ~(alias[m] = name /\ alias[n] = name) /\ ~(savedAlias[m] = name /\ savedAlias[n] = name)
    BY <1>1, <2>1 DEF RegistryInv, AliasesDistinct, Distinct
  <2>3. QED
    BY <1>1, <2>2 DEF RegistryInv, ShadowsAreKnown, Resolutions, Members
<1>2. ASSUME RegistryInv PROVE NamesAreUnambiguous
  BY <1>1, <1>2 DEF NamesAreUnambiguous, Resolutions, Members
<1>3. QED
  BY <1>2, RegistryInvariant, PTL

\* Overlapping saves of the routing file never leave an older alias set.
THEOREM RoutingFileIsCurrent == Spec => []FileIsCurrent
<1>1. RegistryInv => FileIsCurrent
  BY DEF RegistryInv
<1>2. QED
  BY <1>1, RegistryInvariant, PTL

-----------------------------------------------------------------------------
(* The registry with its agents *)

\* Every step of the composition is a step of the registry or leaves it alone.
LEMMA StepsRefineRegistry == [MembershipNext]_allVars => [Next]_regVars
<1> SUFFICES ASSUME [MembershipNext]_allVars PROVE [Next]_regVars
  OBVIOUS
<1>1. ASSUME NEW n \in Nodes, Start(n) \/ AgentStep(n) PROVE UNCHANGED regVars
  BY <1>1 DEF Start, AgentStep, SendRegister, Registered, SendBenchmark,
              BenchmarkAccepted, SendHeartbeat, HeartbeatAccepted,
              HeartbeatFailed, EndSession, Goto
<1>2. ASSUME NEW n \in Nodes, NEW c, Effect(n, c) PROVE Next
  BY <1>2 DEF Effect, Next, NodeStep
<1>3. ASSUME NEW n \in Nodes, Handle(n) PROVE [Next]_regVars
  BY <1>2, <1>3 DEF Handle
<1>4. ASSUME NEW n \in Nodes, NEW c \in Calls, HandleLate(n, c) PROVE [Next]_regVars
  BY <1>2, <1>4 DEF HandleLate
<1>5. ASSUME NEW n \in Nodes, FailCall(n) \/ Crash(n) PROVE UNCHANGED regVars
  BY <1>5 DEF FailCall, Crash
<1>6. ASSUME NEW n \in Nodes, ForgetNode(n) PROVE Next
  BY <1>6 DEF ForgetNode, Next, AdminStep
<1>7. CASE RestartController
  BY <1>7 DEF RestartController, Next
<1>8. CASE (Sweep \/ Tick) /\ UNCHANGED <<agentVars, faults>>
  BY <1>8 DEF Next
<1>9. CASE UNCHANGED allVars
  BY <1>9 DEF allVars
<1>10. QED
  BY <1>1, <1>3, <1>4, <1>5, <1>6, <1>7, <1>8, <1>9 DEF MembershipNext

\* What agents, calls, late calls, crashes and restarts do to the controller is
\* what the registry's own specification allows, for any number of nodes and
\* faults (Server.handleRegister, handleBenchmark, handleHeartbeat).
THEOREM MembershipImplementsRegistry == MembershipSpec => Spec
<1>1. MembershipInit => Init
  BY DEF MembershipInit
<1>2. QED
  BY <1>1, StepsRefineRegistry, PTL DEF MembershipSpec, Spec

\* The registry's invariant carries over to the composition.
LEMMA RegistryInvHolds == MembershipSpec => []RegistryInv
BY MembershipImplementsRegistry, RegistryInvariant, PTL

(***************************************************************************)
(* HeartbeatsAreMeasured is not inductive: it needs that an accepted       *)
(* benchmark report is still there when the agent reads the answer, and    *)
(* that no abandoned registration is under way.                            *)
(***************************************************************************)
Places == Calls \cup {"down", "backoff", "measure", "wait"}
Answers == {"none", "sent", "ok", "unknown", "failed"}

SessionTyped ==
    /\ pc \in [Nodes -> Places]
    /\ call \in [Nodes -> Answers]

SessionInv ==
    /\ late \in [Nodes -> SUBSET LateCalls]
    /\ \A n \in Nodes :
          pc[n] = "benchmark" /\ call[n] = "ok" /\ Known(n) => bench[n]
    /\ HeartbeatsAreMeasured

\* The places and answers of a session stay in their sets.
LEMMA SessionStepTyped == SessionTyped /\ [MembershipNext]_allVars => SessionTyped'
<1> SUFFICES ASSUME SessionTyped, [MembershipNext]_allVars PROVE SessionTyped'
  OBVIOUS
<1> USE DEF SessionTyped, Places, Answers, Calls
<1>1. ASSUME NEW n \in Nodes, Start(n) \/ AgentStep(n) PROVE SessionTyped'
  BY <1>1 DEF Start, AgentStep, SendRegister, Registered, SendBenchmark,
              BenchmarkAccepted, SendHeartbeat, HeartbeatAccepted,
              HeartbeatFailed, EndSession, Goto
<1>2. ASSUME NEW n \in Nodes, Handle(n) PROVE SessionTyped'
  BY <1>2 DEF Handle
<1>3. ASSUME NEW n \in Nodes, FailCall(n) \/ Crash(n) PROVE SessionTyped'
  BY <1>3 DEF FailCall, Crash
<1>4. CASE UNCHANGED <<pc, call>>
  BY <1>4
<1>5. QED
  BY <1>1, <1>2, <1>3, <1>4
     DEF MembershipNext, HandleLate, ForgetNode, RestartController, allVars, agentVars

\* No step lets a session outlive the benchmark it reported.
LEMMA SessionStep ==
    ASSUME "register" \notin LateCalls
    PROVE  RegistryInv /\ SessionTyped /\ SessionInv /\ [MembershipNext]_allVars
               => SessionInv'
<1> SUFFICES ASSUME RegistryInv, SessionTyped, SessionInv, [MembershipNext]_allVars
             PROVE  SessionInv'
  OBVIOUS
<1> USE DEF SessionTyped, Places, Answers, Calls, SessionInv, HeartbeatsAreMeasured,
            Known, RegistryInv, TypeOK, States
<1>1. ASSUME NEW n \in Nodes, Start(n) \/ AgentStep(n) PROVE SessionInv'
  BY <1>1 DEF Start, AgentStep, SendRegister, Registered, SendBenchmark,
              BenchmarkAccepted, SendHeartbeat, HeartbeatAccepted,
              HeartbeatFailed, EndSession, Goto, regVars
<1>2. ASSUME NEW n \in Nodes, Handle(n) PROVE SessionInv'
  <2>1. CASE pc[n] = "register" /\ Register(n) /\ call' = [call EXCEPT ![n] = "ok"]
    BY <1>2, <2>1 DEF Handle, Register
  <2>2. CASE ReportBenchmark(n)
    BY <1>2, <2>2 DEF Handle, ReportBenchmark
  <2>3. ASSUME NEW r \in BOOLEAN, Heartbeat(n, r), pc[n] = "heartbeat"
        PROVE SessionInv'
    BY <1>2, <2>3 DEF Handle, Heartbeat, Resumed
  <2>4. CASE UNCHANGED regVars /\ call' = [call EXCEPT ![n] = "unknown"]
    BY <1>2, <2>4 DEF Handle, regVars
  <2>5. QED
    BY <1>2, <2>1, <2>2, <2>3, <2>4 DEF Handle, Effect
<1>3. ASSUME NEW n \in Nodes, NEW c \in Calls, HandleLate(n, c) PROVE SessionInv'
  <2>1. /\ late' \in [Nodes -> SUBSET LateCalls] /\ c \in {"benchmark", "heartbeat"}
        /\ UNCHANGED <<pc, call>>
    BY <1>3 DEF HandleLate
  <2>2. CASE ReportBenchmark(n)
    BY <2>1, <2>2 DEF ReportBenchmark
  <2>3. ASSUME NEW r \in BOOLEAN, Heartbeat(n, r) PROVE SessionInv'
    BY <2>1, <2>3 DEF Heartbeat, Resumed
  <2>4. CASE UNCHANGED regVars
    BY <2>1, <2>4 DEF regVars
  <2>5. QED
    BY <1>3, <2>1, <2>2, <2>3, <2>4 DEF HandleLate, Effect
<1>4. ASSUME NEW n \in Nodes, FailCall(n) \/ Crash(n) PROVE SessionInv'
  <2>1. UNCHANGED regVars /\ late' \in [Nodes -> SUBSET LateCalls]
    BY <1>4 DEF FailCall, Crash, Abandon
  <2>2. QED
    BY <1>4, <2>1 DEF FailCall, Crash, regVars
<1>5. ASSUME NEW n \in Nodes, ForgetNode(n) PROVE SessionInv'
  BY <1>5 DEF ForgetNode, Forget, agentVars
<1>6. CASE RestartController
  BY <1>6 DEF RestartController, Restart, agentVars
<1>7. CASE (Sweep \/ Tick) /\ UNCHANGED <<agentVars, faults>>
  BY <1>7 DEF Sweep, Tick, Demoted, agentVars
<1>8. CASE UNCHANGED allVars
  BY <1>8 DEF allVars, agentVars, regVars
<1>9. QED
  BY <1>1, <1>2, <1>3, <1>4, <1>5, <1>6, <1>7, <1>8 DEF MembershipNext

\* With no late registrations, an agent never goes on sending heartbeats for a
\* registration whose benchmark the controller does not have.
THEOREM SessionsAreMeasured ==
    ASSUME "register" \notin LateCalls
    PROVE  MembershipSpec => []HeartbeatsAreMeasured
<1>1. ASSUME MembershipInit PROVE SessionTyped /\ SessionInv
  BY <1>1 DEF MembershipInit, SessionTyped, SessionInv, Places, Answers,
              HeartbeatsAreMeasured
<1>2. RegistryInv /\ SessionTyped /\ SessionInv /\ [MembershipNext]_allVars
          => SessionTyped' /\ SessionInv'
  BY SessionStepTyped, SessionStep
<1>3. SessionInv => HeartbeatsAreMeasured
  BY DEF SessionInv
<1>4. QED
  BY <1>1, <1>2, <1>3, RegistryInvHolds, PTL DEF MembershipSpec
=============================================================================
