-------------------------- MODULE OperationsProofs --------------------------
(***************************************************************************)
(* Two components that share no state: phones on USB, and the placement of *)
(* models with its benchmark. What is proved holds for any phones, ports,  *)
(* nodes, models and specs, and for any number of faults and requests.     *)
(***************************************************************************)
EXTENDS Provisioning, Placement, FiniteSetTheorems, WellFoundedInduction, TLAPS

-----------------------------------------------------------------------------
(* Phones on USB *)

\* What pcprov is about to use is there.
AttemptInv ==
    /\ pc \in {"reverse", "push", "forward", "restart"} => at \in Serials
    /\ pc = "restart" => port \in Ports
    /\ pc = "answer" <=> answer # Absent

\* What pcprov acknowledges was executed or refused, unless it was requested
\* again since.
CommandsInv == \A s \in acks : served[s] \/ s \in crossed

ProvisioningInv == ProvisioningTypeOK /\ AttemptInv /\ CommandsInv /\ RequestsAreNotLost

LEMMA ProvisioningInitially == ProvisioningInit => ProvisioningInv
<1> SUFFICES ASSUME ProvisioningInit PROVE ProvisioningInv
  OBVIOUS
<1>1. PhonesTypeOK
  BY DEF ProvisioningInit, PhonesTypeOK, AdbStates
<1>2. WatchTypeOK
  BY DEF ProvisioningInit, WatchTypeOK, AdbStates, RecordStatuses, Gone, NoRecord
<1>3. CommandsTypeOK
  BY DEF ProvisioningInit, CommandsTypeOK
<1>4. AttemptInv
  BY DEF ProvisioningInit, AttemptInv
<1>5. CommandsInv /\ RequestsAreNotLost
  BY DEF ProvisioningInit, CommandsInv, RequestsAreNotLost
<1>6. QED
  BY <1>1, <1>2, <1>3, <1>4, <1>5 DEF ProvisioningInv, ProvisioningTypeOK

\* What a step changes of the phones and of adb.
LEMMA PhonesStep ==
    ASSUME PhonesTypeOK, WatchTypeOK, AttemptInv, [ProvisioningNext]_provVars
    PROVE  PhonesTypeOK'
<1> USE DEF PhonesTypeOK, AdbStates
<1>1. CASE UNCHANGED adbVars
  BY <1>1 DEF adbVars
<1>2. ASSUME NEW s \in Serials, Attach(s) PROVE PhonesTypeOK'
  BY <1>2 DEF Attach
<1>3. ASSUME NEW s \in Serials, Detach(s) PROVE PhonesTypeOK'
  <2>1. forward' \in [Ports -> Serials \cup {Absent}]
    BY <1>3 DEF Detach, Unlinked
  <2>2. PICK adb \in {"gone", "device"}, agent \in {phone[s].agent, Absent} :
           phone' = [phone EXCEPT ![s] = [@ EXCEPT !.adb = adb, !.agent = agent, !.reverse = FALSE]]
    BY <1>3 DEF Detach
  <2>3. agent \in Ports \cup {Absent}
    OBVIOUS
  <2>4. QED
    BY <2>1, <2>2, <2>3
<1>4. ASSUME NEW s \in Serials, Twin(s) PROVE PhonesTypeOK'
  BY <1>4 DEF Twin
<1>5. ASSUME NEW s \in Serials, Heal(s) PROVE PhonesTypeOK'
  <2>1. Healed(s) \in [Ports -> Serials \cup {Absent}]
    BY DEF Healed
  <2>2. CASE phone[s].adb = "device" /\ ~phone[s].twin
    <3>1. forward' = Healed(s) \/ UNCHANGED forward
      BY <1>5, <2>2 DEF Heal, adbVars
    <3>2. phone' = [phone EXCEPT ![s].reverse = TRUE] \/ UNCHANGED phone
      BY <1>5, <2>2 DEF Heal, adbVars
    <3>3. QED
      BY <2>1, <3>1, <3>2
  <2>3. CASE ~(phone[s].adb = "device" /\ ~phone[s].twin)
    BY <1>1, <1>5, <2>3 DEF Heal, adbVars
  <2>4. QED
    BY <2>2, <2>3
<1>6. CASE ReverseLink
  BY <1>6 DEF ReverseLink, AttemptInv
<1>7. CASE ForwardLink
  BY <1>7 DEF ForwardLink, AttemptInv, ForwardTo, ForwardsOf
<1>8. CASE RestartAgent
  BY <1>8 DEF RestartAgent, AttemptInv
<1>9. CASE AttemptFails
  BY <1>9 DEF AttemptFails, AttemptInv
<1>10. ASSUME NEW s \in Serials, NEW heals \in BOOLEAN, VisitIdle(s, heals)
       PROVE  PhonesTypeOK'
  BY <1>1, <1>5, <1>10 DEF VisitIdle, adbVars
<1>11. CASE ProvisioningNext
  BY <1>1, <1>2, <1>3, <1>4, <1>6, <1>7, <1>8, <1>9, <1>10, <1>11
     DEF ProvisioningNext, Watch, Provision, StartWatch, Scan, EndRound, SkipReport, Report, TakeAnswer, Push,
         VisitWaiting, BeginAttempt, StopWatch, ReportFails, RestartController, RequestProvision, BackoffEnds,
         SetAutoProvision
<1>12. QED
  BY <1>1, <1>11 DEF provVars

\* What a step changes of pcprov's own records.
LEMMA WatchStep ==
    ASSUME PhonesTypeOK, WatchTypeOK, CommandsTypeOK, AttemptInv, [ProvisioningNext]_provVars
    PROVE  WatchTypeOK' /\ AttemptInv'
<1> USE ProvisioningAssumption DEF WatchTypeOK, AttemptInv, AdbStates, RecordStatuses
<1>1. CASE UNCHANGED <<pc, at, port, listed, todo, rec, reported, answer>>
  BY <1>1
<1>2. CASE StopWatch
  BY <1>2 DEF StopWatch, Gone, NoRecord
<1>3. CASE Scan
  <2>1. listed' \in [Serials -> [adb : AdbStates, twin : BOOLEAN]]
    <3>1. \A s \in Serials : phone[s].adb \in AdbStates /\ phone[s].twin \in BOOLEAN
      BY DEF PhonesTypeOK
    <3>2. \/ listed' = [s \in Serials |-> [adb |-> phone[s].adb, twin |-> phone[s].twin]]
          \/ listed' = [s \in Serials |-> [adb |-> "gone", twin |-> FALSE]]
      BY <1>3 DEF Scan, Gone
    <3>3. \A s \in Serials : listed'[s] \in [adb : AdbStates, twin : BOOLEAN]
      <4>1. CASE listed' = [s \in Serials |-> [adb |-> phone[s].adb, twin |-> phone[s].twin]]
        BY <3>1, <4>1
      <4>2. CASE listed' = [s \in Serials |-> [adb |-> "gone", twin |-> FALSE]]
        BY <4>2
      <4>3. QED
        BY <3>2, <4>1, <4>2
    <3>4. QED
      BY <3>2, <3>3
  <2>2. QED
    BY <1>3, <2>1 DEF Scan
<1>4. ASSUME NEW s \in Serials, VisitWaiting(s) PROVE WatchTypeOK' /\ AttemptInv'
  BY <1>4 DEF VisitWaiting
<1>5. ASSUME NEW s \in Serials, NEW heals \in BOOLEAN, VisitIdle(s, heals) PROVE WatchTypeOK' /\ AttemptInv'
  BY <1>5 DEF VisitIdle, StatusOf
<1>6. ASSUME NEW s \in Serials, BeginAttempt(s) PROVE WatchTypeOK' /\ AttemptInv'
  BY <1>6 DEF BeginAttempt
<1>7. ASSUME NEW s \in Serials, BackoffEnds(s) PROVE WatchTypeOK' /\ AttemptInv'
  BY <1>7 DEF BackoffEnds
<1>8. CASE ReverseLink \/ Push
  BY <1>8 DEF ReverseLink, Push
<1>9. CASE ForwardLink
  BY <1>9 DEF ForwardLink, ForwardTo, ForwardsOf
<1>10. ASSUME NEW ok \in BOOLEAN, pc \in {"reverse", "push", "forward", "restart"}, EndAttempt(ok)
       PROVE  WatchTypeOK' /\ AttemptInv'
  <2>1. rec' \in [Serials -> [status : RecordStatuses, provisioned : BOOLEAN, waiting : BOOLEAN]]
    BY <1>10 DEF EndAttempt
  <2>2. QED
    BY <1>10, <2>1 DEF EndAttempt
<1>11. CASE RestartAgent \/ AttemptFails
  BY <1>10, <1>11 DEF RestartAgent, AttemptFails
<1>12. CASE EndRound
  BY <1>12 DEF EndRound, NoRecord
<1>13. CASE StartWatch \/ SkipReport
  BY <1>13 DEF StartWatch, SkipReport
<1>14. CASE Report
  <2>1. answer' \in Answers
    BY <1>14 DEF Report, Answer, Answers, CommandsTypeOK
  <2>2. QED
    BY <1>14, <2>1 DEF Report
<1>15. CASE ReportFails
  BY <1>15 DEF ReportFails
<1>16. CASE TakeAnswer
  <2>1. reported' \in [Serials -> RecordStatuses]
    BY <1>16 DEF TakeAnswer, Statuses
  <2>2. rec' \in [Serials -> [status : RecordStatuses, provisioned : BOOLEAN, waiting : BOOLEAN]]
    BY <1>16 DEF TakeAnswer, NoRecord
  <2>3. QED
    BY <1>16, <2>1, <2>2 DEF TakeAnswer
<1>17. CASE ProvisioningNext
  BY <1>1, <1>2, <1>3, <1>4, <1>5, <1>6, <1>7, <1>8, <1>9, <1>11, <1>12, <1>13, <1>14, <1>15, <1>16, <1>17
     DEF ProvisioningNext, Watch, Provision, RestartController, Attach, Detach, Twin, RequestProvision,
         SetAutoProvision, watchVars
<1>18. QED
  BY <1>1, <1>17 DEF provVars, watchVars

\* What can happen to the commands: pcprov executes or refuses one, or ends;
\* the controller is asked for one, handles a report, or restarts; and its
\* answer arrives or is lost.
commandVars == <<cmds, acks, answer, wanted, served, forgotten, crossed>>

Executes(s) ==
    /\ answer = Absent
    /\ cmds' = cmds \ {s}
    /\ acks' = IF s \in cmds THEN acks \cup {s} ELSE acks
    /\ served' = IF s \in cmds THEN [served EXCEPT ![s] = TRUE] ELSE served
    /\ UNCHANGED <<answer, wanted, forgotten, crossed>>

CommandStep ==
    \/ UNCHANGED commandVars
    \/ \E s \in Serials : Executes(s) \/ RequestProvision(s)
    \/ StopWatch \/ RestartController \/ Report \/ ReportFails \/ TakeAnswer

LEMMA CommandSteps ==
    ASSUME AttemptInv, [ProvisioningNext]_provVars
    PROVE  CommandStep
<1>1. CASE UNCHANGED commandVars
  BY <1>1 DEF CommandStep
<1>2. ASSUME NEW s \in Serials, NEW heals \in BOOLEAN, VisitIdle(s, heals) PROVE CommandStep
  BY <1>2 DEF VisitIdle, AttemptInv, CommandStep, Executes, controllerVars
<1>3. CASE RestartAgent \/ AttemptFails
  BY <1>3 DEF RestartAgent, AttemptFails, EndAttempt, AttemptInv, CommandStep, Executes, controllerVars
<1>4. CASE ProvisioningNext
  BY <1>1, <1>2, <1>3, <1>4
     DEF ProvisioningNext, Watch, Provision, StartWatch, Scan, EndRound, SkipReport, ReverseLink, Push, ForwardLink,
         VisitWaiting, BeginAttempt, BackoffEnds, Attach, Detach, Twin, SetAutoProvision, CommandStep,
         commandVars, watchVars, controllerVars, historyVars
<1>5. QED
  BY <1>1, <1>4 DEF provVars, commandVars, watchVars, controllerVars, historyVars

LEMMA CommandsStep ==
    ASSUME CommandsTypeOK, CommandsInv, RequestsAreNotLost, CommandStep
    PROVE  CommandsInv' /\ RequestsAreNotLost'
<1> USE DEF CommandsTypeOK, CommandsInv, RequestsAreNotLost
<1>1. CASE UNCHANGED commandVars
  BY <1>1 DEF commandVars
<1>2. ASSUME NEW s \in Serials, Executes(s) PROVE CommandsInv' /\ RequestsAreNotLost'
  <2>1. CASE s \notin cmds
    BY <1>2, <2>1 DEF Executes
  <2>2. CASE s \in cmds
    <3>1. served' = [served EXCEPT ![s] = TRUE] /\ acks' = acks \cup {s} /\ cmds' = cmds \ {s}
      BY <1>2, <2>2 DEF Executes
    <3>2. UNCHANGED <<wanted, forgotten, crossed>>
      BY <1>2 DEF Executes
    <3>3. \A o \in Serials : served[o] \/ o = s => served'[o]
      BY <3>1
    <3>4. QED
      BY <1>2, <2>2, <3>1, <3>2, <3>3 DEF Executes
  <2>3. QED
    BY <2>1, <2>2
<1>3. ASSUME NEW s \in Serials, RequestProvision(s) PROVE CommandsInv' /\ RequestsAreNotLost'
  BY <1>3 DEF RequestProvision, watchVars, historyVars
<1>4. CASE StopWatch
  BY <1>4 DEF StopWatch, controllerVars
<1>5. CASE RestartController
  BY <1>5 DEF RestartController, watchVars
<1>6. CASE Report
  BY <1>6 DEF Report, historyVars
<1>7. CASE ReportFails
  BY <1>7 DEF ReportFails, controllerVars, historyVars
<1>8. CASE TakeAnswer
  BY <1>8 DEF TakeAnswer, controllerVars
<1>9. QED
  BY <1>1, <1>2, <1>3, <1>4, <1>5, <1>6, <1>7, <1>8 DEF CommandStep

LEMMA CommandsTypeStep ==
    ASSUME CommandsTypeOK, AttemptInv, CommandStep, [ProvisioningNext]_provVars
    PROVE  CommandsTypeOK'
<1> USE DEF CommandsTypeOK
<1>1. cmds' \subseteq Serials /\ acks' \subseteq Serials /\ wanted' \subseteq Serials
  BY DEF CommandStep, commandVars, Executes, RequestProvision, StopWatch, RestartController, Report, ReportFails,
         TakeAnswer, AttemptInv, Answers, watchVars, controllerVars
<1>2. answer' \in Answers \cup {Absent}
  BY DEF CommandStep, commandVars, Executes, RequestProvision, StopWatch, RestartController, Report, ReportFails,
         TakeAnswer, Answer, Answers
<1>3. served' \in [Serials -> BOOLEAN] /\ forgotten' \subseteq Serials /\ crossed' \subseteq Serials
  BY DEF CommandStep, commandVars, Executes, RequestProvision, StopWatch, RestartController, Report, ReportFails,
         TakeAnswer, historyVars
<1>4. auto' \in BOOLEAN
  BY DEF ProvisioningNext, Watch, Provision, StartWatch, Scan, EndRound, SkipReport, Report, TakeAnswer, ReverseLink,
         Push, ForwardLink, RestartAgent, AttemptFails, EndAttempt, VisitWaiting, BeginAttempt, VisitIdle, StopWatch,
         ReportFails, RestartController, Attach, Detach, Twin, RequestProvision, BackoffEnds, SetAutoProvision,
         provVars, watchVars, AttemptInv, Answers
<1>5. setting' \in BOOLEAN /\ stored' \in BOOLEAN
  BY DEF ProvisioningNext, Watch, Provision, StartWatch, Scan, EndRound, SkipReport, Report, TakeAnswer, ReverseLink,
         Push, ForwardLink, RestartAgent, AttemptFails, EndAttempt, VisitWaiting, BeginAttempt, VisitIdle, StopWatch,
         ReportFails, RestartController, Attach, Detach, Twin, RequestProvision, BackoffEnds, SetAutoProvision,
         provVars, controllerVars
<1>6. QED
  BY <1>1, <1>2, <1>3, <1>4, <1>5

LEMMA ProvisioningInvariant == ProvisioningSpec => []ProvisioningInv
<1>1. ASSUME ProvisioningInv, [ProvisioningNext]_provVars
      PROVE  ProvisioningInv'
  BY <1>1, PhonesStep, WatchStep, CommandSteps, CommandsStep, CommandsTypeStep
     DEF ProvisioningInv, ProvisioningTypeOK
<1>2. QED
  BY <1>1, ProvisioningInitially, PTL DEF ProvisioningSpec

\* The state of phones, pcprov and the controller's devices keeps its types
\* whatever fails (Watch, Provision, devices.report).
THEOREM ProvisioningTypeCorrect == ProvisioningSpec => []ProvisioningTypeOK
<1>1. ProvisioningInv => ProvisioningTypeOK
  BY DEF ProvisioningInv
<1>2. QED
  BY <1>1, ProvisioningInvariant, PTL

\* A request of an administrator stays queued at the controller until pcprov
\* has executed or refused it, for any phones and any number of failed reports,
\* lost answers, requests and restarts; except for the requests that a
\* controller forgets when it restarts, and for those that are made when pcprov
\* still is to acknowledge an earlier one (devices.report, Watch).
THEOREM RequestsAreKept == ProvisioningSpec => []RequestsAreNotLost
<1>1. ProvisioningInv => RequestsAreNotLost
  BY DEF ProvisioningInv
<1>2. QED
  BY <1>1, ProvisioningInvariant, PTL

-----------------------------------------------------------------------------
(* The benchmark of the placement *)

\* Nodes that wait for their benchmark have none under way, and without a run
\* nothing waits and none is under way. What the benchmark of a node does to
\* it is undone when it ends: `was` says whether an administrator drained it.
BenchInv ==
    /\ \A n \in Nodes : bench[n] = None => override[n] = None
    /\ \A n \in Nodes : bench[n] = None \/ bench[n].was => (n \in drained => n \in asked)
    /\ \A n \in mmb.queue : bench[n] = None
    /\ ~mmb.active => mmb.queue = {} /\ \A n \in Nodes : bench[n] = None

PlacementInv == BenchTypeOK /\ BenchInv

LEMMA PlacementInitially == PlacementInit => PlacementInv
BY DEF PlacementInit, PlacementInv, BenchTypeOK, BenchInv, NoRun

benchVars == <<drained, asked, mmbVars>>

\* Everything else that happens to placement leaves nodes and benchmark alone.
LEMMA PlanningSteps ==
    ASSUME PlacementNext
    PROVE  \/ UNCHANGED benchVars
           \/ \E n \in Nodes : Bench(n)
           \/ \E n \in Attended, drain \in BOOLEAN : Drain(n, drain)
           \/ \E nodes \in Benchmarks, parallel \in BOOLEAN : MMBStart(nodes, parallel)
           \/ MMBCancel \/ MMBEnds \/ Crash
BY DEF PlacementNext, CatalogChanges, CheckUsers, NodeReports, NodeLeaves, NodeReturns, ValidatePlacement, SetDefault,
       SetPlacement, RemoveModel, ReplanTick, benchVars, nodeVars, mmbVars

LEMMA PlacementStep == ASSUME PlacementInv, [PlacementNext]_placementVars PROVE PlacementInv'
<1> USE PlacementAssumption DEF PlacementInv, BenchTypeOK, BenchInv
<1>1. CASE UNCHANGED benchVars
  BY <1>1 DEF benchVars, mmbVars
<1>2. ASSUME NEW n \in Attended, NEW drain \in BOOLEAN, Drain(n, drain) PROVE PlacementInv'
  BY <1>2 DEF Drain, mmbVars
<1>3. ASSUME NEW nodes \in Benchmarks, NEW parallel \in BOOLEAN, MMBStart(nodes, parallel) PROVE PlacementInv'
  BY <1>3 DEF MMBStart, nodeVars, ModelsFor, Ready
<1>4. CASE MMBCancel
  BY <1>4 DEF MMBCancel, nodeVars
<1>5. CASE MMBEnds
  BY <1>5 DEF MMBEnds, NoRun, nodeVars
<1>6. CASE Crash
  BY <1>6 DEF Crash, NoRun
<1>7. ASSUME NEW n \in Nodes, BenchDrain(n) PROVE PlacementInv'
  <2>1. bench'[n] \in BenchStates /\ bench'[n].was = (n \in drained)
    BY <1>7 DEF BenchDrain, BenchStates
  <2>2. \A o \in Nodes \ {n} : bench'[o] = bench[o]
    BY <1>7 DEF BenchDrain
  <2>3. mmb' = [mmb EXCEPT !.queue = @ \ {n}, !.models[n] = {}]
    BY <1>7 DEF BenchDrain
  <2>4. /\ mmb' \in [active : BOOLEAN, cancelled : BOOLEAN, parallel : BOOLEAN, queue : SUBSET Nodes,
                     models : [Nodes -> SUBSET Models]]
        /\ mmb'.active = mmb.active /\ mmb'.queue = mmb.queue \ {n}
    BY <2>3
  <2>5. n \in mmb.queue /\ bench[n] = None /\ mmb.active
    BY <1>7 DEF BenchDrain
  <2>6. BenchTypeOK'
    BY <1>7, <2>1, <2>2, <2>4 DEF BenchDrain
  <2>7. \A o \in Nodes : bench'[o] = None => override'[o] = None
    BY <1>7, <2>1, <2>2 DEF BenchDrain
  <2>8. \A o \in Nodes : bench'[o] = None \/ bench'[o].was => (o \in drained' => o \in asked')
    BY <1>7, <2>1, <2>2, <2>5 DEF BenchDrain
  <2>9. QED
    BY <2>1, <2>2, <2>4, <2>5, <2>6, <2>7, <2>8
<1>8. ASSUME NEW n \in Nodes, BenchLoad(n) PROVE PlacementInv'
  BY <1>8 DEF BenchLoad, BenchStates, nodeVars
<1>9. ASSUME NEW n \in Nodes, BenchProbes(n) PROVE PlacementInv'
  BY <1>9 DEF BenchProbes, BenchStates, nodeVars
<1>10. ASSUME NEW n \in Nodes, BenchEndsModel(n) PROVE PlacementInv'
  BY <1>10 DEF BenchEndsModel, BenchStates, nodeVars
<1>11. ASSUME NEW n \in Nodes, BenchRestore(n) PROVE PlacementInv'
  BY <1>11 DEF BenchRestore
<1>12. CASE PlacementNext
  BY <1>1, <1>2, <1>3, <1>4, <1>5, <1>6, <1>7, <1>8, <1>9, <1>10, <1>11, <1>12, PlanningSteps DEF Bench
<1>13. QED
  BY <1>1, <1>12 DEF placementVars, nodeVars, benchVars

LEMMA PlacementInvariant == PlacementSpec => []PlacementInv
BY PlacementInitially, PlacementStep, PTL DEF PlacementSpec

\* When no benchmark runs, no model is forced onto a node and only the drains
\* of administrators are left, for any nodes, models and specs, and however
\* runs are cancelled or phones fail (benchNode, execute).
THEOREM BenchmarksGiveBack == PlacementSpec => []NodesAreGivenBack
<1>1. PlacementInv => NodesAreGivenBack
  BY DEF PlacementInv, BenchInv, NodesAreGivenBack
<1>2. QED
  BY <1>1, PlacementInvariant, PTL

-----------------------------------------------------------------------------
(* Plans do not flap *)

LEMMA Smallest ==
    ASSUME NEW S \in SUBSET Nat, S # {}
    PROVE  \E x \in S : \A y \in S : x <= y
<1>1. PICK x \in S : \A y \in S : ~(<<y, x>> \in OpToRel(<, Nat))
  BY NatLessThanWellFounded, WFMin
<1>2. \A y \in S : ~(y < x)
  BY <1>1 DEF OpToRel
<1>3. QED
  BY <1>2

\* A smaller set in a finite one.
LEMMA Fewer ==
    ASSUME NEW S, IsFiniteSet(S), NEW A \in SUBSET S, NEW B \in SUBSET A, NEW x \in A \ B
    PROVE  Cardinality(B) \in Nat /\ Cardinality(A) \in Nat /\ Cardinality(B) < Cardinality(A)
<1>1. IsFiniteSet(A) /\ IsFiniteSet(B)
  BY FS_Subset
<1>2. QED
  BY <1>1, FS_Subset, FS_CardinalityType

\* For each model the nodes are in order (preferFor).
LEMMA PrefersOrder ==
    ASSUME NEW m, NEW in
    PROVE  /\ \A n \in Nodes : ~Prefers(m, in, n, n)
           /\ \A n, o \in Nodes : n = o \/ Prefers(m, in, n, o) \/ Prefers(m, in, o, n)
           /\ \A n, o, q \in Nodes : Prefers(m, in, n, o) /\ Prefers(m, in, o, q) => Prefers(m, in, n, q)
BY PlannerAssumption DEF Prefers

\* The nodes a policy takes of those that are free.
Top(m, in, free, want) == {x \in free : Cardinality({o \in free : Prefers(m, in, o, x)}) < want}
Above(m, in, free, x) == {o \in free : Prefers(m, in, o, x)}

LEMMA AboveFewer ==
    ASSUME NEW m, NEW in, NEW free \in SUBSET Nodes, NEW x \in free, NEW y \in free, Prefers(m, in, x, y)
    PROVE  /\ Cardinality(Above(m, in, free, x)) \in Nat
           /\ Cardinality(Above(m, in, free, y)) \in Nat
           /\ Cardinality(Above(m, in, free, x)) < Cardinality(Above(m, in, free, y))
<1>1. Above(m, in, free, x) \subseteq Above(m, in, free, y)
  BY PrefersOrder, Zenon DEF Above
<1>2. x \in Above(m, in, free, y) \ Above(m, in, free, x)
  BY PrefersOrder, Zenon DEF Above
<1>3. Above(m, in, free, y) \subseteq Nodes
  BY DEF Above
<1>4. QED
  BY <1>1, <1>2, <1>3, PlannerAssumption, Fewer

LEMMA AboveType ==
    ASSUME NEW m, NEW in, NEW free \in SUBSET Nodes, NEW x
    PROVE  /\ IsFiniteSet(Above(m, in, free, x)) /\ Cardinality(Above(m, in, free, x)) \in Nat
           /\ Above(m, in, free, x) \subseteq free
BY PlannerAssumption, FS_Subset, FS_CardinalityType DEF Above

\* A policy takes nodes that are preferred to all others, as many as it wants
\* or all there are.
LEMMA TopFacts ==
    ASSUME NEW m, NEW in, NEW free \in SUBSET Nodes, NEW want \in Nat
    PROVE  LET top == Top(m, in, free, want)
           IN  /\ top \subseteq free /\ IsFiniteSet(top) /\ Cardinality(top) \in Nat
               /\ \A x \in top, y \in free \ top : Prefers(m, in, x, y)
               /\ Cardinality(top) <= want
               /\ top = free \/ Cardinality(top) >= want
<1> DEFINE top == Top(m, in, free, want)
           above(x) == Above(m, in, free, x)
<1>1. top = {x \in free : Cardinality(above(x)) < want}
  BY DEF Top, Above
<1>2. top \subseteq free /\ IsFiniteSet(top) /\ Cardinality(top) \in Nat /\ IsFiniteSet(free)
  BY <1>1, PlannerAssumption, FS_Subset, FS_CardinalityType
<1>3. \A x \in free : Cardinality(above(x)) \in Nat /\ IsFiniteSet(above(x)) /\ above(x) \subseteq free
  BY AboveType
<1>4. \A x, y \in free : Prefers(m, in, x, y) => Cardinality(above(x)) < Cardinality(above(y))
  BY AboveFewer
<1>5. \A x, y \in free : x = y \/ Prefers(m, in, x, y) \/ Prefers(m, in, y, x)
  BY PrefersOrder
<1>6. \A x \in free : \A y : y \in above(x) <=> y \in free /\ Prefers(m, in, y, x)
  BY DEF Above
<1> HIDE DEF top, above
<1>7. \A x \in top, y \in free \ top : Prefers(m, in, x, y)
  BY <1>1, <1>3, <1>4, <1>5
<1>8. Cardinality(top) <= want
  <2>1. CASE top = {}
    BY <2>1, FS_EmptySet
  <2>2. CASE top # {}
    <3> DEFINE total == Cardinality(free)
               below == {total - Cardinality(above(x)) : x \in top}
    <3>1. total \in Nat /\ \A x \in free : Cardinality(above(x)) <= total
      BY <1>2, <1>3, FS_CardinalityType, FS_Subset
    <3>2. below \in SUBSET Nat /\ below # {}
      BY <3>1, <1>2, <1>3, <2>2
    <3> HIDE DEF below
    <3>3. PICK least \in below : \A other \in below : least <= other
      BY <3>2, Smallest
    <3>4. PICK x \in top : \A y \in top : total - Cardinality(above(x)) <= total - Cardinality(above(y))
      BY <3>3 DEF below
    <3>5. \A y \in top : Cardinality(above(y)) <= Cardinality(above(x))
      BY <3>1, <3>4, <1>2, <1>3
    <3>6. top \ {x} \subseteq above(x)
      BY <3>5, <1>2, <1>3, <1>4, <1>5, <1>6
    <3>7. Cardinality(top \ {x}) <= Cardinality(above(x)) /\ Cardinality(top \ {x}) = Cardinality(top) - 1
      BY <3>6, <1>2, <1>3, FS_Subset, FS_RemoveElement
    <3>8. QED
      BY <3>7, <1>1, <1>2, <1>3
  <2>3. QED
    BY <2>1, <2>2
<1>9. top = free \/ Cardinality(top) >= want
  <2> SUFFICES ASSUME top # free PROVE Cardinality(top) >= want
    OBVIOUS
  <2> DEFINE counts == {Cardinality(above(y)) : y \in free \ top}
  <2>1. counts \in SUBSET Nat /\ counts # {}
    BY <1>2, <1>3
  <2> HIDE DEF counts
  <2>2. PICK least \in counts : \A other \in counts : least <= other
    BY <2>1, Smallest
  <2>3. PICK y \in free \ top : \A z \in free \ top : Cardinality(above(y)) <= Cardinality(above(z))
    BY <2>2 DEF counts
  <2>4. above(y) \subseteq top
    BY <2>3, <1>3, <1>4, <1>6
  <2>5. Cardinality(above(y)) <= Cardinality(top)
    BY <2>4, <1>2, FS_Subset
  <2>6. QED
    BY <2>3, <2>5, <1>1, <1>2, <1>3
<1>10. QED
  BY <1>2, <1>7, <1>8, <1>9 DEF top

\* The nodes that a policy has taken are taken again when they are preferred
\* to all others once more.
LEMMA TopAgain ==
    ASSUME NEW m, NEW in, NEW later, NEW free \in SUBSET Nodes, NEW want \in Nat,
           \A x \in Top(m, in, free, want), y \in free \ Top(m, in, free, want) : Prefers(m, later, x, y)
    PROVE  Top(m, later, free, want) = Top(m, in, free, want)
<1> DEFINE top == Top(m, in, free, want)
           above(x) == Above(m, later, free, x)
<1>1. Top(m, later, free, want) = {x \in free : Cardinality(above(x)) < want}
  BY DEF Top, Above
<1>2. /\ top \subseteq free /\ IsFiniteSet(top) /\ Cardinality(top) \in Nat
      /\ Cardinality(top) <= want
      /\ top = free \/ Cardinality(top) >= want
  BY TopFacts
<1>3. \A x \in free : Cardinality(above(x)) \in Nat /\ IsFiniteSet(above(x)) /\ above(x) \subseteq free
  BY AboveType
<1>4. \A x \in free : \A y : y \in above(x) <=> y \in free /\ Prefers(m, later, y, x)
  BY DEF Above
<1>5. \A x, y \in free : Prefers(m, later, x, y) => ~Prefers(m, later, y, x)
  BY PrefersOrder, Zenon
<1>6. \A x \in free : ~Prefers(m, later, x, x)
  BY PrefersOrder, Zenon
<1>7. \A x \in top, y \in free \ top : Prefers(m, later, x, y)
  OBVIOUS
<1> HIDE DEF top, above
<1>8. ASSUME NEW x \in top PROVE Cardinality(above(x)) < want
  <2>1. above(x) \subseteq top \ {x}
    BY <1>2, <1>3, <1>4, <1>5, <1>6, <1>7
  <2>2. IsFiniteSet(top \ {x}) /\ Cardinality(top \ {x}) = Cardinality(top) - 1
    BY <1>2, FS_RemoveElement
  <2>3. Cardinality(above(x)) <= Cardinality(top \ {x})
    BY <2>1, <2>2, FS_Subset
  <2>4. QED
    BY <2>2, <2>3, <1>2, <1>3
<1>9. ASSUME NEW y \in free \ top PROVE ~(Cardinality(above(y)) < want)
  <2>1. top \subseteq above(y)
    BY <1>2, <1>4, <1>7
  <2>2. Cardinality(top) <= Cardinality(above(y))
    BY <2>1, <1>3, FS_Subset
  <2>3. QED
    BY <2>2, <1>2, <1>3
<1>10. QED
  BY <1>1, <1>2, <1>8, <1>9 DEF top

LEMMA EstRAMType == ASSUME NEW m \in Models PROVE EstRAM(m) \in Nat
<1>1. CtxSize(m) \in Nat /\ PerCtx[m] \in Nat /\ Resident[m] \in Nat
  BY PlannerAssumption DEF CtxSize, DefaultCtx
<1>2. CtxSize(m) * PerCtx[m] \in Nat
  BY <1>1
<1>3. QED
  BY <1>1, <1>2 DEF EstRAM, Overhead

\* No two models choose at the same time.
LEMMA TurnsDiffer ==
    ASSUME NEW m \in Models, NEW o \in Models, Turn[m] = Turn[o]
    PROVE  m = o
<1> DEFINE before(x) == {y \in Models : Bigger(y, x)}
<1>1. \A x \in Models : Turn[x] = Cardinality(before(x)) + 1
  BY DEF Turn
<1>2. \A x, y \in Models : x = y \/ Bigger(x, y) \/ Bigger(y, x)
  BY EstRAMType, PlannerAssumption DEF Bigger
<1>3. \A x \in Models : ~Bigger(x, x)
  BY EstRAMType, PlannerAssumption DEF Bigger
<1>4. \A x, y, z \in Models : Bigger(x, y) /\ Bigger(y, z) => Bigger(x, z)
  BY EstRAMType, PlannerAssumption DEF Bigger
<1>5. ASSUME NEW x \in Models, NEW y \in Models, Bigger(x, y) PROVE Turn[x] # Turn[y]
  <2>1. before(x) \subseteq before(y) /\ x \in before(y) \ before(x) /\ before(y) \subseteq Models
    BY <1>3, <1>4, <1>5
  <2>2. /\ Cardinality(before(x)) \in Nat /\ Cardinality(before(y)) \in Nat
        /\ Cardinality(before(x)) < Cardinality(before(y))
    BY <2>1, PlannerAssumption, Fewer
  <2>3. QED
    BY <1>1, <2>2
<1>6. QED
  BY <1>2, <1>5

LEMMA PercentOfType == ASSUME NEW percent \in Nat, NEW count \in Nat PROVE PercentOf(percent, count) \in Nat
<1> DEFINE share == (2 * percent * count + 100) \div 200
<1>1. 2 * percent * count + 100 \in Nat
  OBVIOUS
<1>2. share \in Nat
  BY <1>1
<1> HIDE DEF share
<1>3. Max({1, share}) \in Nat
  <2>1. \E x \in {1, share} : \A y \in {1, share} : x >= y
    BY <1>2
  <2>2. Max({1, share}) \in {1, share}
    BY <2>1 DEF Max
  <2>3. QED
    BY <2>2, <1>2
<1>4. QED
  BY <1>3 DEF PercentOf, share

-----------------------------------------------------------------------------
(* The policies of one mode, in turn *)

\* What is given after each of the first n turns.
IsAfter(f, s, in, mode, given, n) ==
    f = [k \in 0..n |-> IF k = 0 THEN given ELSE ClaimsAt(s, in, mode, f[k - 1], k)]

LEMMA OnceIs == ASSUME NEW e PROVE Once({e}) = e
BY DEF Once

LEMMA AfterExists ==
    ASSUME NEW s, NEW in, NEW mode, NEW given, NEW n \in Nat
    PROVE  \E f : IsAfter(f, s, in, mode, given, n)
<1> DEFINE Missing == {k \in Nat : ~\E f : IsAfter(f, s, in, mode, given, k)}
<1> SUFFICES ASSUME Missing # {} PROVE FALSE
  OBVIOUS
<1>1. PICK k \in Missing : \A j \in Missing : k <= j
  BY Smallest
<1>2. k # 0
  <2> DEFINE f == [j \in 0..0 |-> given]
  <2>1. IsAfter(f, s, in, mode, given, 0)
    BY DEF IsAfter
  <2>2. QED
    BY <2>1, <1>1
<1>3. PICK f : IsAfter(f, s, in, mode, given, k - 1)
  BY <1>1, <1>2
<1> DEFINE g == [j \in 0..k |-> IF j = k THEN ClaimsAt(s, in, mode, f[k - 1], k) ELSE f[j]]
<1>4. \A j \in 0..(k - 1) : f[j] = IF j = 0 THEN given ELSE ClaimsAt(s, in, mode, f[j - 1], j)
  BY <1>3 DEF IsAfter
<1>5. \A j \in 0..k : g[j] = IF j = 0 THEN given ELSE ClaimsAt(s, in, mode, g[j - 1], j)
  BY <1>1, <1>2, <1>4
<1>6. IsAfter(g, s, in, mode, given, k)
  BY <1>5 DEF IsAfter
<1>7. QED
  BY <1>1, <1>6

\* The recursion of Claims, turn by turn.
LEMMA ClaimsAre ==
    ASSUME NEW s, NEW in, NEW mode, NEW given
    PROVE  \E f : /\ IsAfter(f, s, in, mode, given, Cardinality(Models))
                  /\ Claims(s, in, mode, given) = f[Cardinality(Models)]
<1> DEFINE N == Cardinality(Models)
           f == CHOOSE f : IsAfter(f, s, in, mode, given, N)
<1>1. N \in Nat
  BY PlannerAssumption, FS_CardinalityType
<1>2. IsAfter(f, s, in, mode, given, N)
  BY <1>1, AfterExists
<1>3. Claims(s, in, mode, given) = f[N]
  BY DEF Claims, IsAfter
<1>4. QED
  BY <1>2, <1>3

\* To what is given, h adds nodes that have nothing yet, with models of ms.
Extends(given, h, ms) ==
    /\ given \subseteq h
    /\ \A a \in h \ given : a.model \in ms /\ ~IsGiven(a.node, given) /\ a.reason \in {"replicas", "percent"}

LEMMA ExtendsTwice ==
    ASSUME NEW given, NEW h, NEW later, NEW ms, NEW more, Extends(given, h, ms), Extends(h, later, more)
    PROVE  Extends(given, later, ms \cup more)
BY DEF Extends, IsGiven

\* The models that choose in mode at the turn k, and after it.
Choosing(s, in, mode, k) == {m \in PolicyModels(s, mode) \cap in.ready : Turn[m] = k}
Remaining(s, in, mode, k) == {m \in PolicyModels(s, mode) \cap in.ready : Turn[m] > k}

LEMMA ClaimGives ==
    ASSUME NEW s, NEW in, NEW mode, NEW given, NEW m, NEW a \in Claim(s, in, mode, given, m)
    PROVE  /\ a.model = m /\ a.reason = mode /\ ~IsGiven(a.node, given)
           /\ a = Give(a.node, m, mode)
<1>1. \E n : a = Give(n, m, mode) /\ ~IsGiven(n, given)
  BY Zenon DEF Claim
<1>2. PICK n : a = Give(n, m, mode) /\ ~IsGiven(n, given)
  BY <1>1
<1>3. a.node = n /\ a.model = m /\ a.reason = mode
  BY <1>2 DEF Give
<1>4. QED
  BY <1>2, <1>3

LEMMA ClaimsAtExtends ==
    ASSUME NEW s, NEW in, NEW mode \in {"replicas", "percent"}, NEW given, NEW k \in Nat
    PROVE  Extends(given, ClaimsAt(s, in, mode, given, k), Choosing(s, in, mode, k))
<1> SUFFICES ASSUME NEW a \in ClaimsAt(s, in, mode, given, k) \ given
             PROVE  /\ a.model \in Choosing(s, in, mode, k)
                    /\ ~IsGiven(a.node, given) /\ a.reason \in {"replicas", "percent"}
  BY DEF Extends, ClaimsAt
<1>1. PICK m \in Choosing(s, in, mode, k) : a \in Claim(s, in, mode, given, m)
  BY DEF ClaimsAt, Choosing
<1>2. QED
  BY <1>1, ClaimGives

\* What later turns add.
LEMMA AfterExtends ==
    ASSUME NEW s, NEW in, NEW mode \in {"replicas", "percent"}, NEW given,
           NEW n \in Nat, NEW f, IsAfter(f, s, in, mode, given, n),
           NEW k \in 0..n, NEW j \in k..n
    PROVE  Extends(f[k], f[j], Remaining(s, in, mode, k))
<1> DEFINE Wrong == {i \in k..n : ~Extends(f[k], f[i], Remaining(s, in, mode, k))}
<1> SUFFICES ASSUME Wrong # {} PROVE FALSE
  OBVIOUS
<1>1. Wrong \in SUBSET Nat
  OBVIOUS
<1>2. PICK i \in Wrong : \A o \in Wrong : i <= o
  BY <1>1, Smallest
<1>3. i # k
  BY DEF Extends
<1>4. i \in Nat /\ i - 1 \in k..n /\ Extends(f[k], f[i - 1], Remaining(s, in, mode, k))
  BY <1>2, <1>3
<1>5. f[i] = ClaimsAt(s, in, mode, f[i - 1], i)
  BY <1>2, <1>3, <1>4 DEF IsAfter
<1>6. Extends(f[i - 1], f[i], Choosing(s, in, mode, i))
  BY <1>4, <1>5, ClaimsAtExtends
<1>7. Choosing(s, in, mode, i) \subseteq Remaining(s, in, mode, k)
  BY <1>2, <1>3 DEF Remaining, Choosing
<1>8. Extends(f[k], f[i], Remaining(s, in, mode, k) \cup Choosing(s, in, mode, i))
  BY <1>4, <1>6, ExtendsTwice
<1>9. Remaining(s, in, mode, k) \cup Choosing(s, in, mode, i) = Remaining(s, in, mode, k)
  BY <1>7
<1>10. QED
  BY <1>2, <1>8, <1>9

-----------------------------------------------------------------------------
(* A policy takes the same nodes again *)

SpecTypes == [policy : [Models -> Policies \cup {None}], default : Models \cup {None}]

Free(s, in, given, m) == {n \in Eligible(s.policy[m], m, in) : ~IsGiven(n, given)}
Want(s, in, mode, m) ==
    IF mode = "percent" THEN PercentOf(s.policy[m].share, Cardinality(Eligible(s.policy[m], m, in)))
    ELSE s.policy[m].share

LEMMA ClaimIs ==
    ASSUME NEW s, NEW in, NEW mode, NEW given, NEW m
    PROVE  Claim(s, in, mode, given, m)
             = {Give(n, m, mode) : n \in Top(m, in, Free(s, in, given, m), Want(s, in, mode, m))}
BY Zenon DEF Claim, Top, Free, Want

\* The nodes, drains and models that can be served are those of before; a
\* node serves what it served or what it was given.
Follows(in, later) ==
    /\ later.up = in.up /\ later.drained = in.drained /\ later.ready = in.ready
    /\ \A n \in in.up : later.current[n] \in {in.current[n], later.assigned[n]}

LEMMA FreeFacts ==
    ASSUME NEW s \in SpecTypes, NEW in, in.up \subseteq Nodes, NEW mode, NEW m \in PolicyModels(s, mode), NEW given
    PROVE  /\ Free(s, in, given, m) \subseteq in.up /\ Free(s, in, given, m) \subseteq Nodes
           /\ Want(s, in, mode, m) \in Nat
<1> DEFINE eligible == Eligible(s.policy[m], m, in)
<1>1. eligible \subseteq in.up
  BY DEF Eligible
<1>2. Cardinality(eligible) \in Nat
  BY <1>1, PlannerAssumption, FS_Subset, FS_CardinalityType
<1>3. s.policy[m] \in Policies
  BY DEF PolicyModels, SpecTypes
<1>4. s.policy[m].share \in Nat
  BY <1>3 DEF Policies
<1> HIDE DEF eligible
<1>5. PercentOf(s.policy[m].share, Cardinality(eligible)) \in Nat
  BY <1>2, <1>4, PercentOfType
<1>6. QED
  BY <1>1, <1>4, <1>5 DEF Free, Want, eligible

\* The nodes that a policy took were planned for it, and no other node it
\* could have taken was: it takes them again (preferFor).
LEMMA ClaimAgain ==
    ASSUME NEW s \in SpecTypes, NEW in, NEW later, in.up \subseteq Nodes, Follows(in, later),
           NEW mode, NEW m \in PolicyModels(s, mode), NEW given,
           \A n \in Free(s, in, given, m) :
              n \in Top(m, in, Free(s, in, given, m), Want(s, in, mode, m)) <=> later.assigned[n] = m
    PROVE  Claim(s, later, mode, given, m) = Claim(s, in, mode, given, m)
<1> DEFINE free == Free(s, in, given, m)
           want == Want(s, in, mode, m)
           top == Top(m, in, free, want)
<1>1. Free(s, later, given, m) = free /\ Want(s, later, mode, m) = want
  BY DEF Follows, Free, Want, Eligible
<1>2. free \subseteq in.up /\ free \in SUBSET Nodes /\ want \in Nat
  BY FreeFacts
<1>3. top \subseteq free /\ \A x \in top, y \in free \ top : Prefers(m, in, x, y)
  BY <1>2, TopFacts
<1>4. \A n \in free : n \in top <=> later.assigned[n] = m
  OBVIOUS
<1>5. \A n \in free : later.current[n] \in {in.current[n], later.assigned[n]}
  BY <1>2 DEF Follows
<1> HIDE DEF free, want, top
<1>6. ASSUME NEW x \in top, NEW y \in free \ top PROVE Prefers(m, later, x, y)
  <2>1. Prefers(m, in, x, y) /\ x \in Nodes /\ y \in Nodes /\ x \in free
    BY <1>2, <1>3
  <2>2. later.assigned[x] = m /\ later.assigned[y] # m
    BY <1>4, <2>1
  <2>3. in.current[x] = m => later.current[x] = m
    BY <1>5, <2>1, <2>2
  <2>4. later.current[y] = m => in.current[y] = m
    BY <1>5, <2>2
  <2>5. Preference[x] \in Nat /\ Preference[y] \in Nat
    BY <2>1, PlannerAssumption
  <2>6. QED
    BY <2>1, <2>2, <2>3, <2>4, <2>5 DEF Prefers
<1>7. Top(m, later, free, want) = top
  BY <1>2, <1>6, TopAgain DEF top
<1>8. QED
  BY <1>1, <1>7, ClaimIs DEF free, want, top

\* What the plan that gives `all` told the nodes: one of its models, the
\* default, or, for a benchmark, a model that cannot be served.
Told(s, in, all, assigned) ==
    \A n \in in.up :
       \/ \E a \in all : a.node = n /\ a.model = assigned[n]
       \/ ~IsGiven(n, all) /\ (assigned[n] \in {None, s.default} \/ assigned[n] \notin in.ready)

LEMMA PolicyIsNotDefault ==
    ASSUME NEW s \in SpecTypes, ~SharesDefault(s), NEW mode \in {"replicas", "percent"}, NEW m \in PolicyModels(s, mode)
    PROVE  m # s.default /\ m # None /\ m \in Models
BY PlannerAssumption DEF SharesDefault, PolicyModels

\* In its turn, a policy takes the same nodes again.
LEMMA ClaimsAtAgain ==
    ASSUME NEW s \in SpecTypes, ~SharesDefault(s), NEW in, NEW later, in.up \subseteq Nodes, Follows(in, later),
           NEW mode \in {"replicas", "percent"}, NEW given, NEW k \in Nat, NEW all, NEW ms,
           Told(s, in, all, later.assigned),
           Extends(ClaimsAt(s, in, mode, given, k), all, ms),
           \A m \in ms \cap PolicyModels(s, mode) : Turn[m] # k
    PROVE  ClaimsAt(s, later, mode, given, k) = ClaimsAt(s, in, mode, given, k)
<1> DEFINE choosing == {x \in PolicyModels(s, mode) \cap in.ready : Turn[x] = k}
           now == ClaimsAt(s, in, mode, given, k)
<1>1. now = given \cup UNION {Claim(s, in, mode, given, x) : x \in choosing}
  BY DEF ClaimsAt
<1>2. ClaimsAt(s, later, mode, given, k) = given \cup UNION {Claim(s, later, mode, given, x) : x \in choosing}
  BY DEF ClaimsAt, Follows
<1>3. ASSUME NEW m \in choosing PROVE Claim(s, later, mode, given, m) = Claim(s, in, mode, given, m)
  <2> DEFINE free == Free(s, in, given, m)
             top == Top(m, in, free, Want(s, in, mode, m))
  <2>1. m \in PolicyModels(s, mode) /\ m \in in.ready /\ Turn[m] = k /\ m # s.default /\ m # None /\ m \in Models
    BY PolicyIsNotDefault
  <2>2. choosing = {m}
    BY <2>1, TurnsDiffer DEF PolicyModels
  <2>3. now = given \cup Claim(s, in, mode, given, m)
    BY <1>1, <2>2
  <2>4. Claim(s, in, mode, given, m) = {Give(n, m, mode) : n \in top}
    BY ClaimIs
  <2>5. free \subseteq in.up /\ top \subseteq free /\ \A n \in free : ~IsGiven(n, given)
    BY <2>1, FreeFacts DEF Top, Free
  <2>6. \A n : Give(n, m, mode).node = n /\ Give(n, m, mode).model = m
    BY DEF Give
  <2> HIDE DEF now, choosing, free, top
  <2>7. now \subseteq all /\ \A a \in all \ now : a.model \in ms /\ ~IsGiven(a.node, now)
    BY DEF Extends, now
  <2>8. m \notin ms
    BY <2>1
  <2>9. ASSUME NEW n \in top PROVE later.assigned[n] = m
    <3>1. Give(n, m, mode) \in now /\ Give(n, m, mode) \in all
      BY <2>3, <2>4, <2>7
    <3>2. IsGiven(n, now) /\ IsGiven(n, all)
      BY <3>1, <2>6 DEF IsGiven
    <3>3. PICK a \in all : a.node = n /\ a.model = later.assigned[n]
      BY <3>2, <2>5 DEF Told
    <3>4. a \in now
      BY <3>2, <3>3, <2>7
    <3>5. a \notin given
      BY <3>3, <2>5 DEF IsGiven
    <3>6. QED
      BY <3>3, <3>4, <3>5, <2>3, <2>4, <2>6
  <2>10. ASSUME NEW n \in free \ top PROVE later.assigned[n] # m
    <3>1. CASE \E a \in all : a.node = n /\ a.model = later.assigned[n]
      <4>1. PICK a \in all : a.node = n /\ a.model = later.assigned[n]
        BY <3>1
      <4>2. a \notin given
        BY <4>1, <2>5 DEF IsGiven
      <4>3. a \notin Claim(s, in, mode, given, m)
        BY <4>1, <2>4, <2>6
      <4>4. a.model \in ms
        BY <4>2, <4>3, <2>3, <2>7
      <4>5. QED
        BY <4>1, <4>4, <2>8
    <3>2. CASE later.assigned[n] \in {None, s.default} \/ later.assigned[n] \notin in.ready
      BY <3>2, <2>1
    <3>3. QED
      BY <3>1, <3>2, <2>5 DEF Told
  <2>11. QED
    BY <2>1, <2>5, <2>9, <2>10, ClaimAgain DEF free, top
<1>4. {Claim(s, later, mode, given, x) : x \in choosing} = {Claim(s, in, mode, given, x) : x \in choosing}
  BY <1>3
<1>5. QED
  BY <1>1, <1>2, <1>4

LEMMA ClaimsExtend ==
    ASSUME NEW s, NEW in, NEW mode \in {"replicas", "percent"}, NEW given
    PROVE  Extends(given, Claims(s, in, mode, given), PolicyModels(s, mode))
<1> DEFINE N == Cardinality(Models)
<1>1. N \in Nat
  BY PlannerAssumption, FS_CardinalityType
<1>2. PICK f : IsAfter(f, s, in, mode, given, N) /\ Claims(s, in, mode, given) = f[N]
  BY ClaimsAre
<1> HIDE DEF N
<1>3. f[0] = given
  BY <1>1, <1>2 DEF IsAfter
<1>4. Extends(f[0], f[N], Remaining(s, in, mode, 0))
  BY <1>1, <1>2, AfterExtends
<1>5. QED
  BY <1>2, <1>3, <1>4 DEF Extends, Remaining

\* All policies of a mode take the same nodes again.
LEMMA ClaimsAgain ==
    ASSUME NEW s \in SpecTypes, ~SharesDefault(s), NEW in, NEW later, in.up \subseteq Nodes, Follows(in, later),
           NEW mode \in {"replicas", "percent"}, NEW given, NEW all, NEW ms,
           Told(s, in, all, later.assigned),
           Extends(Claims(s, in, mode, given), all, ms),
           ms \cap PolicyModels(s, mode) = {}
    PROVE  Claims(s, later, mode, given) = Claims(s, in, mode, given)
<1> DEFINE N == Cardinality(Models)
<1>1. N \in Nat
  BY PlannerAssumption, FS_CardinalityType
<1>2. PICK f : IsAfter(f, s, in, mode, given, N) /\ Claims(s, in, mode, given) = f[N]
  BY ClaimsAre
<1>3. PICK g : IsAfter(g, s, later, mode, given, N) /\ Claims(s, later, mode, given) = g[N]
  BY ClaimsAre
<1> HIDE DEF N
<1> DEFINE Wrong == {k \in 0..N : g[k] # f[k]}
<1>4. Wrong = {}
  <2> SUFFICES ASSUME Wrong # {} PROVE FALSE
    OBVIOUS
  <2>1. Wrong \in SUBSET Nat
    BY <1>1
  <2>2. PICK k \in Wrong : \A j \in Wrong : k <= j
    BY <2>1, Smallest
  <2>3. k # 0
    BY <1>1, <1>2, <1>3 DEF IsAfter
  <2>4. k \in Nat /\ k \in 0..N /\ N \in k..N /\ k - 1 \in 0..N /\ g[k - 1] = f[k - 1]
    BY <1>1, <2>2, <2>3
  <2>5. f[k] = ClaimsAt(s, in, mode, f[k - 1], k) /\ g[k] = ClaimsAt(s, later, mode, g[k - 1], k)
    BY <1>2, <1>3, <2>3, <2>4 DEF IsAfter
  <2>6. Extends(f[k], f[N], Remaining(s, in, mode, k))
    BY <1>1, <1>2, <2>4, AfterExtends
  <2> DEFINE rest == Remaining(s, in, mode, k) \cup ms
  <2>7. Extends(f[k], all, rest)
    BY <1>2, <2>6, ExtendsTwice
  <2>8. \A m \in rest \cap PolicyModels(s, mode) : Turn[m] # k
    BY <2>4 DEF Remaining
  <2> HIDE DEF rest
  <2>9. ClaimsAt(s, later, mode, f[k - 1], k) = ClaimsAt(s, in, mode, f[k - 1], k)
    BY <2>4, <2>5, <2>7, <2>8, ClaimsAtAgain
  <2>10. QED
    BY <2>2, <2>4, <2>5, <2>9
<1>5. QED
  BY <1>1, <1>2, <1>3, <1>4

-----------------------------------------------------------------------------
(* The whole plan *)

AllGiven(s, over, in) == Claims(s, in, "percent", Claims(s, in, "replicas", Pins(s, over, in)))

LEMMA PlanIs ==
    ASSUME NEW s, NEW over, NEW in
    PROVE  Plan(s, over, in) = PlanOf(s, in, AllGiven(s, over, in))
<1> DEFINE pins == Pins(s, over, in)
           replicas == Claims(s, in, "replicas", pins)
           percent == Claims(s, in, "percent", replicas)
<1>1. {Claims(s, in, "replicas", g) : g \in {pins}} = {replicas}
  OBVIOUS
<1>2. {Claims(s, in, "percent", g) : g \in {replicas}} = {percent}
  OBVIOUS
<1>3. {PlanOf(s, in, g) : g \in {percent}} = {PlanOf(s, in, percent)}
  OBVIOUS
<1>4. QED
  BY <1>1, <1>2, <1>3, OnceIs DEF Plan, AllGiven

\* The reason is the only thing that a benchmark changes.
LEMMA PlanForIs ==
    ASSUME NEW s, NEW over, NEW in
    PROVE  PlanFor(s, over, in)
             = [n \in Nodes |-> IF over[n] # None /\ Plan(s, over, in)[n].model = over[n]
                                THEN [Plan(s, over, in)[n] EXCEPT !.reason = "benchmark"] ELSE Plan(s, over, in)[n]]
<1> DEFINE marked(p) == [n \in Nodes |-> IF over[n] # None /\ p[n].model = over[n]
                                         THEN [p[n] EXCEPT !.reason = "benchmark"] ELSE p[n]]
<1>1. PlanFor(s, over, in) = Once({marked(p) : p \in {Plan(s, over, in)}})
  BY DEF PlanFor
<1>2. {marked(p) : p \in {Plan(s, over, in)}} = {marked(Plan(s, over, in))}
  OBVIOUS
<1>3. QED
  BY <1>1, <1>2, OnceIs

LEMMA AllGivenFacts ==
    ASSUME NEW s, NEW over, NEW in
    PROVE  /\ Pins(s, over, in) \subseteq AllGiven(s, over, in)
           /\ \A a \in AllGiven(s, over, in) : a.reason \in {"pin", "replicas", "percent"}
<1> DEFINE pins == Pins(s, over, in)
           replicas == Claims(s, in, "replicas", pins)
<1>1. Extends(pins, replicas, PolicyModels(s, "replicas"))
  BY ClaimsExtend
<1>2. Extends(replicas, AllGiven(s, over, in), PolicyModels(s, "percent"))
  BY ClaimsExtend DEF AllGiven
<1>3. \A a \in pins : a.reason = "pin"
  BY DEF Pins, Give
<1>4. QED
  BY <1>1, <1>2, <1>3 DEF Extends

\* A node that no policy has taken gets the default model.
TakesDefault(s, in, n) ==
    s.default \in in.ready /\ n \notin in.drained /\ FitsNode[s.default, n] /\ MeetsSpeed(s.default, n)

\* What a node that is not offline gets.
LEMMA PlanOfGiven ==
    ASSUME NEW s, NEW in, NEW all, NEW n \in Nodes, n \in in.up, IsGiven(n, all)
    PROVE  \E a \in all : a.node = n /\ PlanOf(s, in, all)[n] = [model |-> a.model, reason |-> a.reason]
<1> DEFINE a == CHOOSE a \in all : a.node = n
<1>1. PlanOf(s, in, all)[n] = [model |-> a.model, reason |-> a.reason]
  BY DEF PlanOf
<1>2. a \in all /\ a.node = n
  BY DEF IsGiven
<1>3. QED
  BY <1>1, <1>2

LEMMA PlanOfDefault ==
    ASSUME NEW s, NEW in, NEW all, NEW n \in Nodes, n \in in.up, ~IsGiven(n, all), TakesDefault(s, in, n)
    PROVE  PlanOf(s, in, all)[n] = [model |-> s.default, reason |-> "default"]
BY DEF PlanOf, TakesDefault

LEMMA PlanOfKept ==
    ASSUME NEW s, NEW in, NEW all, NEW n \in Nodes, n \in in.up, ~IsGiven(n, all), ~TakesDefault(s, in, n)
    PROVE  PlanOf(s, in, all)[n]
             = [model |-> in.current[n], reason |-> IF in.current[n] = None THEN "none" ELSE "keep"]
BY DEF PlanOf, TakesDefault

\* The model of a node does not depend on what the node serves, unless it
\* keeps it.
LEMMA PlanOfAgain ==
    ASSUME NEW s, NEW in, NEW later, NEW all, NEW n \in Nodes, n \in in.up, Follows(in, later),
           ~IsGiven(n, all) /\ ~TakesDefault(s, in, n) => later.current[n] = in.current[n]
    PROVE  PlanOf(s, later, all)[n].model = PlanOf(s, in, all)[n].model
<1>1. n \in later.up /\ (TakesDefault(s, later, n) <=> TakesDefault(s, in, n))
  BY DEF Follows, TakesDefault
<1>2. CASE IsGiven(n, all)
  BY <1>1, <1>2 DEF PlanOf
<1>3. CASE ~IsGiven(n, all) /\ TakesDefault(s, in, n)
  <2>1. PlanOf(s, in, all)[n] = [model |-> s.default, reason |-> "default"]
    BY <1>3, PlanOfDefault
  <2>2. PlanOf(s, later, all)[n] = [model |-> s.default, reason |-> "default"]
    BY <1>1, <1>3, PlanOfDefault
  <2>3. QED
    BY <2>1, <2>2
<1>4. CASE ~IsGiven(n, all) /\ ~TakesDefault(s, in, n)
  <2>1. PlanOf(s, in, all)[n]
          = [model |-> in.current[n], reason |-> IF in.current[n] = None THEN "none" ELSE "keep"]
    BY <1>4, PlanOfKept
  <2>2. PlanOf(s, later, all)[n]
          = [model |-> later.current[n], reason |-> IF later.current[n] = None THEN "none" ELSE "keep"]
    BY <1>1, <1>4, PlanOfKept
  <2>3. QED
    BY <1>4, <2>1, <2>2
<1>5. QED
  BY <1>2, <1>3, <1>4

\* What the controller tells a node of its plan.
LEMMA PlanForFacts ==
    ASSUME NEW s, NEW over, NEW in, NEW n \in Nodes, n \in in.up
    PROVE  LET all == AllGiven(s, over, in)
               p == PlanFor(s, over, in)[n]
           IN  /\ p.model = PlanOf(s, in, all)[n].model
               /\ IsGiven(n, all) => Assigning(p) /\ \E a \in all : a.node = n /\ a.model = p.model
               /\ ~IsGiven(n, all) /\ TakesDefault(s, in, n) => p.model = s.default
               /\ ~IsGiven(n, all) /\ ~TakesDefault(s, in, n) =>
                     p.model = in.current[n] /\ (Assigning(p) => p.model \notin in.ready)
<1> DEFINE all == AllGiven(s, over, in)
           q == PlanOf(s, in, all)[n]
           p == PlanFor(s, over, in)[n]
<1>1. p = IF over[n] # None /\ q.model = over[n] THEN [q EXCEPT !.reason = "benchmark"] ELSE q
  BY PlanForIs, PlanIs
<1>2. /\ IsGiven(n, all) => \E a \in all : a.node = n /\ q = [model |-> a.model, reason |-> a.reason]
      /\ ~IsGiven(n, all) /\ TakesDefault(s, in, n) => q = [model |-> s.default, reason |-> "default"]
      /\ ~IsGiven(n, all) /\ ~TakesDefault(s, in, n) =>
            q = [model |-> in.current[n], reason |-> IF in.current[n] = None THEN "none" ELSE "keep"]
  <2>1. IsGiven(n, all) => \E a \in all : a.node = n /\ q = [model |-> a.model, reason |-> a.reason]
    BY PlanOfGiven
  <2>2. ~IsGiven(n, all) /\ TakesDefault(s, in, n) => q = [model |-> s.default, reason |-> "default"]
    BY PlanOfDefault
  <2>3. ~IsGiven(n, all) /\ ~TakesDefault(s, in, n) =>
           q = [model |-> in.current[n], reason |-> IF in.current[n] = None THEN "none" ELSE "keep"]
    BY PlanOfKept
  <2>4. QED
    BY <2>1, <2>2, <2>3
<1>3. \E m, r : q = [model |-> m, reason |-> r]
  BY <1>2
<1>4. Pins(s, over, in) \subseteq all /\ \A a \in all : a.reason \in {"pin", "replicas", "percent"}
  BY AllGivenFacts
<1> HIDE DEF all, q, p
<1>5. /\ p.model = q.model
      /\ p.reason = q.reason \/ (p.reason = "benchmark" /\ over[n] # None /\ q.model = over[n])
  BY <1>1, <1>3
<1>6. ASSUME IsGiven(n, all) PROVE Assigning(p) /\ \E a \in all : a.node = n /\ a.model = p.model
  BY <1>2, <1>4, <1>5, <1>6 DEF Assigning
<1>7. ASSUME ~IsGiven(n, all), ~TakesDefault(s, in, n), Assigning(p), p.model \in in.ready PROVE FALSE
  <2>1. q.reason \in {"none", "keep"}
    BY <1>2, <1>7
  <2>2. over[n] # None /\ over[n] \in in.ready
    BY <2>1, <1>5, <1>7 DEF Assigning
  <2>3. Give(n, over[n], "pin") \in Pins(s, over, in)
    <3>1. <<n, over[n]>> \in {y \in in.up \X in.ready : IsPinned(s, over, y[1], y[2])}
      BY <2>2 DEF IsPinned
    <3>2. QED
      BY <3>1 DEF Pins
  <2>4. Give(n, over[n], "pin").node = n
    BY DEF Give
  <2>5. QED
    BY <2>3, <2>4, <1>4, <1>7 DEF IsGiven
<1>8. QED
  BY <1>2, <1>5, <1>6, <1>7 DEF all, q, p

\* Some nodes have begun to switch to what the plan p gave them.
Switching(p, in, following, later) ==
    /\ later.up = in.up /\ later.drained = in.drained /\ later.ready = in.ready
    /\ \A n \in following : Assigning(p[n]) /\ in.current[n] # p[n].model
    /\ \A n \in in.up : later.assigned[n] = AssignedBy(p)[n]
    /\ \A n \in in.up : later.current[n] = IF n \in following THEN p[n].model ELSE in.current[n]

\* That changes no plan, whatever the plan p was made from.
LEMMA PlanAgain ==
    ASSUME NEW s \in SpecTypes, ~SharesDefault(s), NEW over, NEW in, in.up \subseteq Nodes,
           NEW following, NEW later, Switching(PlanFor(s, over, in), in, following, later)
    PROVE  \A n \in in.up : PlanFor(s, over, later)[n].model = PlanFor(s, over, in)[n].model
<1> DEFINE p == PlanFor(s, over, in)
<1> USE DEF Switching
<1> DEFINE pins == Pins(s, over, in)
           replicas == Claims(s, in, "replicas", pins)
           all == AllGiven(s, over, in)
<1>1. \A n \in in.up : n \in Nodes /\ later.assigned[n] = (IF Assigning(p[n]) THEN p[n].model ELSE None)
  BY DEF AssignedBy
<1>2. Follows(in, later)
  BY <1>1 DEF Follows
<1>3. ASSUME NEW n \in in.up
      PROVE  /\ p[n].model = PlanOf(s, in, all)[n].model
             /\ IsGiven(n, all) => Assigning(p[n]) /\ \E a \in all : a.node = n /\ a.model = p[n].model
             /\ ~IsGiven(n, all) /\ TakesDefault(s, in, n) => p[n].model = s.default
             /\ ~IsGiven(n, all) /\ ~TakesDefault(s, in, n) =>
                   p[n].model = in.current[n] /\ (Assigning(p[n]) => p[n].model \notin in.ready)
  BY PlanForFacts
<1>4. Told(s, in, all, later.assigned)
  BY <1>1, <1>3 DEF Told
<1>5. Pins(s, over, later) = pins
  BY DEF Pins
<1>6. Extends(replicas, all, PolicyModels(s, "percent"))
  BY ClaimsExtend DEF AllGiven
<1>7. PolicyModels(s, "percent") \cap PolicyModels(s, "replicas") = {}
  BY DEF PolicyModels
<1>8. Claims(s, later, "replicas", pins) = replicas
  BY <1>2, <1>4, <1>6, <1>7, ClaimsAgain
<1>9. Extends(all, all, {})
  BY DEF Extends
<1>10. Claims(s, later, "percent", replicas) = all
  <2>1. all = Claims(s, in, "percent", replicas)
    BY DEF AllGiven
  <2>2. {} \cap PolicyModels(s, "percent") = {}
    OBVIOUS
  <2>3. QED
    BY <1>2, <1>4, <1>9, <2>1, <2>2, ClaimsAgain
<1>11. AllGiven(s, over, later) = all
  BY <1>5, <1>8, <1>10 DEF AllGiven
<1>12. ASSUME NEW n \in in.up PROVE PlanFor(s, over, later)[n].model = p[n].model
  <2>1. n \in Nodes /\ n \in later.up
    BY <1>1
  <2>2. PlanFor(s, over, later)[n].model = PlanOf(s, later, all)[n].model
    BY <2>1, <1>11, PlanForFacts
  <2>3. ~IsGiven(n, all) /\ ~TakesDefault(s, in, n) => later.current[n] = in.current[n]
    BY <1>3, <2>1
  <2>4. PlanOf(s, later, all)[n].model = PlanOf(s, in, all)[n].model
    BY <2>1, <2>3, <1>2, PlanOfAgain
  <2>5. QED
    BY <2>2, <2>4, <1>3
<1>13. QED
  BY <1>12

-----------------------------------------------------------------------------
(* What a plan gives *)

\* A policy takes as many of the free nodes as it wants, or all there are, and
\* none that it prefers is left, whatever was given before (Plan, preferFor).
THEOREM PolicyTakesItsShare ==
    ASSUME NEW s \in SpecTypes, NEW in, in.up \subseteq Nodes, NEW mode, NEW m \in PolicyModels(s, mode), NEW given
    PROVE  LET taken == {a.node : a \in Claim(s, in, mode, given, m)}
               free == Free(s, in, given, m)
               want == Want(s, in, mode, m)
           IN  /\ taken \subseteq free
               /\ Cardinality(taken) = want \/ (taken = free /\ Cardinality(taken) <= want)
               /\ \A x \in taken, y \in free \ taken : Prefers(m, in, x, y)
<1> DEFINE taken == {a.node : a \in Claim(s, in, mode, given, m)}
           free == Free(s, in, given, m)
           want == Want(s, in, mode, m)
           top == Top(m, in, free, want)
<1>1. free \in SUBSET Nodes /\ want \in Nat
  BY FreeFacts
<1>2. /\ top \subseteq free /\ Cardinality(top) \in Nat /\ Cardinality(top) <= want
      /\ \A x \in top, y \in free \ top : Prefers(m, in, x, y)
      /\ top = free \/ Cardinality(top) >= want
  BY <1>1, TopFacts
<1>3. taken = top
  <2>1. Claim(s, in, mode, given, m) = {Give(n, m, mode) : n \in top}
    BY ClaimIs
  <2>2. \A n : Give(n, m, mode).node = n
    BY DEF Give
  <2> HIDE DEF top
  <2>3. QED
    BY <2>1, <2>2
<1> HIDE DEF taken, free, want, top
<1>4. Cardinality(taken) = want \/ (taken = free /\ Cardinality(taken) <= want)
  BY <1>1, <1>2, <1>3
<1>5. QED
  BY <1>2, <1>3, <1>4 DEF taken, free, want

\* No node has two assignments.
OneEach(given) == \A a, b \in given : a.node = b.node => a = b

LEMMA PinsAreOneEach ==
    ASSUME NEW s, NEW nodes, NEW models, Validate(s, nodes, models), NEW over, NEW in, in.ready \subseteq Models
    PROVE  OneEach(Pins(s, over, in))
<1> SUFFICES ASSUME NEW a \in Pins(s, over, in), NEW b \in Pins(s, over, in), a.node = b.node PROVE a = b
  BY DEF OneEach
<1>1. PICK x \in in.up \X in.ready : IsPinned(s, over, x[1], x[2]) /\ a = Give(x[1], x[2], "pin")
  BY DEF Pins
<1>2. PICK y \in in.up \X in.ready : IsPinned(s, over, y[1], y[2]) /\ b = Give(y[1], y[2], "pin")
  BY DEF Pins
<1>3. x[1] = y[1] /\ x[2] \in Models /\ y[2] \in Models
  BY <1>1, <1>2 DEF Give
<1>4. x[2] = y[2]
  <2>1. CASE over[x[1]] # None
    BY <1>1, <1>2, <1>3, <2>1 DEF IsPinned
  <2>2. CASE over[x[1]] = None
    <3>1. x[2] \in PolicyModels(s, "pin") /\ y[2] \in PolicyModels(s, "pin")
      BY <1>1, <1>2, <1>3, <2>2 DEF IsPinned, PolicyModels
    <3>2. x[1] \in s.policy[x[2]].nodes \cap s.policy[y[2]].nodes
      BY <1>1, <1>2, <1>3, <2>2 DEF IsPinned
    <3>3. \A m \in PolicyModels(s, "pin") : \A o \in PolicyModels(s, "pin") \ {m} :
             s.policy[m].nodes \cap s.policy[o].nodes = {}
      BY Zenon DEF Validate
    <3>4. QED
      BY <3>1, <3>2, <3>3
  <2>3. QED
    BY <2>1, <2>2
<1>5. QED
  BY <1>1, <1>2, <1>3, <1>4

LEMMA ClaimsAtAreOneEach ==
    ASSUME NEW s, NEW in, NEW mode, NEW given, OneEach(given), NEW k
    PROVE  OneEach(ClaimsAt(s, in, mode, given, k))
<1> DEFINE choosing == {m \in PolicyModels(s, mode) \cap in.ready : Turn[m] = k}
<1>1. \A a \in ClaimsAt(s, in, mode, given, k) \ given : \E m \in choosing : a \in Claim(s, in, mode, given, m)
  BY DEF ClaimsAt
<1>2. \A a \in ClaimsAt(s, in, mode, given, k) \ given :
         ~IsGiven(a.node, given) /\ \E m \in choosing : a = Give(a.node, m, mode)
  BY <1>1, ClaimGives
<1>3. \A m, o \in choosing : m = o
  BY TurnsDiffer DEF PolicyModels
<1> HIDE DEF choosing
<1>4. QED
  BY <1>2, <1>3 DEF OneEach, IsGiven

LEMMA ClaimsAreOneEach ==
    ASSUME NEW s, NEW in, NEW mode, NEW given, OneEach(given)
    PROVE  OneEach(Claims(s, in, mode, given))
<1> DEFINE N == Cardinality(Models)
<1>1. N \in Nat
  BY PlannerAssumption, FS_CardinalityType
<1>2. PICK f : IsAfter(f, s, in, mode, given, N) /\ Claims(s, in, mode, given) = f[N]
  BY ClaimsAre
<1> HIDE DEF N
<1> DEFINE Wrong == {k \in 0..N : ~OneEach(f[k])}
<1>3. Wrong = {}
  <2> SUFFICES ASSUME Wrong # {} PROVE FALSE
    OBVIOUS
  <2>1. Wrong \in SUBSET Nat
    BY <1>1
  <2>2. PICK k \in Wrong : \A j \in Wrong : k <= j
    BY <2>1, Smallest
  <2>3. k # 0
    BY <1>1, <1>2 DEF IsAfter
  <2>4. k \in 0..N /\ k - 1 \in 0..N /\ OneEach(f[k - 1])
    BY <1>1, <2>2, <2>3
  <2>5. f[k] = ClaimsAt(s, in, mode, f[k - 1], k)
    BY <1>2, <2>3, <2>4 DEF IsAfter
  <2>6. QED
    BY <2>2, <2>4, <2>5, ClaimsAtAreOneEach
<1>4. QED
  BY <1>1, <1>2, <1>3

\* The plan of a valid spec gives no node to two policies, nor twice to one:
\* what a node gets does not depend on the order in which the assignments are
\* looked at (Plan, Validate, withOverrides).
THEOREM NodesGetOneModel ==
    ASSUME NEW s, NEW nodes, NEW models, Validate(s, nodes, models), NEW over, NEW in, in.ready \subseteq Models
    PROVE  OneEach(AllGiven(s, over, in))
<1>1. OneEach(Claims(s, in, "replicas", Pins(s, over, in)))
  BY PinsAreOneEach, ClaimsAreOneEach
<1>2. QED
  BY <1>1, ClaimsAreOneEach DEF AllGiven

-----------------------------------------------------------------------------
(* Every step keeps the plan up to date, or says that it is not *)

PlanTypeOK ==
    /\ up \subseteq Nodes
    /\ spec \in SpecTypes /\ putting \in Specs \cup {None}
    /\ catalog \in [Models -> {"absent", "known", "ready"}] /\ deleting \in Models \cup {None}

\* What the planner knows, with any earlier assignments.
InputsWith(assigned) ==
    [up |-> up, drained |-> drained, current |-> current, ready |-> Ready, assigned |-> assigned]

FreshInv == fresh => \E assigned : plan = PlanFor(spec, override, InputsWith(assigned))

LEMMA StableWhenFresh ==
    ASSUME PlanTypeOK, FreshInv
    PROVE  PlanIsStable
<1> SUFFICES ASSUME ~SharesDefault(spec), fresh,
                    NEW following \in SUBSET {n \in up : Assigning(plan[n]) /\ current[n] # plan[n].model},
                    NEW later, later = [Inputs EXCEPT !.current =
                                          [n \in Nodes |-> IF n \in following THEN plan[n].model ELSE current[n]]],
                    NEW n \in up
             PROVE  PlanFor(spec, override, later)[n].model = plan[n].model
  BY DEF PlanIsStable, PlansDoNotFlap
<1>1. PICK assigned : plan = PlanFor(spec, override, InputsWith(assigned))
  BY DEF FreshInv
<1> DEFINE in == InputsWith(assigned)
<1>2. in.up = up /\ in.drained = drained /\ in.current = current /\ in.ready = Ready
  BY DEF InputsWith
<1>3. /\ later.up = up /\ later.drained = drained /\ later.ready = Ready
      /\ later.assigned = AssignedBy(plan)
      /\ later.current = [x \in Nodes |-> IF x \in following THEN plan[x].model ELSE current[x]]
  BY DEF Inputs
<1>4. plan = PlanFor(spec, override, in)
  BY <1>1
<1> HIDE DEF in
<1>5. in.up \subseteq Nodes /\ spec \in SpecTypes
  BY <1>2 DEF PlanTypeOK
<1>6. Switching(plan, in, following, later)
  BY <1>2, <1>3, <1>5 DEF Switching
<1>7. \A x \in in.up : PlanFor(spec, override, later)[x].model = PlanFor(spec, override, in)[x].model
  BY <1>4, <1>5, <1>6, PlanAgain
<1>8. QED
  BY <1>2, <1>4, <1>7

PlanInv == PlanTypeOK /\ FreshInv

\* At first nothing is planned, nothing is claimed, and every node keeps what
\* it has: nothing.
LEMMA PlanInitially == PlacementInit => PlanInv
<1> SUFFICES ASSUME PlacementInit PROVE PlanInv
  OBVIOUS
<1>1. PlanTypeOK
  BY PlacementAssumption DEF PlacementInit, PlanTypeOK, NoSpec, SpecTypes
<1> DEFINE in == InputsWith(<<>>)
           all == AllGiven(spec, override, in)
<1>2. in.up = Nodes /\ in.ready \subseteq Models /\ in.current = [n \in Nodes |-> None]
  BY DEF InputsWith, PlacementInit, Ready
<1>3. spec.policy = [m \in Models |-> None] /\ spec.default = None /\ override = [n \in Nodes |-> None]
  BY DEF PlacementInit, NoSpec
<1>4. Pins(spec, override, in) = {}
  <2> SUFFICES ASSUME NEW y \in in.up \X in.ready, IsPinned(spec, override, y[1], y[2]) PROVE FALSE
    BY DEF Pins
  <2>1. y[1] \in Nodes /\ y[2] \in Models
    BY <1>2
  <2>2. QED
    BY <2>1, <1>3 DEF IsPinned
<1>5. \A mode : PolicyModels(spec, mode) = {}
  BY <1>3 DEF PolicyModels
<1>6. all = {}
  <2> DEFINE replicas == Claims(spec, in, "replicas", {})
  <2>1. Extends({}, replicas, {})
    BY <1>5, ClaimsExtend
  <2>2. replicas = {}
    BY <2>1 DEF Extends
  <2>3. Extends({}, Claims(spec, in, "percent", {}), {})
    BY <1>5, ClaimsExtend
  <2>4. Claims(spec, in, "percent", {}) = {}
    BY <2>3 DEF Extends
  <2>5. QED
    BY <1>4, <2>2, <2>4 DEF AllGiven
<1> HIDE DEF in
<1>7. ASSUME NEW n \in Nodes PROVE PlanOf(spec, in, all)[n] = Unassigned
  <2>1. ~IsGiven(n, all) /\ n \in in.up /\ in.current[n] = None
    BY <1>2, <1>6 DEF IsGiven
  <2>2. ~TakesDefault(spec, in, n)
    BY <1>2, <1>3, PlannerAssumption DEF TakesDefault
  <2>3. QED
    BY <2>1, <2>2, PlanOfKept DEF Unassigned
<1>8. ASSUME NEW n \in Nodes PROVE PlanFor(spec, override, in)[n] = Unassigned
  BY <1>3, <1>7, PlanForIs, PlanIs
<1>9. PlanFor(spec, override, in) = [n \in Nodes |-> Unassigned]
  BY <1>8, PlanForIs
<1>10. QED
  BY <1>1, <1>9 DEF PlanInv, FreshInv, PlacementInit, in

LEMMA PlanTypeStep == ASSUME PlanTypeOK, [PlacementNext]_placementVars PROVE PlanTypeOK'
<1> USE PlacementAssumption
<1>1. up' \subseteq Nodes
  BY DEF PlanTypeOK, PlacementNext, placementVars, nodeVars, CatalogChanges, CheckUsers, NodeReports, NodeLeaves, NodeReturns,
         Bench, BenchDrain, BenchLoad, BenchProbes, BenchEndsModel, BenchRestore, Drain, ValidatePlacement, SetDefault,
         SetPlacement, RemoveModel, ReplanTick, MMBStart, MMBCancel, MMBEnds, Crash
<1>2. putting' \in Specs \cup {None}
  BY DEF PlanTypeOK, PlacementNext, placementVars, specVars, CatalogChanges, CheckUsers, NodeReports, NodeLeaves, NodeReturns,
         Bench, BenchDrain, BenchLoad, BenchProbes, BenchEndsModel, BenchRestore, Drain, ValidatePlacement,
         SetDefault, SetPlacement, RemoveModel, ReplanTick, MMBStart, MMBCancel, MMBEnds, Crash
<1>3. spec' \in SpecTypes
  <2>1. \/ spec' = spec
        \/ spec' = putting /\ putting # None
        \/ \E m \in Models \cup {None} : spec' = [spec EXCEPT !.default = m]
    BY DEF PlacementNext, placementVars, specVars, CatalogChanges, CheckUsers, NodeReports, NodeLeaves, NodeReturns,
           Bench, BenchDrain, BenchLoad, BenchProbes, BenchEndsModel, BenchRestore, Drain, ValidatePlacement,
           SetDefault, SetPlacement, RemoveModel, ReplanTick, MMBStart, MMBCancel, MMBEnds, Crash
  <2>2. ASSUME NEW m \in Models \cup {None} PROVE [spec EXCEPT !.default = m] \in SpecTypes
    BY DEF PlanTypeOK, SpecTypes
  <2>3. QED
    BY <2>1, <2>2 DEF PlanTypeOK, SpecTypes
<1>4. catalog' \in [Models -> {"absent", "known", "ready"}] /\ deleting' \in Models \cup {None}
  BY DEF PlanTypeOK, PlacementNext, placementVars, specVars, CatalogChanges, CheckUsers, NodeReports, NodeLeaves,
         NodeReturns, Bench, BenchDrain, BenchLoad, BenchProbes, BenchEndsModel, BenchRestore, Drain, ValidatePlacement,
         SetDefault, SetPlacement, RemoveModel, ReplanTick, MMBStart, MMBCancel, MMBEnds, Crash, Known
<1>5. QED
  BY <1>1, <1>2, <1>3, <1>4 DEF PlanTypeOK

\* A plan that was just made is made from what is now known.
LEMMA FreshAfterReplan ==
    ASSUME NEW in, NEW s, NEW over, Replan(s, over, in), s = spec', over = override', NEW assigned,
           in = [up |-> up', drained |-> drained', current |-> current', ready |-> Ready', assigned |-> assigned]
    PROVE  FreshInv'
BY DEF Replan, FreshInv, InputsWith

\* What the planner is told of has just changed.
LEMMA InputsExcept ==
    ASSUME NEW x, NEW assigned
    PROVE  /\ [Inputs EXCEPT !.ready = x]
                = [up |-> up, drained |-> drained, current |-> current, ready |-> x, assigned |-> AssignedBy(plan)]
           /\ [Inputs EXCEPT !.up = x]
                = [up |-> x, drained |-> drained, current |-> current, ready |-> Ready, assigned |-> AssignedBy(plan)]
           /\ [Inputs EXCEPT !.drained = x]
                = [up |-> up, drained |-> x, current |-> current, ready |-> Ready, assigned |-> AssignedBy(plan)]
           /\ [Inputs EXCEPT !.drained = x, !.assigned = assigned]
                = [up |-> up, drained |-> x, current |-> current, ready |-> Ready, assigned |-> assigned]
<1>1. Inputs = [up |-> up, drained |-> drained, current |-> current, ready |-> Ready, assigned |-> AssignedBy(plan)]
  BY DEF Inputs
<1>2. [Inputs EXCEPT !.ready = x]
         = [up |-> up, drained |-> drained, current |-> current, ready |-> x, assigned |-> AssignedBy(plan)]
  BY <1>1
<1>3. [Inputs EXCEPT !.up = x]
         = [up |-> x, drained |-> drained, current |-> current, ready |-> Ready, assigned |-> AssignedBy(plan)]
  BY <1>1
<1>4. [Inputs EXCEPT !.drained = x]
         = [up |-> up, drained |-> x, current |-> current, ready |-> Ready, assigned |-> AssignedBy(plan)]
  BY <1>1
<1>5. [Inputs EXCEPT !.drained = x, !.assigned = assigned]
         = [up |-> up, drained |-> x, current |-> current, ready |-> Ready, assigned |-> assigned]
  <2> DEFINE r == [Inputs EXCEPT !.drained = x, !.assigned = assigned]
  <2>1. r \in [up : {up}, drained : {x}, current : {current}, ready : {Ready}, assigned : {assigned}]
    BY <1>1
  <2> HIDE DEF r
  <2>2. r = [up |-> up, drained |-> x, current |-> current, ready |-> Ready, assigned |-> assigned]
    BY <2>1
  <2>3. QED
    BY <2>2 DEF r
<1>6. QED
  BY <1>2, <1>3, <1>4, <1>5

\* Nothing that the planner knows has changed.
LEMMA FreshUnchanged ==
    ASSUME FreshInv, UNCHANGED <<catalog, up, drained, current, spec, override, plan>>, fresh' => fresh
    PROVE  FreshInv'
BY DEF FreshInv, InputsWith, Ready

LEMMA FreshStep == ASSUME PlanTypeOK, FreshInv, [PlacementNext]_placementVars PROVE FreshInv'
<1> USE DEF nodeVars, specVars, mmbVars, planVars
<1>1. CASE UNCHANGED placementVars
  BY <1>1, FreshUnchanged DEF placementVars
<1>2. ASSUME NEW m \in Changing, CatalogChanges(m) PROVE FreshInv'
  <2> DEFINE in == [Inputs EXCEPT !.ready = {x \in Models : catalog'[x] = "ready"}]
  <2>1. Replan(spec, override, in) /\ UNCHANGED <<nodeVars, spec, override>>
    BY <1>2 DEF CatalogChanges
  <2>2. in = [up |-> up', drained |-> drained', current |-> current', ready |-> Ready', assigned |-> AssignedBy(plan)]
    BY <2>1, InputsExcept DEF Ready
  <2>3. QED
    BY <2>1, <2>2, FreshAfterReplan
<1>3. ASSUME NEW m \in Changing, CheckUsers(m) PROVE FreshInv'
  BY <1>3, FreshUnchanged DEF CheckUsers
<1>4. ASSUME NEW n \in Nodes, NodeReports(n) \/ NodeLeaves(n) PROVE FreshInv'
  BY <1>4 DEF NodeReports, NodeLeaves, FreshInv
<1>5. ASSUME NEW n \in Nodes, NodeReturns(n) PROVE FreshInv'
  <2> DEFINE in == [Inputs EXCEPT !.up = up']
  <2>1. Replan(spec, override, in) /\ UNCHANGED <<catalog, drained, current, spec, override>>
    BY <1>5 DEF NodeReturns
  <2>2. in = [up |-> up', drained |-> drained', current |-> current', ready |-> Ready', assigned |-> AssignedBy(plan)]
    BY <2>1, InputsExcept DEF Ready
  <2>3. QED
    BY <2>1, <2>2, FreshAfterReplan
<1>6. ASSUME NEW n \in Nodes, BenchDrain(n) PROVE FreshInv'
  <2>1. fresh' = (fresh /\ drained' = drained)
    BY <1>6 DEF BenchDrain
  <2>2. CASE drained' = drained
    BY <1>6, <2>1, <2>2, FreshUnchanged DEF BenchDrain
  <2>3. CASE drained' # drained
    BY <2>1, <2>3 DEF FreshInv
  <2>4. QED
    BY <2>2, <2>3
<1>7. ASSUME NEW n \in Nodes, BenchLoad(n) PROVE FreshInv'
  BY <1>7, FreshAfterReplan DEF BenchLoad, Inputs, Ready
<1>8. ASSUME NEW n \in Nodes, BenchProbes(n) \/ BenchEndsModel(n) PROVE FreshInv'
  BY <1>8, FreshUnchanged DEF BenchProbes, BenchEndsModel
<1>9. ASSUME NEW n \in Nodes, BenchRestore(n) PROVE FreshInv'
  <2>1. CASE bench[n].was
    BY <1>9, <2>1, FreshAfterReplan DEF BenchRestore, Inputs, Ready
  <2>2. CASE ~bench[n].was
    <3> DEFINE earlier == AssignedBy(PlanFor(spec, override', Inputs))
               in == [Inputs EXCEPT !.drained = drained', !.assigned = earlier]
    <3>1. Replan(spec, override', in) /\ UNCHANGED <<catalog, up, current, spec>>
      BY <1>9, <2>2 DEF BenchRestore
    <3>2. in = [up |-> up', drained |-> drained', current |-> current', ready |-> Ready', assigned |-> earlier]
      BY <3>1, InputsExcept DEF Ready
    <3> HIDE DEF earlier, in
    <3>3. QED
      BY <3>1, <3>2, FreshAfterReplan
  <2>3. QED
    BY <2>1, <2>2
<1>10. ASSUME NEW n \in Attended, NEW drain \in BOOLEAN, Drain(n, drain) PROVE FreshInv'
  <2> DEFINE in == [Inputs EXCEPT !.drained = drained']
  <2>1. Replan(spec, override, in) /\ UNCHANGED <<catalog, up, current, spec, override>>
    BY <1>10 DEF Drain
  <2>2. in = [up |-> up', drained |-> drained', current |-> current', ready |-> Ready', assigned |-> AssignedBy(plan)]
    BY <2>1, InputsExcept DEF Ready
  <2>3. QED
    BY <2>1, <2>2, FreshAfterReplan
<1>11. ASSUME NEW s \in Specs, ValidatePlacement(s) PROVE FreshInv'
  BY <1>11, FreshUnchanged DEF ValidatePlacement
<1>12. ASSUME NEW m \in Models \ Changing, NEW on \in BOOLEAN, SetDefault(m, on) PROVE FreshInv'
  BY <1>12, FreshAfterReplan DEF SetDefault, Inputs, Ready
<1>13. CASE SetPlacement
  <2>1. CASE spec' = putting /\ Replan(putting, override, Inputs)
    BY <1>13, <2>1, FreshAfterReplan DEF SetPlacement, Inputs, Ready
  <2>2. CASE UNCHANGED <<spec, planVars>>
    BY <1>13, <2>2, FreshUnchanged DEF SetPlacement
  <2>3. QED
    BY <1>13, <2>1, <2>2 DEF SetPlacement
<1>14. CASE RemoveModel
  <2>1. Ready' = Ready \ {deleting}
    BY <1>14 DEF RemoveModel, Ready, PlanTypeOK
  <2> DEFINE in == [Inputs EXCEPT !.ready = Ready \ {deleting}]
  <2>2. Replan(spec, override, in) /\ UNCHANGED <<nodeVars, spec, override>>
    BY <1>14 DEF RemoveModel
  <2>3. in = [up |-> up', drained |-> drained', current |-> current', ready |-> Ready', assigned |-> AssignedBy(plan)]
    BY <2>1, <2>2, InputsExcept
  <2>4. QED
    BY <2>2, <2>3, FreshAfterReplan
<1>15. CASE ReplanTick
  BY <1>15, FreshAfterReplan DEF ReplanTick, Inputs, Ready
<1>16. CASE \/ \E nodes \in Benchmarks, parallel \in BOOLEAN : MMBStart(nodes, parallel)
            \/ MMBCancel \/ MMBEnds
  BY <1>16, FreshUnchanged DEF MMBStart, MMBCancel, MMBEnds
<1>17. CASE Crash
  <2> DEFINE none == [n \in Nodes |-> None]
             in == [Inputs EXCEPT !.drained = {}, !.assigned = none]
  <2>1. Replan(spec, override', in) /\ drained' = {} /\ UNCHANGED <<catalog, up, current, spec>>
    BY <1>17 DEF Crash
  <2>2. in = [up |-> up', drained |-> drained', current |-> current', ready |-> Ready', assigned |-> none]
    BY <2>1, InputsExcept DEF Ready
  <2> HIDE DEF none, in
  <2>3. QED
    BY <2>1, <2>2, FreshAfterReplan
<1>18. QED
  BY <1>1, <1>2, <1>3, <1>4, <1>5, <1>6, <1>7, <1>8, <1>9, <1>10, <1>11, <1>12, <1>13, <1>14, <1>15, <1>16, <1>17
     DEF PlacementNext, Bench

\* Nodes that begin to switch to what they were given, in any order and some
\* of them only, make no plan give any node another model, unless the default
\* model has a share of its own; for any nodes, models and specs, and whatever
\* happened before (Plan, preferFor, planInputs).
THEOREM PlansAreStable == PlacementSpec => []PlanIsStable
<1>1. ASSUME PlanInv, [PlacementNext]_placementVars PROVE PlanInv'
  BY <1>1, PlanTypeStep, FreshStep DEF PlanInv
<1>2. PlanInv => PlanIsStable
  BY StableWhenFresh DEF PlanInv
<1>3. QED
  BY <1>1, <1>2, PlanInitially, PTL DEF PlacementSpec
=============================================================================
