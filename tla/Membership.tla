----------------------------- MODULE Membership -----------------------------
(***************************************************************************)
(* The node agents' sessions with the controller. An agent registers,      *)
(* benchmarks its phone, reports the result and then sends heartbeats; it   *)
(* makes one call at a time and gives up on a call after ten seconds or on *)
(* a broken connection. The controller side is the module Registry.        *)
(*                                                                         *)
(* A call an agent gave up on may have been handled already, may be lost,  *)
(* or, for the kinds of calls in LateCalls, may still reach the controller *)
(* after calls the agent made later: its bytes sit in the old connection,  *)
(* or its handler has not run yet.                                         *)
(*                                                                         *)
(* MaxFaults bounds the failed calls, agent crashes, controller restarts   *)
(* and Forgets of a behaviour. Backoff and heartbeat intervals are         *)
(* abstracted to "some later step".                                        *)
(***************************************************************************)
EXTENDS Registry

CONSTANTS
    LateCalls,      \* the kinds of abandoned calls that may still arrive
    MaxFaults       \* bound on faults

ASSUME MembershipAssumption ==
    /\ LateCalls \subseteq {"register", "benchmark", "heartbeat"}
    /\ MaxFaults \in Nat

VARIABLES
    pc,         \* where an agent's session is; the name of the call it makes
    call,       \* that call: nothing, sent, its answer, or given up
    failures,   \* consecutive failed heartbeats of a session
    late,       \* abandoned calls that may still arrive
    faults      \* faults so far

agentVars == <<pc, call, failures, late>>
allVars == <<regVars, agentVars, faults>>

Calls == {"register", "benchmark", "heartbeat"}

MembershipTypeOK ==
    /\ pc \in [Nodes -> Calls \cup {"down", "backoff", "measure", "wait"}]
    /\ call \in [Nodes -> {"none", "sent", "ok", "unknown", "failed"}]
    /\ failures \in [Nodes -> 0..2]
    /\ late \in [Nodes -> SUBSET LateCalls]
    /\ faults \in 0..MaxFaults

MembershipInit ==
    /\ Init
    /\ pc = [n \in Nodes |-> "down"]
    /\ call = [n \in Nodes |-> "none"]
    /\ failures = [n \in Nodes |-> 0]
    /\ late = [n \in Nodes |-> {}]
    /\ faults = 0

-----------------------------------------------------------------------------
(* The agent *)

\* Agent n goes to place p of its session, with c as its call.
Goto(n, p, c) ==
    /\ pc' = [pc EXCEPT ![n] = p]
    /\ call' = [call EXCEPT ![n] = c]
    /\ UNCHANGED <<regVars, late, faults>>

Start(n) ==
    /\ pc[n] = "down"
    /\ Goto(n, "backoff", "none")
    /\ UNCHANGED failures

SendRegister(n) ==
    /\ pc[n] = "backoff"
    /\ Goto(n, "register", "sent")
    /\ UNCHANGED failures

\* The measurement of an earlier session is reused: this only takes less time.
Registered(n) ==
    /\ pc[n] = "register" /\ call[n] = "ok"
    /\ Goto(n, "measure", "none")
    /\ UNCHANGED failures

SendBenchmark(n) ==
    /\ pc[n] = "measure"
    /\ Goto(n, "benchmark", "sent")
    /\ UNCHANGED failures

\* Mutant: a benchmark report that failed is only logged.
BenchmarkSent(n) ==
    /\ pc[n] = "benchmark" /\ call[n] \in {"ok", "failed"}
    /\ Goto(n, "heartbeat", "sent")
    /\ failures' = [failures EXCEPT ![n] = 0]

\* The first heartbeat follows at once.
BenchmarkAccepted(n) ==
    /\ pc[n] = "benchmark" /\ call[n] = "ok"
    /\ Goto(n, "heartbeat", "sent")
    /\ failures' = [failures EXCEPT ![n] = 0]

SendHeartbeat(n) ==
    /\ pc[n] = "wait"
    /\ Goto(n, "heartbeat", "sent")
    /\ UNCHANGED failures

HeartbeatAccepted(n) ==
    /\ pc[n] = "heartbeat" /\ call[n] = "ok"
    /\ Goto(n, "wait", "none")
    /\ failures' = [failures EXCEPT ![n] = 0]

\* Two failed heartbeats in a row are tolerated.
HeartbeatFailed(n) ==
    /\ pc[n] = "heartbeat" /\ call[n] = "failed" /\ failures[n] < 2
    /\ Goto(n, "wait", "none")
    /\ failures' = [failures EXCEPT ![n] = @ + 1]

\* Any other error, and "unknown node" from any call, ends the session.
EndSession(n) ==
    /\ \/ call[n] = "unknown"
       \/ call[n] = "failed" /\ pc[n] \in {"register", "benchmark"}
       \/ call[n] = "failed" /\ pc[n] = "heartbeat" /\ failures[n] = 2
    /\ Goto(n, "backoff", "none")
    /\ UNCHANGED failures

AgentStep(n) ==
    \/ SendRegister(n) \/ Registered(n) \/ SendBenchmark(n) \/ BenchmarkAccepted(n)
    \/ SendHeartbeat(n) \/ HeartbeatAccepted(n) \/ HeartbeatFailed(n) \/ EndSession(n)

-----------------------------------------------------------------------------
(* The controller's handlers *)

\* What the controller does with call c of node n.
Effect(n, c) ==
    \/ c = "register" /\ Register(n)
    \/ c = "benchmark" /\ ReportBenchmark(n)
    \/ c = "heartbeat" /\ \E r \in BOOLEAN : Heartbeat(n, r)

Refused(n, c) == c # "register" /\ ~Known(n)

Handle(n) ==
    /\ call[n] = "sent"
    /\ \/ /\ Effect(n, pc[n])
          /\ call' = [call EXCEPT ![n] = "ok"]
       \/ /\ Refused(n, pc[n])
          /\ call' = [call EXCEPT ![n] = "unknown"]
          /\ UNCHANGED regVars
    /\ UNCHANGED <<pc, failures, late, faults>>

\* An abandoned call arrives; nobody reads its answer.
HandleLate(n, c) ==
    /\ c \in late[n]
    /\ late' = [late EXCEPT ![n] = @ \ {c}]
    /\ \/ Effect(n, c)
       \/ Refused(n, c) /\ UNCHANGED regVars
    /\ UNCHANGED <<pc, call, failures, faults>>

-----------------------------------------------------------------------------
(* Faults *)

Fault == faults < MaxFaults /\ faults' = faults + 1

\* What may become of the call agent n abandons.
Abandon(n) ==
    \/ UNCHANGED late
    \/ /\ pc[n] \in LateCalls /\ call[n] = "sent"
       /\ late' = [late EXCEPT ![n] = @ \cup {pc[n]}]

\* A timeout or a broken connection, before or after the call was handled.
FailCall(n) ==
    /\ Fault
    /\ call[n] \in {"sent", "ok", "unknown"}
    /\ Abandon(n)
    /\ call' = [call EXCEPT ![n] = "failed"]
    /\ UNCHANGED <<regVars, pc, failures>>

\* The phone loses power or the agent is killed. It may stay down.
Crash(n) ==
    /\ Fault
    /\ pc[n] # "down"
    /\ Abandon(n)
    /\ pc' = [pc EXCEPT ![n] = "down"]
    /\ call' = [call EXCEPT ![n] = "none"]
    /\ failures' = [failures EXCEPT ![n] = 0]
    /\ UNCHANGED regVars

RestartController == Fault /\ Restart /\ UNCHANGED agentVars
ForgetNode(n) == Fault /\ Forget(n) /\ UNCHANGED agentVars

-----------------------------------------------------------------------------
MembershipNext ==
    \/ \E n \in Nodes : Start(n) \/ AgentStep(n) \/ Handle(n)
    \/ \E n \in Nodes, c \in Calls : HandleLate(n, c)
    \/ \E n \in Nodes : FailCall(n) \/ Crash(n) \/ ForgetNode(n)
    \/ RestartController
    \/ (Sweep \/ Tick) /\ UNCHANGED <<agentVars, faults>>

MembershipSpec == MembershipInit /\ [][MembershipNext]_allVars

\* A running agent's loop goes on, a call that is not abandoned is handled,
\* and the controller's ticker and the clock go on. Nothing has to crash, to
\* fail, to arrive late or to be switched on again.
MembershipFairness ==
    /\ \A n \in Nodes : WF_allVars(AgentStep(n)) /\ WF_allVars(Handle(n))
    /\ WF_allVars(Sweep /\ UNCHANGED <<agentVars, faults>>)
    /\ WF_allVars(Tick /\ UNCHANGED <<agentVars, faults>>)

MembershipFairSpec == MembershipSpec /\ MembershipFairness

-----------------------------------------------------------------------------
(* Properties *)

\* A node whose agent sends heartbeats has its benchmark at the controller if
\* it is known there at all, across crashes, restarts and Forgets: heartbeats
\* alone never restore a benchmark (Registry.Heartbeat), so the session must
\* not outlive one that was reset (Registry.Register, Agent.session). Late
\* benchmarks and heartbeats do no harm; a late registration would.
HeartbeatsAreMeasured ==
    \A n \in Nodes :
        pc[n] \in {"wait", "heartbeat"} /\ Known(n) => bench[n]

\* After the last fault a running phone is ACTIVE again and again: neither
\* side ends in a state that only the other would leave (Agent.Run,
\* Registry.Heartbeat).
Recovers ==
    \A n \in Nodes : <>[](pc[n] # "down") => []<>(state[n] = "ACTIVE")

\* A phone that is switched off for good is taken out of the cluster and
\* stays out, whatever of its calls was still under way (Registry.Sweep).
DeadGoesOffline ==
    \A n \in Nodes :
        <>[](pc[n] = "down") => <>[](state[n] \in {"OFFLINE", "ABSENT"})
=============================================================================
