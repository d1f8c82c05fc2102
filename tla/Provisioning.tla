---------------------------- MODULE Provisioning ----------------------------
(***************************************************************************)
(* Phones on USB. pcprov watches adb, installs and starts the node agent on *)
(* phones that are plugged in, restores the adb links that phones lose when *)
(* they re-enumerate, and reports what it sees to the controller, whose     *)
(* answers carry the auto_provision setting and the commands ("provision    *)
(* now", "retry") of administrators until pcprov acknowledges them.         *)
(*                                                                         *)
(* One pcprov runs for each adb server (it holds a lock); it works through  *)
(* the listed phones one by one and then reports. Environment steps happen  *)
(* between any two of its adb calls. Backoff is reduced to whether it is    *)
(* over. A phone is taken to serve a model, so it has a forwarded port.     *)
(***************************************************************************)
EXTENDS Naturals, FiniteSets

CONSTANTS
    Serials,        \* phones
    Placeholders,   \* junk serials among them
    Ports,          \* host ports that adb hands out
    Absent,         \* no phone, port or answer
    MaxFaults,      \* bound on faults
    MaxRequests     \* bound on requests of administrators

\* What the controller answers to a report.
Answers == [auto : BOOLEAN, commands : SUBSET Serials]

ASSUME ProvisioningAssumption ==
    /\ Placeholders \subseteq Serials
    /\ Absent \notin Serials /\ Absent \notin Ports /\ Absent \notin Answers

VARIABLES
    phone,      \* serial -> [adb, twin, agent, reverse]: its adb state, whether another
                \* phone has its serial, the port its agent advertises, its reverse link
    forward,    \* host port -> the phone that adb forwards it to
    pc,         \* where pcprov is
    at,         \* the phone that it provisions
    port,       \* the host port that it forwarded for that phone
    listed,     \* serial -> what "adb devices" said
    todo,       \* listed phones that were not visited yet
    rec,        \* serial -> its record [status, provisioned, waiting]
    cmds,       \* commands that were received and not executed yet
    acks,       \* commands that were executed and not acknowledged yet
    auto,       \* the setting that pcprov obeys
    reported,   \* the statuses that were last reported
    answer,     \* the controller's answer that is under way
    setting,    \* the controller's auto_provision
    stored,     \* the setting in its file
    wanted,     \* its pending commands
    served,     \* serial -> the last request was executed or refused
    forgotten,  \* history: phones whose request the controller forgot when it restarted
    crossed,    \* history: phones whose request was made when pcprov had yet to send,
                \* or to send again, the acknowledgement of an earlier one
    faults, requests

watchVars == <<pc, at, port, listed, todo, rec, cmds, acks, auto, reported>>
adbVars == <<phone, forward>>
controllerVars == <<setting, stored, wanted>>
historyVars == <<served, forgotten, crossed>>
provVars == <<adbVars, watchVars, answer, controllerVars, historyVars, faults, requests>>

AdbStates == {"gone", "unauthorized", "device"}
Gone == [adb |-> "gone", twin |-> FALSE]
RecordStatuses == {"none", "new", "waiting_auth", "provisioning", "provisioned", "failed", "gone"}
NoRecord == [status |-> "none", provisioned |-> FALSE, waiting |-> FALSE]

\* The phones and adb, what pcprov knows, and the commands.
PhonesTypeOK ==
    /\ phone \in [Serials -> [adb : AdbStates, twin : BOOLEAN, agent : Ports \cup {Absent}, reverse : BOOLEAN]]
    /\ forward \in [Ports -> Serials \cup {Absent}]

WatchTypeOK ==
    /\ pc \in {"down", "scan", "visit", "reverse", "push", "forward", "restart", "report", "answer"}
    /\ at \in Serials \cup {Absent} /\ port \in Ports \cup {Absent}
    /\ listed \in [Serials -> [adb : AdbStates, twin : BOOLEAN]] /\ todo \subseteq Serials
    /\ rec \in [Serials -> [status : RecordStatuses, provisioned : BOOLEAN, waiting : BOOLEAN]]
    /\ reported \in [Serials -> RecordStatuses]

CommandsTypeOK ==
    /\ cmds \subseteq Serials /\ acks \subseteq Serials /\ wanted \subseteq Serials
    /\ answer \in Answers \cup {Absent}
    /\ auto \in BOOLEAN /\ setting \in BOOLEAN /\ stored \in BOOLEAN
    /\ served \in [Serials -> BOOLEAN] /\ forgotten \subseteq Serials /\ crossed \subseteq Serials

ProvisioningTypeOK == PhonesTypeOK /\ WatchTypeOK /\ CommandsTypeOK

ProvisioningInit ==
    /\ phone = [s \in Serials |-> [adb |-> "gone", twin |-> FALSE, agent |-> Absent, reverse |-> FALSE]]
    /\ forward = [p \in Ports |-> Absent]
    /\ pc = "down" /\ at = Absent /\ port = Absent
    /\ listed = [s \in Serials |-> Gone] /\ todo = {}
    /\ rec = [s \in Serials |-> NoRecord]
    /\ cmds = {} /\ acks = {} /\ auto = TRUE
    /\ reported = [s \in Serials |-> "none"] /\ answer = Absent
    /\ setting = TRUE /\ stored = TRUE /\ wanted = {}
    /\ served = [s \in Serials |-> TRUE] /\ forgotten = {} /\ crossed = {}
    /\ faults = 0 /\ requests = 0

Fault == faults < MaxFaults /\ faults' = faults + 1
Request == requests < MaxRequests /\ requests' = requests + 1

-----------------------------------------------------------------------------
(* The phones, adb and the controller's administrators *)

\* adb drops the links of a phone that leaves.
Unlinked(s) == [p \in Ports |-> IF forward[p] = s THEN Absent ELSE forward[p]]

\* A phone is plugged in; it may first ask its owner to allow debugging.
Attach(s) ==
    /\ phone[s].adb # "device"
    /\ \E state \in {"unauthorized", "device"} :
          /\ state # phone[s].adb
          /\ phone' = [phone EXCEPT ![s].adb = state]
    /\ UNCHANGED <<forward, watchVars, answer, controllerVars, historyVars, faults, requests>>

\* It is unplugged, or drops off the bus for a moment; with a flat battery
\* its agent ends as well.
Detach(s) ==
    /\ Fault
    /\ phone[s].adb = "device"
    /\ \E adb \in {"gone", "device"}, agent \in {phone[s].agent, Absent} :
          phone' = [phone EXCEPT ![s] = [@ EXCEPT !.adb = adb, !.agent = agent, !.reverse = FALSE]]
    /\ forward' = Unlinked(s)
    /\ UNCHANGED <<watchVars, answer, controllerVars, historyVars, requests>>

\* A second phone with the same serial is plugged in, or unplugged.
Twin(s) ==
    /\ Fault
    /\ phone' = [phone EXCEPT ![s].twin = ~@]
    /\ UNCHANGED <<forward, watchVars, answer, controllerVars, historyVars, requests>>

\* POST /admin/devices/{serial}/provision. Asking again changes nothing.
RequestProvision(s) ==
    /\ Request
    /\ wanted' = wanted \cup {s}
    /\ IF s \in wanted THEN UNCHANGED historyVars
       ELSE /\ served' = [served EXCEPT ![s] = FALSE]
            /\ forgotten' = forgotten \ {s}
            /\ crossed' = IF s \in acks THEN crossed \cup {s} ELSE crossed \ {s}
    /\ UNCHANGED <<adbVars, watchVars, answer, setting, stored, faults>>

\* PUT /admin/devices: the setting is in use even if it could not be stored.
SetAutoProvision(on) ==
    /\ Request
    /\ setting' = on
    /\ stored' \in {on, stored}
    /\ UNCHANGED <<adbVars, watchVars, answer, wanted, historyVars, faults>>

\* The controller restarts; commands are kept in memory only.
RestartController ==
    /\ Fault
    /\ setting' = stored /\ wanted' = {}
    /\ forgotten' = forgotten \cup {s \in wanted : ~served[s]}
    /\ UNCHANGED <<adbVars, watchVars, answer, stored, served, crossed, requests>>

-----------------------------------------------------------------------------
(* One round of Watch: the list, then each phone *)

StartWatch ==
    /\ pc = "down"
    /\ pc' = "scan"
    /\ UNCHANGED <<adbVars, at, port, listed, todo, rec, cmds, acks, auto, reported, answer, controllerVars,
                   historyVars, faults, requests>>

\* pcprov ends: all it knows was in memory.
StopWatch ==
    /\ Fault
    /\ pc' = "down" /\ at' = Absent /\ port' = Absent /\ answer' = Absent
    /\ listed' = [s \in Serials |-> Gone] /\ todo' = {}
    /\ rec' = [s \in Serials |-> NoRecord]
    /\ cmds' = {} /\ acks' = {} /\ auto' = TRUE
    /\ reported' = [s \in Serials |-> "none"]
    /\ crossed' = crossed \ wanted
    /\ UNCHANGED <<adbVars, controllerVars, served, forgotten, requests>>

\* When "adb devices" fails the list is empty.
Scan ==
    /\ pc = "scan"
    /\ \/ /\ listed' = [s \in Serials |-> [adb |-> phone[s].adb, twin |-> phone[s].twin]]
          /\ UNCHANGED faults
       \/ Fault /\ listed' = [s \in Serials |-> Gone]
    /\ todo' = {s \in Serials : listed'[s].adb # "gone"}
    /\ pc' = "visit"
    /\ UNCHANGED <<adbVars, at, port, rec, cmds, acks, auto, reported, answer, controllerVars, historyVars, requests>>

\* The device waits for its owner.
VisitWaiting(s) ==
    /\ pc = "visit" /\ s \in todo /\ listed[s].adb # "device"
    /\ rec' = [rec EXCEPT ![s].status = "waiting_auth"]
    /\ todo' = todo \ {s}
    /\ UNCHANGED <<adbVars, pc, at, port, listed, cmds, acks, auto, reported, answer, controllerVars, historyVars,
                   faults, requests>>

\* planDevice
Unsafe(s) == listed[s].twin \/ s \in Placeholders
Attempts(s) == ~Unsafe(s) /\ (s \in cmds \/ (~rec[s].provisioned /\ auto /\ ~rec[s].waiting))
StatusOf(s) ==
    IF Unsafe(s) THEN "failed"
    ELSE IF rec[s].provisioned THEN "provisioned"
    ELSE IF rec[s].status = "failed" THEN "failed" ELSE "new"

\* Mutant: a phone that has a forwarded port needs no other.
HealedIfMissing(s) ==
    IF phone[s].agent = Absent \/ \E p \in Ports : forward[p] = s THEN forward
    ELSE [forward EXCEPT ![phone[s].agent] = s]

\* The port that the running agent advertises leads to it again.
Healed(s) == IF phone[s].agent = Absent THEN forward ELSE [forward EXCEPT ![phone[s].agent] = s]

\* Heal: both links, only the first one, or none of them.
Heal(s) ==
    IF phone[s].adb = "device" /\ ~phone[s].twin
    THEN \/ /\ phone' = [phone EXCEPT ![s].reverse = TRUE]
            /\ \/ forward' = Healed(s) /\ UNCHANGED faults
               \/ Fault /\ UNCHANGED forward
         \/ Fault /\ UNCHANGED adbVars
    ELSE UNCHANGED <<adbVars, faults>>

\* Nothing to do, except for a command that is refused, and healing from time
\* to time.
VisitIdle(s, heals) ==
    /\ pc = "visit" /\ s \in todo /\ listed[s].adb = "device" /\ ~Attempts(s)
    /\ rec' = [rec EXCEPT ![s].status = StatusOf(s)]
    /\ cmds' = cmds \ {s}
    /\ acks' = IF s \in cmds THEN acks \cup {s} ELSE acks
    /\ served' = IF s \in cmds THEN [served EXCEPT ![s] = TRUE] ELSE served
    /\ todo' = todo \ {s}
    /\ IF heals THEN Heal(s) ELSE UNCHANGED <<adbVars, faults>>
    /\ UNCHANGED <<pc, at, port, listed, auto, reported, answer, controllerVars, forgotten, crossed, requests>>

\* The time that a failed attempt has to wait is over.
BackoffEnds(s) ==
    /\ rec[s].waiting
    /\ rec' = [rec EXCEPT ![s].waiting = FALSE]
    /\ UNCHANGED <<adbVars, pc, at, port, listed, todo, cmds, acks, auto, reported, answer, controllerVars,
                   historyVars, faults, requests>>

-----------------------------------------------------------------------------
(* Provision *)

\* An attempt begins. A command stays in cmds until it ends.
BeginAttempt(s) ==
    /\ pc = "visit" /\ s \in todo /\ listed[s].adb = "device" /\ Attempts(s)
    /\ rec' = [rec EXCEPT ![s].status = "provisioning"]
    /\ at' = s /\ pc' = "reverse"
    /\ UNCHANGED <<adbVars, port, listed, todo, cmds, acks, auto, reported, answer, controllerVars, historyVars,
                   faults, requests>>

\* adb finds the phone.
Reachable(s) == phone[s].adb = "device" /\ ~phone[s].twin

ReverseLink ==
    /\ pc = "reverse" /\ Reachable(at)
    /\ phone' = [phone EXCEPT ![at].reverse = TRUE]
    /\ pc' = "push"
    /\ UNCHANGED <<forward, at, port, listed, todo, rec, cmds, acks, auto, reported, answer, controllerVars,
                   historyVars, faults, requests>>

\* The agent, the server that fits the phone's CPU, and the model.
Push ==
    /\ pc = "push" /\ Reachable(at)
    /\ pc' = "forward"
    /\ UNCHANGED <<adbVars, at, port, listed, todo, rec, cmds, acks, auto, reported, answer, controllerVars,
                   historyVars, faults, requests>>

\* The forwarded ports of a phone, as "adb forward --list" shows them.
ForwardsOf(s) == {p \in Ports : forward[p] = s}

\* A forwarded port of the phone is used again. Otherwise adb takes a free
\* one, which is assumed to be no port that an agent still advertises.
ForwardTo(s) ==
    IF ForwardsOf(s) # {} THEN ForwardsOf(s)
    ELSE {p \in Ports : forward[p] = Absent /\ \A o \in Serials : phone[o].agent # p}

ForwardLink ==
    /\ pc = "forward" /\ Reachable(at)
    /\ \E p \in ForwardTo(at) : port' = p /\ forward' = [forward EXCEPT ![p] = at]
    /\ pc' = "restart"
    /\ UNCHANGED <<phone, at, listed, todo, rec, cmds, acks, auto, reported, answer, controllerVars,
                   historyVars, faults, requests>>

\* The attempt is over, and a command with it.
EndAttempt(provisioned) ==
    /\ rec' = [rec EXCEPT ![at] = [status |-> IF provisioned THEN "provisioned" ELSE "failed",
                                   provisioned |-> @.provisioned \/ provisioned, waiting |-> ~provisioned]]
    /\ cmds' = cmds \ {at}
    /\ acks' = IF at \in cmds THEN acks \cup {at} ELSE acks
    /\ served' = IF at \in cmds THEN [served EXCEPT ![at] = TRUE] ELSE served
    /\ todo' = todo \ {at} /\ at' = Absent /\ port' = Absent /\ pc' = "visit"
    /\ UNCHANGED <<listed, auto, reported, answer, controllerVars, forgotten, crossed, requests>>

RestartAgent ==
    /\ pc = "restart" /\ Reachable(at)
    /\ phone' = [phone EXCEPT ![at].agent = port]
    /\ EndAttempt(TRUE)
    /\ UNCHANGED <<forward, faults>>

\* The phone is gone or is no longer the only one with its serial, or a call
\* fails; the old agent may have been stopped by then.
AttemptFails ==
    /\ pc \in {"reverse", "push", "forward", "restart"}
    /\ IF Reachable(at) THEN Fault ELSE UNCHANGED faults
    /\ \/ UNCHANGED phone
       \/ pc = "restart" /\ Reachable(at) /\ phone' = [phone EXCEPT ![at].agent = Absent]
    /\ EndAttempt(FALSE)
    /\ UNCHANGED forward

-----------------------------------------------------------------------------
(* The report *)

Statuses == [s \in Serials |-> rec[s].status]

EndRound ==
    /\ pc = "visit" /\ todo = {}
    /\ rec' = [s \in Serials |-> IF listed[s].adb = "gone" /\ rec[s] # NoRecord
                                 THEN [rec[s] EXCEPT !.status = "gone"] ELSE rec[s]]
    /\ pc' = "report"
    /\ UNCHANGED <<adbVars, at, port, listed, todo, cmds, acks, auto, reported, answer, controllerVars,
                   historyVars, faults, requests>>

\* Nothing has changed, and the last report is recent.
SkipReport ==
    /\ pc = "report" /\ Statuses = reported
    /\ pc' = "scan"
    /\ UNCHANGED <<adbVars, at, port, listed, todo, rec, cmds, acks, auto, reported, answer, controllerVars,
                   historyVars, faults, requests>>

\* What pcprov is told: the setting, and every command that is not acknowledged.
Answer(commands) == [auto |-> setting, commands |-> commands]

\* The controller handles the report and answers.
Report ==
    /\ pc = "report"
    /\ wanted' = wanted \ acks
    /\ answer' = Answer(wanted')
    /\ pc' = "answer"
    /\ UNCHANGED <<adbVars, at, port, listed, todo, rec, cmds, acks, auto, reported, setting, stored,
                   historyVars, faults, requests>>

\* The report fails, before or after the controller handled it.
ReportFails ==
    /\ Fault
    /\ pc \in {"report", "answer"}
    /\ pc' = "scan" /\ answer' = Absent
    /\ UNCHANGED <<adbVars, at, port, listed, todo, rec, cmds, acks, auto, reported, controllerVars, historyVars, requests>>

\* Mutant: commands are acknowledged when they are received.
TakeAnswerAndAck ==
    /\ pc = "answer"
    /\ auto' = answer.auto
    /\ cmds' = cmds \cup answer.commands
    /\ acks' = answer.commands /\ reported' = Statuses
    /\ rec' = [s \in Serials |-> IF rec[s].status = "gone" THEN NoRecord ELSE rec[s]]
    /\ pc' = "scan" /\ answer' = Absent
    /\ crossed' = crossed \ wanted
    /\ UNCHANGED <<adbVars, at, port, listed, todo, controllerVars, served, forgotten, faults, requests>>

\* Phones that are gone are forgotten once this was reported.
TakeAnswer ==
    /\ pc = "answer"
    /\ auto' = answer.auto
    /\ cmds' = cmds \cup answer.commands
    /\ acks' = {} /\ reported' = Statuses
    /\ rec' = [s \in Serials |-> IF rec[s].status = "gone" THEN NoRecord ELSE rec[s]]
    /\ pc' = "scan" /\ answer' = Absent
    /\ crossed' = crossed \ wanted
    /\ UNCHANGED <<adbVars, at, port, listed, todo, controllerVars, served, forgotten, faults, requests>>

-----------------------------------------------------------------------------

Provision == ReverseLink \/ Push \/ ForwardLink \/ RestartAgent \/ AttemptFails

Watch ==
    \/ StartWatch \/ Scan \/ EndRound \/ SkipReport \/ Report \/ TakeAnswer \/ Provision
    \/ \E s \in Serials : VisitWaiting(s) \/ BeginAttempt(s) \/ \E heals \in BOOLEAN : VisitIdle(s, heals)

ProvisioningNext ==
    \/ Watch \/ StopWatch \/ ReportFails \/ RestartController
    \/ \E s \in Serials : Attach(s) \/ Detach(s) \/ Twin(s) \/ RequestProvision(s) \/ BackoffEnds(s)
    \/ \E on \in BOOLEAN : SetAutoProvision(on)

\* pcprov is restarted when it ends and goes on with its rounds, time passes,
\* and both healing and reporting are due again and again.
ProvisioningSpec ==
    /\ ProvisioningInit /\ [][ProvisioningNext]_provVars
    /\ WF_provVars(Watch)
    /\ \A s \in Serials : WF_provVars(BackoffEnds(s)) /\ SF_provVars(VisitIdle(s, TRUE))

-----------------------------------------------------------------------------
(* Properties *)

\* A request of an administrator stays queued at the controller until pcprov
\* has executed or refused it, through failed reports, lost answers, replugged
\* phones and a restarted pcprov (devices.report, Watch). Two kinds of requests
\* are excepted: the controller keeps the queue in memory only and forgets it
\* when it restarts; and a request that is made when pcprov has yet to send the
\* acknowledgement of an earlier one, which the controller no longer has, or to
\* send it again because the answer to the first was lost, is taken for the
\* acknowledged one.
RequestsAreNotLost ==
    \A s \in Serials : served[s] \/ s \in wanted \cup forgotten \cup crossed

\* Agent s advertises port p, and it leads there.
Leads(p, s) == phone[s].agent = p /\ forward[p] = s

\* A phone that stays plugged in with its agent running is reachable both ways
\* in the end: it can call the controller, and the port that its agent
\* advertised leads to it, although links are dropped at any time and an
\* attempt that fails may have forwarded another port (Provisioner.Heal).
LinksAreHealed ==
    \A s \in Serials :
        <>[](Reachable(s) /\ phone[s].agent # Absent) => <>[](phone[s].reverse /\ \E p \in Ports : Leads(p, s))
=============================================================================
