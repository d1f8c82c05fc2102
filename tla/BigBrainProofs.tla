--------------------------- MODULE BigBrainProofs ---------------------------
(***************************************************************************)
(* What holds of any number of Big Brain pools, phones, names and models:  *)
(* who answers on the port of a head, and which heads share a phone.       *)
(***************************************************************************)
EXTENDS BigBrain, FiniteSetTheorems, WellFoundedInduction, TLAPS

(***************************************************************************)
(* The inductive invariant. Pools that exist together share no phone, and  *)
(* neither do the pools that a tick has read. TickInv says what the tick   *)
(* knows where it waits. HeadInv ties a process to the head that started   *)
(* it: it is the head's own, or was cancelled and is waited for. PortInv   *)
(* is why a port can be given again: nobody but the head has a process on  *)
(* its port, not even one that was cancelled.                              *)
(***************************************************************************)
Apart(f) ==
    \A p, q \in Pools :
        p # q /\ f[p] # None /\ f[q] # None => Members(f[p]) \cap Members(f[q]) = {}

TickInv ==
    /\ pc # "forgetting" => \A p \in todo : wanted[p] # None
    /\ pc = "idle" => todo = {} /\ \A p \in Pools : head[p] # None => wanted[p] # None
    /\ pc = "forgetting" => \E p \in Pools : todo = {p} /\ head[p] = None /\ wanted[p] = None
    /\ pc \in {"stopping", "start"} =>
          \A p \in todo : Current(p) => head[p] # None /\ ~head[p].cancel /\ (pc = "start" => proc[p] = None)
    /\ pc \in {"poll", "answered"} =>
          \A p \in todo : Current(p) => head[p] # None /\ (IsRunning(p) => head[p].key = wanted[p])

\* A head that was reconciled in this tick runs what its pool asked for.
KeyInv ==
    \A p \in Pools : p \notin todo /\ wanted[p] # None /\ IsRunning(p) => head[p].key = wanted[p]

\* The tick waits for the cancelled process of p.
Awaited(p) == p \in todo /\ (pc = "forgetting" \/ (pc = "stopping" /\ Current(p)))

Owns(p) == ~proc[p].cancelled /\ IsRunning(p) /\ proc[p].port = head[p].port /\ proc[p].key = head[p].key
Leaves(p) == proc[p].cancelled /\ ~HeadOf(p).cancel /\ Awaited(p)

HeadInv ==
    \A p \in Pools :
        /\ IsRunning(p) => proc[p] # None
        /\ proc[p] # None => Owns(p) \/ Leaves(p)

PortInv ==
    \A p, q \in Pools : p # q /\ IsRunning(p) /\ proc[q] # None => proc[q].port # head[p].port

BigBrainInv ==
    /\ BigBrainTypeOK /\ Apart(pools) /\ Apart(wanted)
    /\ TickInv /\ KeyInv /\ HeadInv /\ PortInv

-----------------------------------------------------------------------------
(* A free port *)

\* A set of numbers has a smallest element.
LEMMA Smallest ==
    ASSUME NEW S \in SUBSET Nat, S # {}
    PROVE  \E x \in S : \A y \in S : x <= y
<1>1. PICK x \in S : \A y \in S : ~(<<y, x>> \in OpToRel(<, Nat))
  BY NatLessThanWellFounded, WFMin
<1>2. \A y \in S : ~(y < x)
  BY <1>1 DEF OpToRel
<1>3. QED
  BY <1>2

\* There are as many ports as pools, so the other heads leave one: the loop of
\* freePortLocked finds the lowest.
LEMMA PortIsFree ==
    ASSUME BigBrainTypeOK, NEW p \in Pools
    PROVE  /\ FreePort(p) \in Ports
           /\ \A q \in Pools \ {p} : IsRunning(q) => head[q].port # FreePort(p)
<1> DEFINE Free == {port \in Ports : \A q \in Pools \ {p} : IsRunning(q) => head[q].port # port}
<1>1. Free # {}
  <2> SUFFICES ASSUME Free = {} PROVE FALSE
    OBVIOUS
  <2> DEFINE user == [port \in Ports |-> CHOOSE q \in Pools \ {p} : IsRunning(q) /\ head[q].port = port]
  <2>1. \A port \in Ports : user[port] \in Pools \ {p} /\ head[user[port]].port = port
    OBVIOUS
  <2>2. IsFiniteSet(Ports) /\ Cardinality(Ports) = NumPools /\ IsFiniteSet(Pools) /\ Cardinality(Pools) = NumPools
    BY FS_Interval, BigBrainAssumption DEF Ports, Pools
  <2>3. IsFiniteSet(Pools \ {p}) /\ Cardinality(Pools \ {p}) = NumPools - 1
    BY <2>2, FS_RemoveElement
  <2>4. user \in [Ports -> Pools \ {p}] /\ Cardinality(Pools \ {p}) < Cardinality(Ports)
    BY <2>1, <2>2, <2>3, BigBrainAssumption
  <2> HIDE DEF user
  <2>5. \E x, y \in Ports : x # y /\ user[x] = user[y]
    BY <2>2, <2>3, <2>4, FS_PigeonHole
  <2>6. QED
    BY <2>1, <2>5
<1>2. PICK port \in Free : \A other \in Free : port <= other
  <2>1. Free \in SUBSET Nat
    BY BigBrainAssumption DEF Ports
  <2> HIDE DEF Free
  <2>2. QED
    BY <1>1, <2>1, Smallest
<1>3. \A lower \in 1..(port - 1) : \E q \in Pools \ {p} : IsRunning(q) /\ head[q].port = lower
  <2>1. \A lower \in 1..(port - 1) : lower \in Ports /\ lower \notin Free
    BY <1>2, BigBrainAssumption DEF Ports
  <2>2. QED
    BY <2>1
<1>4. QED
  BY <1>2, <1>3 DEF FreePort

-----------------------------------------------------------------------------
(* Every step keeps the invariant *)

LEMMA BigBrainInitially == BigBrainInit => BigBrainInv
<1> SUFFICES ASSUME BigBrainInit PROVE BigBrainInv
  OBVIOUS
<1> USE BigBrainAssumption DEF BigBrainInit
<1>1. BigBrainTypeOK
  BY DEF BigBrainTypeOK, Reports, States
<1>2. Apart(pools) /\ Apart(wanted)
  BY DEF Apart
<1>3. \A p \in Pools : ~IsRunning(p) /\ proc[p] = None
  BY DEF IsRunning, HeadOf, NewHead
<1>4. TickInv
  BY DEF TickInv
<1>5. QED
  BY <1>1, <1>2, <1>3, <1>4 DEF BigBrainInv, KeyInv, HeadInv, PortInv

\* The pools of administrators, the catalog and the reports of phones.
LEMMA WorldStep ==
    ASSUME BigBrainInv, UNCHANGED <<head, proc, wanted, todo, pc, after>>, Apart(pools)',
           pools' \in [Pools -> Requests \cup {None}], ready' \in SUBSET Models, report' \in [Restless -> Reports]
    PROVE  BigBrainInv'
<1>1. BigBrainTypeOK'
  BY DEF BigBrainInv, BigBrainTypeOK
<1>2. Apart(wanted)'
  BY DEF BigBrainInv, Apart
<1>3. TickInv' /\ KeyInv' /\ HeadInv' /\ PortInv'
  BY DEF BigBrainInv, TickInv, KeyInv, HeadInv, PortInv, Owns, Leaves, Awaited, IsRunning, HeadOf, Current
<1>4. QED
  BY <1>1, <1>2, <1>3 DEF BigBrainInv

LEMMA PoolStep ==
    ASSUME BigBrainInv, NEW p \in Pools, NEW r \in Requests, SetPool(p, r) \/ DeletePool(p)
    PROVE  BigBrainInv'
<1> USE DEF BigBrainInv, BigBrainTypeOK
<1>1. CASE SetPool(p, r)
  <2>1. Apart(pools)'
    BY <1>1 DEF SetPool, Conflict, Apart
  <2>2. QED
    BY <1>1, <2>1, WorldStep DEF SetPool
<1>2. CASE DeletePool(p)
  <2>1. Apart(pools)'
    BY <1>2 DEF DeletePool, Apart
  <2>2. QED
    BY <1>2, <2>1, WorldStep DEF DeletePool
<1>3. QED
  BY <1>1, <1>2

LEMMA ReportStep ==
    ASSUME BigBrainInv, CatalogChanges \/ \E n \in Restless : NodeReports(n)
    PROVE  BigBrainInv'
<1>1. CASE CatalogChanges
  BY <1>1, WorldStep DEF CatalogChanges, BigBrainInv, BigBrainTypeOK, Apart
<1>2. ASSUME NEW n \in Restless, NodeReports(n) PROVE BigBrainInv'
  <2>1. report' \in [Restless -> Reports]
    BY <1>2 DEF NodeReports, BigBrainInv, BigBrainTypeOK, Reports
  <2>2. QED
    BY <1>2, <2>1, WorldStep DEF NodeReports, BigBrainInv, BigBrainTypeOK, Apart
<1>3. QED
  BY <1>1, <1>2

\* The processes and timers: a step of one leaves the tick and the other heads
\* alone, and a head neither starts to run nor gets another port or key.
Keeps(p) ==
    /\ UNCHANGED <<wanted, todo, pc, after>>
    /\ head' \in [Pools -> Heads \cup {None}] /\ proc' \in [Pools -> Processes \cup {None}]
    /\ \A q \in Pools \ {p} : head'[q] = head[q] /\ proc'[q] = proc[q]
    /\ head'[p] = None <=> head[p] = None
    /\ head[p] # None => head'[p].cancel = head[p].cancel /\ head'[p].port = head[p].port /\ head'[p].key = head[p].key
    /\ IsRunning(p)' => IsRunning(p) /\ proc'[p] # None
    /\ proc'[p] # None =>
          /\ proc[p] # None /\ (IsRunning(p) => IsRunning(p)')
          /\ proc'[p].port = proc[p].port /\ proc'[p].key = proc[p].key /\ proc'[p].cancelled = proc[p].cancelled

LEMMA KeepsStep ==
    ASSUME BigBrainInv, NEW p \in Pools, Keeps(p), UNCHANGED world
    PROVE  BigBrainInv'
<1> USE DEF Keeps
<1>1. BigBrainTypeOK'
  BY DEF BigBrainInv, BigBrainTypeOK, world
<1>2. Apart(pools)' /\ Apart(wanted)'
  BY DEF BigBrainInv, Apart, world
<1>3. \A q \in Pools : Current(q)' <=> Current(q)
  BY DEF Current
<1>4. \A q \in Pools \ {p} : IsRunning(q)' <=> IsRunning(q)
  BY DEF IsRunning, HeadOf
<1>5. \A q \in Pools : head'[q] = None <=> head[q] = None
  OBVIOUS
<1>6. \A q \in Pools : IsRunning(q)' => IsRunning(q)
  BY <1>4
<1>7. \A q \in Pools : head[q] # None => head'[q].cancel = head[q].cancel /\ head'[q].port = head[q].port /\ head'[q].key = head[q].key
  OBVIOUS
<1>8. \A q \in Pools : IsRunning(q) => head[q] # None
  BY DEF IsRunning, HeadOf, NewHead
<1>9. \A q \in Pools : HeadOf(q).cancel' = HeadOf(q).cancel
  BY <1>5, <1>7 DEF HeadOf
<1>10. \A q \in Pools : proc'[q] # None => /\ proc[q] # None /\ proc'[q].port = proc[q].port
                                         /\ proc'[q].key = proc[q].key /\ proc'[q].cancelled = proc[q].cancelled
  OBVIOUS
<1>11. todo \subseteq Pools
  BY DEF BigBrainInv, BigBrainTypeOK
<1>12. TickInv'
  <2>1. (pc # "forgetting" => \A q \in todo : wanted[q] # None)'
    BY DEF BigBrainInv, TickInv
  <2>2. (pc = "idle" => todo = {} /\ \A q \in Pools : head[q] # None => wanted[q] # None)'
    BY <1>5 DEF BigBrainInv, TickInv
  <2>3. (pc = "forgetting" => \E q \in Pools : todo = {q} /\ head[q] = None /\ wanted[q] = None)'
    BY <1>5 DEF BigBrainInv, TickInv
  <2>4. (pc \in {"stopping", "start"} =>
          \A q \in todo : Current(q) => head[q] # None /\ ~head[q].cancel /\ (pc = "start" => proc[q] = None))'
    BY <1>3, <1>5, <1>7, <1>10, <1>11 DEF BigBrainInv, TickInv
  <2>5. (pc \in {"poll", "answered"} =>
          \A q \in todo : Current(q) => head[q] # None /\ (IsRunning(q) => head[q].key = wanted[q]))'
    BY <1>3, <1>5, <1>6, <1>7, <1>11 DEF BigBrainInv, TickInv
  <2>6. QED
    BY <2>1, <2>2, <2>3, <2>4, <2>5 DEF TickInv
<1>13. KeyInv'
  BY <1>6, <1>7, <1>8 DEF BigBrainInv, KeyInv
<1>14. HeadInv'
  <2>1. \A q \in Pools : IsRunning(q)' => proc'[q] # None
    BY <1>4, <1>6 DEF BigBrainInv, HeadInv
  <2>2. \A q \in Pools : proc'[q] # None /\ Owns(q) => Owns(q)'
    BY <1>4, <1>7, <1>8, <1>10 DEF Owns
  <2>3. \A q \in Pools : proc'[q] # None /\ Leaves(q) => Leaves(q)'
    BY <1>3, <1>9, <1>10 DEF Leaves, Awaited
  <2>4. QED
    BY <1>10, <2>1, <2>2, <2>3 DEF BigBrainInv, HeadInv
<1>15. PortInv'
  BY <1>6, <1>7, <1>8, <1>10 DEF BigBrainInv, PortInv
<1>16. QED
  BY <1>1, <1>2, <1>12, <1>13, <1>14, <1>15 DEF BigBrainInv

LEMMA ProcessStep ==
    ASSUME BigBrainInv, NEW p \in Pools, Process(p)
    PROVE  BigBrainInv'
<1> SUFFICES Keeps(p) /\ UNCHANGED world
  BY KeepsStep
<1>0. /\ head \in [Pools -> Heads \cup {None}] /\ proc \in [Pools -> Processes \cup {None}]
      /\ IsRunning(p) => proc[p] # None
      /\ proc[p] # None => Owns(p) \/ Leaves(p)
  BY DEF BigBrainInv, BigBrainTypeOK, HeadInv
<1> USE BigBrainAssumption
<1>1. CASE HeadLoads(p) \/ HeadDies(p)
  <2>1. PICK phase \in {"ok", "dead"} : proc' = [proc EXCEPT ![p].phase = phase]
    BY <1>1 DEF HeadLoads, HeadDies
  <2>2. proc[p] \in Processes
    BY <1>0, <1>1 DEF HeadLoads, HeadDies, Alive
  <2>3. /\ proc'[p] \in Processes
        /\ proc'[p].port = proc[p].port /\ proc'[p].key = proc[p].key /\ proc'[p].cancelled = proc[p].cancelled
    BY <1>0, <2>1, <2>2 DEF Processes
  <2>4. proc' \in [Pools -> Processes \cup {None}] /\ \A q \in Pools \ {p} : proc'[q] = proc[q]
    BY <1>0, <2>1, <2>3
  <2>5. UNCHANGED <<head, wanted, todo, pc, after, world>>
    BY <1>1 DEF HeadLoads, HeadDies
  <2>6. QED
    BY <1>0, <2>2, <2>3, <2>4, <2>5 DEF Keeps, IsRunning, HeadOf
<1>2. CASE WaitReturns(p)
  <2>1. proc' \in [Pools -> Processes \cup {None}] /\ proc'[p] = None /\ \A q \in Pools \ {p} : proc'[q] = proc[q]
    BY <1>0, <1>2 DEF WaitReturns
  <2>2. UNCHANGED <<wanted, todo, pc, after, world>>
    BY <1>2 DEF WaitReturns
  <2>3. CASE proc[p].cancelled
    <3>1. UNCHANGED head
      BY <1>2, <2>3 DEF WaitReturns
    <3>2. ~HeadOf(p).cancel
      BY <1>0, <1>2, <2>3 DEF WaitReturns, Owns, Leaves
    <3>3. QED
      BY <1>0, <2>1, <2>2, <3>1, <3>2 DEF Keeps, IsRunning, HeadOf
  <2>4. CASE ~proc[p].cancelled
    <3>1. head[p] # None
      BY <1>0, <1>2, <2>4 DEF WaitReturns, Owns, Leaves, IsRunning, HeadOf, NewHead
    <3>2. head' = [head EXCEPT ![p].exited = TRUE, ![p].backoff = TRUE, ![p].state = "error"]
      BY <1>2, <2>4 DEF WaitReturns
    <3>3. /\ head'[p] \in Heads /\ head'[p].exited
          /\ head'[p].cancel = head[p].cancel /\ head'[p].port = head[p].port /\ head'[p].key = head[p].key
      BY <1>0, <3>1, <3>2 DEF Heads, States
    <3>4. head' \in [Pools -> Heads \cup {None}] /\ \A q \in Pools \ {p} : head'[q] = head[q]
      BY <1>0, <3>2, <3>3
    <3>5. ~IsRunning(p)'
      BY <3>3 DEF IsRunning, HeadOf
    <3>6. QED
      BY <2>1, <2>2, <3>1, <3>3, <3>4, <3>5 DEF Keeps
  <2>5. QED
    BY <2>3, <2>4
<1>3. CASE BackoffEnds(p) \/ Settles(p)
  <2>1. head' = [head EXCEPT ![p].backoff = FALSE] \/ head' = [head EXCEPT ![p].settling = FALSE]
    BY <1>3 DEF BackoffEnds, Settles
  <2>2. head[p] \in Heads
    BY <1>0, <1>3 DEF BackoffEnds, Settles
  <2>3. /\ head'[p] \in Heads /\ head'[p].exited = head[p].exited
        /\ head'[p].cancel = head[p].cancel /\ head'[p].port = head[p].port /\ head'[p].key = head[p].key
    <3>1. CASE head' = [head EXCEPT ![p].backoff = FALSE]
      BY <1>0, <2>2, <3>1 DEF Heads
    <3>2. CASE head' = [head EXCEPT ![p].settling = FALSE]
      BY <1>0, <2>2, <3>2 DEF Heads
    <3>3. QED
      BY <2>1, <3>1, <3>2
  <2>4. head' \in [Pools -> Heads \cup {None}] /\ \A q \in Pools \ {p} : head'[q] = head[q]
    BY <1>0, <2>1, <2>3
  <2>5. IsRunning(p)' <=> IsRunning(p)
    BY <2>2, <2>3 DEF IsRunning, HeadOf
  <2>6. UNCHANGED <<proc, wanted, todo, pc, after, world>>
    BY <1>3 DEF BackoffEnds, Settles
  <2>7. QED
    BY <1>0, <2>2, <2>3, <2>4, <2>5, <2>6 DEF Keeps
<1>4. QED
  BY <1>1, <1>2, <1>3 DEF Process

-----------------------------------------------------------------------------
(* The tick *)

\* Only pool p has another head or process.
Others(p) == \A q \in Pools \ {p} : head'[q] = head[q] /\ proc'[q] = proc[q]

\* What a step of the tick at pool p has to show.
LEMMA TickStep ==
    ASSUME BigBrainInv, UNCHANGED world, NEW p \in Pools, Others(p), BigBrainTypeOK', Apart(wanted)', TickInv',
           \A q \in Pools \ {p} : q \notin todo' /\ wanted'[q] # None /\ IsRunning(q) => head[q].key = wanted'[q],
           \A q \in Pools \ {p} : proc[q] # None /\ Leaves(q) => Awaited(q)',
           p \notin todo' /\ wanted'[p] # None /\ IsRunning(p)' => head'[p].key = wanted'[p],
           IsRunning(p)' => proc'[p] # None,
           proc'[p] # None => Owns(p)' \/ Leaves(p)',
           \A q \in Pools \ {p} : IsRunning(p)' /\ proc[q] # None => proc[q].port # head'[p].port,
           \A q \in Pools \ {p} : IsRunning(q) /\ proc'[p] # None => proc'[p].port # head[q].port
    PROVE  BigBrainInv'
<1>1. Apart(pools)'
  BY DEF BigBrainInv, Apart, world
<1>2. \A q \in Pools \ {p} : (IsRunning(q)' <=> IsRunning(q)) /\ HeadOf(q)' = HeadOf(q)
  BY DEF IsRunning, HeadOf, Others
<1>3. KeyInv'
  BY <1>2 DEF KeyInv, Others
<1>4. HeadInv'
  <2>1. \A q \in Pools \ {p} : Owns(q) => Owns(q)'
    BY <1>2 DEF Owns, Others
  <2>2. \A q \in Pools \ {p} : proc'[q] # None /\ Leaves(q) => Leaves(q)'
    BY <1>2 DEF Leaves, Others
  <2>3. QED
    BY <1>2, <2>1, <2>2 DEF BigBrainInv, HeadInv, Others
<1>5. PortInv'
  BY <1>2 DEF BigBrainInv, PortInv, Others
<1>6. QED
  BY <1>1, <1>3, <1>4, <1>5 DEF BigBrainInv

\* Between the heads that it waits for, the tick finds a process just where a
\* head runs.
LEMMA Quiet ==
    ASSUME BigBrainInv, pc \notin {"stopping", "forgetting"}
    PROVE  \A q \in Pools : (proc[q] # None => Owns(q)) /\ (IsRunning(q) <=> proc[q] # None) /\ ~(proc[q] # None /\ Leaves(q))
<1>1. \A q \in Pools : ~Awaited(q)
  BY DEF Awaited
<1>2. QED
  BY <1>1 DEF BigBrainInv, HeadInv, Leaves, Owns

\* There is one current pool.
LEMMA OneCurrent ==
    ASSUME BigBrainInv, NEW p \in Pools, NEW q \in Pools, Current(p), Current(q)
    PROVE  p = q
BY BigBrainAssumption DEF Current, BigBrainInv, BigBrainTypeOK, Pools

\* A step of the tick that touches no head.
LEMMA LookStep ==
    ASSUME BigBrainInv, UNCHANGED world, UNCHANGED <<head, proc>>, BigBrainTypeOK', Apart(wanted)', TickInv',
           \A q \in Pools : q \notin todo' /\ wanted'[q] # None /\ IsRunning(q) => head[q].key = wanted'[q],
           \A q \in Pools : proc[q] # None /\ Leaves(q) => Awaited(q)'
    PROVE  BigBrainInv'
<1>1. Apart(pools)'
  BY DEF BigBrainInv, Apart, world
<1>2. \A q \in Pools : (IsRunning(q)' <=> IsRunning(q)) /\ HeadOf(q)' = HeadOf(q)
  BY DEF IsRunning, HeadOf
<1>3. KeyInv' /\ PortInv'
  BY <1>2 DEF BigBrainInv, KeyInv, PortInv
<1>4. HeadInv'
  BY <1>2 DEF BigBrainInv, HeadInv, Owns, Leaves
<1>5. QED
  BY <1>1, <1>3, <1>4 DEF BigBrainInv

LEMMA BeginStep == ASSUME BigBrainInv, TickBegins PROVE BigBrainInv'
<1>1. \A q \in Pools : ~(proc[q] # None /\ Leaves(q))
  BY Quiet DEF TickBegins
<1>2. BigBrainTypeOK'
  BY DEF TickBegins, BigBrainInv, BigBrainTypeOK, world
<1>3. TickInv' /\ Apart(wanted)'
  BY DEF TickBegins, TickInv, BigBrainInv, Apart
<1>4. \A q \in Pools : q \in todo' \/ wanted'[q] = None
  BY DEF TickBegins, BigBrainInv, BigBrainTypeOK
<1>5. QED
  BY <1>1, <1>2, <1>3, <1>4, LookStep DEF TickBegins

\* A health check: it is sent, fails, or is answered.
LEMMA PollStep ==
    ASSUME BigBrainInv, NEW p \in Pools, ReconcilePolls(p) \/ PollFails(p) \/ PollAnswered(p)
    PROVE  BigBrainInv'
<1>1. \A q \in Pools : ~(proc[q] # None /\ Leaves(q))
  BY Quiet DEF ReconcilePolls, CanGoOn, PollFails, PollAnswered
<1>2. /\ UNCHANGED <<world, head, proc, wanted, after>>
      /\ \/ todo' = todo \ {p} /\ pc' = "pools"
         \/ todo' = todo /\ pc' \in {"poll", "answered"}
  BY DEF ReconcilePolls, PollFails, PollAnswered, PoolDone
<1>3. Current(p) /\ (IsRunning(p) => head[p].key = wanted[p]) /\ head[p] # None /\ pc # "forgetting"
  BY DEF ReconcilePolls, CanGoOn, PollFails, PollAnswered, BigBrainInv, TickInv, Current, IsRunning, HeadOf, NewHead
<1>4. BigBrainTypeOK' /\ Apart(wanted)'
  BY <1>2 DEF BigBrainInv, BigBrainTypeOK, world, Apart
<1>5. TickInv'
  <2>1. \A q \in todo' : wanted'[q] # None
    BY <1>2, <1>3 DEF BigBrainInv, TickInv
  <2>2. ASSUME todo' = todo, NEW q \in todo, Current(q)' PROVE head'[q] # None /\ (IsRunning(q)' => head'[q].key = wanted'[q])
    <3>1. q = p
      BY <1>3, <2>2, OneCurrent DEF Current, BigBrainInv, BigBrainTypeOK
    <3>2. IsRunning(p)' <=> IsRunning(p)
      BY <1>2 DEF IsRunning, HeadOf
    <3>3. QED
      BY <1>2, <1>3, <3>1, <3>2
  <2>3. QED
    BY <1>2, <2>1, <2>2 DEF TickInv
<1>6. \A q \in Pools : q \notin todo' /\ wanted'[q] # None /\ IsRunning(q) => head[q].key = wanted'[q]
  BY <1>2, <1>3 DEF BigBrainInv, KeyInv
<1>7. QED
  BY <1>1, <1>2, <1>4, <1>5, <1>6, LookStep

LEMMA ReadyStep == ASSUME BigBrainInv, NEW p \in Pools, HeadReady(p) PROVE BigBrainInv'
<1>1. \A q \in Pools : (proc[q] # None => Owns(q)) /\ (IsRunning(q) <=> proc[q] # None) /\ ~(proc[q] # None /\ Leaves(q))
  BY Quiet DEF HeadReady
<1>2. head[p] # None /\ (IsRunning(p) => head[p].key = wanted[p])
  BY DEF HeadReady, BigBrainInv, TickInv, Current
<1>3. head[p] \in Heads
  BY <1>2 DEF BigBrainInv, BigBrainTypeOK
<1>4. /\ head'[p] \in Heads /\ head'[p].exited = head[p].exited
      /\ head'[p].cancel = head[p].cancel /\ head'[p].port = head[p].port /\ head'[p].key = head[p].key
  BY <1>3 DEF HeadReady, Heads, States, BigBrainInv, BigBrainTypeOK
<1>5. UNCHANGED <<world, proc, wanted, after>> /\ todo' = todo \ {p} /\ pc' = "pools" /\ Others(p)
  BY DEF HeadReady, PoolDone, Others, BigBrainInv, BigBrainTypeOK
<1>6. BigBrainTypeOK' /\ Apart(wanted)'
  BY <1>4, <1>5 DEF HeadReady, BigBrainInv, BigBrainTypeOK, world, Apart
<1>7. TickInv'
  BY <1>5 DEF HeadReady, BigBrainInv, TickInv
<1>8. head'[p] # None
  BY <1>4, BigBrainAssumption
<1>9. (IsRunning(p)' <=> IsRunning(p)) /\ (Owns(p) => Owns(p)')
  BY <1>2, <1>4, <1>5, <1>8 DEF IsRunning, HeadOf, Owns
<1>10. KeyInv /\ PortInv
  BY DEF BigBrainInv
<1>11. QED
  BY <1>1, <1>2, <1>4, <1>5, <1>6, <1>7, <1>9, <1>10, TickStep DEF KeyInv, PortInv

\* The head of p is cancelled; until it ends the tick waits for it.
LEMMA StopStep == ASSUME BigBrainInv, NEW p \in Pools, ReconcileStops(p) PROVE BigBrainInv'
<1> DEFINE h == HeadOf(p)
<1>1. \A q \in Pools : (proc[q] # None => Owns(q)) /\ (IsRunning(q) <=> proc[q] # None) /\ ~(proc[q] # None /\ Leaves(q))
  BY Quiet DEF ReconcileStops
<1>2. h \in Heads
  BY DEF HeadOf, NewHead, Heads, States, BigBrainInv, BigBrainTypeOK
<1>3. head' = [head EXCEPT ![p] = [h EXCEPT !.cancel = FALSE, !.key = None, !.port = 0,
                                            !.exited = @ /\ ~h.cancel, !.settling = @ \/ h.cancel]]
  BY DEF ReconcileStops, StopHead
<1>4. head'[p] \in Heads /\ ~head'[p].cancel
  <2>1. head'[p] = [h EXCEPT !.cancel = FALSE, !.key = None, !.port = 0,
                             !.exited = @ /\ ~h.cancel, !.settling = @ \/ h.cancel]
    BY <1>3 DEF BigBrainInv, BigBrainTypeOK
  <2> HIDE DEF h
  <2>2. QED
    BY <1>2, <2>1 DEF Heads
<1>5. head'[p] # None /\ ~IsRunning(p)' /\ ~HeadOf(p)'.cancel
  BY <1>4, BigBrainAssumption DEF IsRunning, HeadOf
<1>6. proc[p] = None => proc'[p] = None
  BY DEF ReconcileStops, StopHead
<1>7. proc[p] # None => proc'[p] \in Processes /\ proc'[p].cancelled /\ proc'[p].port = proc[p].port
  <2> SUFFICES ASSUME proc[p] # None PROVE proc'[p] \in Processes /\ proc'[p].cancelled /\ proc'[p].port = proc[p].port
    OBVIOUS
  <2>1. h.cancel
    BY <1>1 DEF Owns, IsRunning
  <2>2. proc' = [proc EXCEPT ![p].cancelled = TRUE]
    BY <2>1 DEF ReconcileStops, StopHead
  <2>3. proc[p] \in Processes
    BY DEF BigBrainInv, BigBrainTypeOK
  <2>4. QED
    BY <2>2, <2>3 DEF Processes, BigBrainInv, BigBrainTypeOK
<1>8. Others(p)
  BY <1>3 DEF ReconcileStops, StopHead, Others, BigBrainInv, BigBrainTypeOK
<1>9. UNCHANGED <<world, wanted, todo>> /\ pc' = "stopping" /\ pc = "pools" /\ Current(p) /\ after' \in States
  BY DEF ReconcileStops, States
<1>10. BigBrainTypeOK'
  <2>1. head' \in [Pools -> Heads \cup {None}]
    BY <1>3, <1>4 DEF BigBrainInv, BigBrainTypeOK
  <2>2. proc' \in [Pools -> Processes \cup {None}]
    <3>1. DOMAIN proc' = Pools /\ proc' = [q \in Pools |-> proc'[q]]
      BY DEF ReconcileStops, StopHead, BigBrainInv, BigBrainTypeOK
    <3>2. \A q \in Pools : proc'[q] \in Processes \cup {None}
      BY <1>6, <1>7, <1>8 DEF Others, BigBrainInv, BigBrainTypeOK
    <3>3. QED
      BY <3>1, <3>2
  <2>3. QED
    BY <1>9, <2>1, <2>2 DEF BigBrainInv, BigBrainTypeOK, world
<1>11. Current(p)' /\ p \in todo'
  BY <1>9 DEF Current
<1>12. TickInv'
  <2>1. ASSUME NEW q \in todo, Current(q)' PROVE q = p
    BY <1>9, <2>1, OneCurrent DEF Current, BigBrainInv, BigBrainTypeOK
  <2>2. QED
    BY <1>4, <1>5, <1>9, <2>1 DEF BigBrainInv, TickInv
<1>13. proc'[p] # None => Leaves(p)'
  BY <1>5, <1>6, <1>7, <1>9, <1>11 DEF Leaves, Awaited
<1>14. \A q \in Pools \ {p} : IsRunning(q) /\ proc'[p] # None => proc'[p].port # head[q].port
  BY <1>6, <1>7 DEF BigBrainInv, PortInv
<1>15. KeyInv /\ Apart(wanted)'
  BY <1>9 DEF BigBrainInv, Apart
<1>16. QED
  BY <1>1, <1>5, <1>8, <1>9, <1>10, <1>11, <1>12, <1>13, <1>14, <1>15, TickStep DEF KeyInv

\* The head that was waited for has ended.
LEMMA StoppedStep == ASSUME BigBrainInv, NEW p \in Pools, HeadStopped(p) PROVE BigBrainInv'
<1>1. proc[p] = None /\ Current(p) /\ pc = "stopping" /\ UNCHANGED <<world, proc, wanted>>
  BY DEF HeadStopped, Stopped
<1>2. head[p] # None /\ ~head[p].cancel
  BY <1>1 DEF BigBrainInv, TickInv, Current
<1>3. \A q \in Pools : ~(proc[q] # None /\ Leaves(q))
  BY <1>1, OneCurrent DEF Leaves, Awaited
<1>4. \A q \in todo : wanted[q] # None
  BY <1>1 DEF BigBrainInv, TickInv
<1>5. Apart(wanted)' /\ KeyInv /\ PortInv /\ ~IsRunning(p)
  BY <1>1, <1>2 DEF BigBrainInv, Apart, IsRunning, HeadOf
<1>6. CASE after = ""
  <2>1. UNCHANGED <<head, todo>> /\ pc' = "start" /\ after' = ""
    BY <1>6 DEF HeadStopped
  <2>2. BigBrainTypeOK'
    BY <1>1, <2>1 DEF BigBrainInv, BigBrainTypeOK, world, States
  <2>3. TickInv'
    <3>1. ASSUME NEW q \in todo, Current(q)' PROVE q = p
      BY <1>1, <2>1, <3>1, OneCurrent DEF Current, BigBrainInv, BigBrainTypeOK
    <3>2. QED
      BY <1>1, <1>2, <1>4, <2>1, <3>1 DEF TickInv
  <2>4. QED
    BY <1>1, <1>3, <1>5, <2>1, <2>2, <2>3, LookStep DEF KeyInv
<1>7. CASE after # ""
  <2>1. head' = [head EXCEPT ![p].state = after] /\ todo' = todo \ {p} /\ pc' = "pools" /\ after' = ""
    BY <1>7 DEF HeadStopped, PoolDone
  <2>2. head[p] \in Heads /\ after \in States
    BY <1>2 DEF BigBrainInv, BigBrainTypeOK
  <2>3. head'[p] \in Heads /\ ~head'[p].cancel
    BY <1>2, <2>1, <2>2 DEF Heads, BigBrainInv, BigBrainTypeOK
  <2>4. BigBrainTypeOK' /\ Others(p)
    BY <1>1, <2>1, <2>3 DEF BigBrainInv, BigBrainTypeOK, world, States, Others
  <2>5. TickInv'
    BY <1>1, <1>4, <2>1 DEF TickInv
  <2>6. ~IsRunning(p)' /\ proc'[p] = None
    BY <1>1, <2>3, BigBrainAssumption DEF IsRunning, HeadOf
  <2>7. QED
    BY <1>1, <1>3, <1>5, <2>1, <2>4, <2>5, <2>6, TickStep DEF KeyInv
<1>8. QED
  BY <1>6, <1>7

\* Where a head may be started no process of its pool is left.
LEMMA MayStartFacts ==
    ASSUME BigBrainInv, NEW p \in Pools, MayStart(p)
    PROVE  /\ pc \in {"pools", "start"} /\ Current(p) /\ wanted[p] \in Requests /\ proc[p] = None
           /\ ~IsRunning(p) /\ HeadOf(p) \in Heads
           /\ \A q \in Pools : (proc[q] # None => Owns(q)) /\ ~(proc[q] # None /\ Leaves(q))
<1>1. pc \in {"pools", "start"} /\ Current(p)
  BY DEF MayStart, CanGoOn
<1>2. wanted[p] \in Requests
  BY <1>1 DEF BigBrainInv, BigBrainTypeOK, TickInv, Current
<1>3. \A q \in Pools : (proc[q] # None => Owns(q)) /\ (IsRunning(q) <=> proc[q] # None) /\ ~(proc[q] # None /\ Leaves(q))
  BY <1>1, Quiet
<1>4. ~IsRunning(p)
  <2>1. CASE pc = "start"
    BY <1>1, <2>1 DEF BigBrainInv, TickInv, Current, IsRunning, HeadOf
  <2>2. CASE pc = "pools"
    BY <2>2 DEF MayStart
  <2>3. QED
    BY <1>1, <2>1, <2>2
<1>5. HeadOf(p) \in Heads
  BY DEF HeadOf, NewHead, Heads, States, BigBrainInv, BigBrainTypeOK
<1>6. QED
  BY <1>1, <1>2, <1>3, <1>4, <1>5

\* A pool whose head does not run is done.
LEMMA NotStartedStep ==
    ASSUME BigBrainInv, NEW p \in Pools, MayStart(p), NEW new \in Heads, ~(new.cancel /\ ~new.exited),
           head' = [head EXCEPT ![p] = new], PoolDone(p), UNCHANGED <<world, proc, wanted, after>>
    PROVE  BigBrainInv'
<1>1. /\ pc \in {"pools", "start"} /\ proc[p] = None
      /\ \A q \in Pools : ~(proc[q] # None /\ Leaves(q))
  BY MayStartFacts
<1>2. head'[p] = new /\ new # None /\ Others(p)
  BY BigBrainAssumption DEF Others, BigBrainInv, BigBrainTypeOK
<1>3. ~IsRunning(p)'
  BY <1>2 DEF IsRunning, HeadOf
<1>4. BigBrainTypeOK' /\ Apart(wanted)'
  BY DEF BigBrainInv, BigBrainTypeOK, PoolDone, world, Apart
<1>5. TickInv'
  BY <1>1 DEF BigBrainInv, TickInv, PoolDone
<1>6. KeyInv
  BY DEF BigBrainInv
<1>7. QED
  BY <1>1, <1>2, <1>3, <1>4, <1>5, <1>6, TickStep DEF KeyInv, PoolDone

LEMMA WaitsStep == ASSUME BigBrainInv, NEW p \in Pools, StartWaits(p) PROVE BigBrainInv'
<1> DEFINE h == HeadOf(p)
<1>1. h \in Heads /\ ~IsRunning(p)
  BY MayStartFacts DEF StartWaits
<1>2. PICK state \in {"error", "preparing"} : head' = [head EXCEPT ![p] = [h EXCEPT !.state = state]]
  BY DEF StartWaits
<1>3. ~(h.cancel /\ ~h.exited)
  BY <1>1 DEF IsRunning
<1> HIDE DEF h
<1>4. [h EXCEPT !.state = state] \in Heads
  BY <1>1 DEF Heads, States
<1>5. [h EXCEPT !.state = state].cancel = h.cancel /\ [h EXCEPT !.state = state].exited = h.exited
  BY <1>1 DEF Heads
<1>6. QED
  BY <1>2, <1>3, <1>4, <1>5, NotStartedStep DEF StartWaits

\* The new head gets a port that no running head has, and no process is left
\* that does not belong to a running head.
LEMMA StartStep == ASSUME BigBrainInv, NEW p \in Pools, StartHead(p) PROVE BigBrainInv'
<1> DEFINE h == HeadOf(p)
           port == FreePort(p)
           started == [h EXCEPT !.key = wanted[p], !.cancel = TRUE, !.exited = FALSE, !.state = "loading", !.port = port]
           process == [port |-> port, key |-> wanted[p], phase |-> "loading", cancelled |-> FALSE]
           failed == [h EXCEPT !.exited = TRUE, !.backoff = TRUE, !.state = "error"]
<1>1. /\ pc \in {"pools", "start"} /\ Current(p) /\ wanted[p] \in Requests /\ proc[p] = None
      /\ ~IsRunning(p) /\ h \in Heads
      /\ \A q \in Pools : (proc[q] # None => Owns(q)) /\ ~(proc[q] # None /\ Leaves(q))
  BY MayStartFacts DEF StartHead
<1>2. port \in Ports /\ \A q \in Pools \ {p} : IsRunning(q) => head[q].port # port
  BY PortIsFree DEF BigBrainInv
<1>3. \/ head' = [head EXCEPT ![p] = started] /\ proc' = [proc EXCEPT ![p] = process]
      \/ head' = [head EXCEPT ![p] = failed] /\ UNCHANGED proc
  BY DEF StartHead
<1>4. MayStart(p) /\ PoolDone(p) /\ UNCHANGED <<world, wanted, after>>
  BY DEF StartHead
<1> HIDE DEF h, port
<1>5. CASE head' = [head EXCEPT ![p] = failed] /\ UNCHANGED proc
  <2>1. failed \in Heads /\ failed.exited
    BY <1>1 DEF Heads, States
  <2> HIDE DEF failed
  <2>2. QED
    BY <1>4, <1>5, <2>1, NotStartedStep
<1>6. CASE head' = [head EXCEPT ![p] = started] /\ proc' = [proc EXCEPT ![p] = process]
  <2>1. started \in Heads /\ started.key = wanted[p] /\ started.cancel /\ ~started.exited /\ started.port = port
    BY <1>1, <1>2 DEF Heads, States
  <2>2. process \in Processes /\ process.key = wanted[p] /\ ~process.cancelled /\ process.port = port
    BY <1>1, <1>2 DEF Processes
  <2> HIDE DEF started, process
  <2>3. head'[p] = started /\ proc'[p] = process /\ Others(p) /\ started # None /\ process # None
    BY <1>6, <2>1, <2>2, BigBrainAssumption DEF Others, BigBrainInv, BigBrainTypeOK
  <2>4. IsRunning(p)' /\ Owns(p)'
    BY <2>1, <2>2, <2>3 DEF IsRunning, HeadOf, Owns
  <2>5. BigBrainTypeOK' /\ Apart(wanted)'
    BY <1>4, <1>6, <2>1, <2>2 DEF BigBrainInv, BigBrainTypeOK, PoolDone, world, Apart
  <2>6. TickInv'
    BY <1>1, <1>4 DEF BigBrainInv, TickInv, PoolDone
  <2>7. \A q \in Pools \ {p} : proc[q] # None => proc[q].port # port
    BY <1>1, <1>2 DEF Owns
  <2>8. \A q \in Pools \ {p} : q \notin todo' /\ wanted'[q] # None /\ IsRunning(q) => head[q].key = wanted'[q]
    BY <1>4 DEF BigBrainInv, KeyInv, PoolDone
  <2>9. QED
    BY <1>1, <1>2, <1>4, <2>1, <2>2, <2>3, <2>4, <2>5, <2>6, <2>7, <2>8, TickStep
<1>7. QED
  BY <1>3, <1>5, <1>6

\* Heads of pools that are gone.
LEMMA ForgetStep == ASSUME BigBrainInv, ForgetHeads PROVE BigBrainInv'
<1>1. pc = "pools" /\ todo = {} /\ UNCHANGED <<world, wanted, after>>
  BY DEF ForgetHeads
<1>2. \A q \in Pools : (proc[q] # None => Owns(q)) /\ (IsRunning(q) <=> proc[q] # None) /\ ~(proc[q] # None /\ Leaves(q))
  BY <1>1, Quiet
<1>3. Apart(wanted)' /\ KeyInv /\ PortInv
  BY <1>1 DEF BigBrainInv, Apart
<1>4. CASE (\A p \in Pools : head[p] # None => wanted[p] # None) /\ pc' = "idle" /\ UNCHANGED <<head, proc, todo>>
  <2>1. BigBrainTypeOK' /\ TickInv'
    BY <1>1, <1>4 DEF BigBrainInv, BigBrainTypeOK, TickInv, world
  <2>2. QED
    BY <1>1, <1>2, <1>3, <1>4, <2>1, LookStep DEF KeyInv
<1>5. ASSUME NEW p \in Pools, head[p] # None, wanted[p] = None, head' = [head EXCEPT ![p] = None],
             proc' = (IF head[p].cancel /\ proc[p] # None THEN [proc EXCEPT ![p].cancelled = TRUE] ELSE proc),
             todo' = {p}, pc' = "forgetting"
      PROVE  BigBrainInv'
  <2>1. head'[p] = None /\ head' \in [Pools -> Heads \cup {None}]
    BY <1>5 DEF BigBrainInv, BigBrainTypeOK
  <2>2. ~IsRunning(p)' /\ ~HeadOf(p)'.cancel
    BY <2>1 DEF IsRunning, HeadOf, NewHead
  <2>3. CASE proc[p] = None
    <3>1. proc' = proc /\ Others(p)
      BY <1>5, <2>3 DEF Others, BigBrainInv, BigBrainTypeOK
    <3>2. BigBrainTypeOK' /\ TickInv'
      BY <1>1, <1>5, <2>1, <3>1 DEF BigBrainInv, BigBrainTypeOK, TickInv, world
    <3>3. \A q \in Pools \ {p} : q \notin todo' /\ wanted'[q] # None /\ IsRunning(q) => head[q].key = wanted'[q]
      BY <1>1, <1>3 DEF KeyInv
    <3>4. QED
      BY <1>1, <1>2, <1>3, <1>5, <2>2, <2>3, <3>1, <3>2, <3>3, TickStep
  <2>4. CASE proc[p] # None
    <3>1. proc[p] \in Processes /\ head[p].cancel
      BY <1>2, <1>5, <2>4 DEF BigBrainInv, BigBrainTypeOK, Owns, IsRunning, HeadOf
    <3>2. proc' = [proc EXCEPT ![p].cancelled = TRUE]
      BY <1>5, <2>4, <3>1
    <3>3. proc'[p] \in Processes /\ proc'[p].cancelled /\ proc'[p].port = proc[p].port
      BY <3>1, <3>2 DEF Processes, BigBrainInv, BigBrainTypeOK
    <3>4. Others(p) /\ proc' \in [Pools -> Processes \cup {None}]
      BY <1>5, <3>2, <3>3 DEF Others, BigBrainInv, BigBrainTypeOK
    <3>5. BigBrainTypeOK' /\ TickInv'
      BY <1>1, <1>5, <2>1, <3>4 DEF BigBrainInv, BigBrainTypeOK, TickInv, world
    <3>6. Leaves(p)'
      BY <1>5, <2>2, <3>3 DEF Leaves, Awaited
    <3>7. \A q \in Pools \ {p} : q \notin todo' /\ wanted'[q] # None /\ IsRunning(q) => head[q].key = wanted'[q]
      BY <1>1, <1>3 DEF KeyInv
    <3>8. \A q \in Pools \ {p} : IsRunning(q) /\ proc'[p] # None => proc'[p].port # head[q].port
      BY <1>3, <2>4, <3>3 DEF PortInv
    <3>9. QED
      BY <1>1, <1>2, <1>3, <1>5, <2>2, <3>4, <3>5, <3>6, <3>7, <3>8, TickStep
  <2>5. QED
    BY <2>3, <2>4
<1>6. QED
  BY <1>4, <1>5 DEF ForgetHeads

LEMMA ForgottenStep == ASSUME BigBrainInv, NEW p \in Pools, HeadForgotten(p) PROVE BigBrainInv'
<1>1. pc = "forgetting" /\ p \in todo /\ proc[p] = None /\ todo' = {} /\ pc' = "pools" /\ UNCHANGED <<world, head, proc, wanted, after>>
  BY DEF HeadForgotten, Stopped
<1>2. todo = {p} /\ wanted[p] = None
  BY <1>1 DEF BigBrainInv, TickInv
<1>3. \A q \in Pools : ~(proc[q] # None /\ Leaves(q))
  BY <1>1, <1>2 DEF Leaves, Awaited
<1>4. BigBrainTypeOK' /\ TickInv' /\ Apart(wanted)'
  BY <1>1 DEF BigBrainInv, BigBrainTypeOK, TickInv, Apart, world
<1>5. \A q \in Pools : q \notin todo' /\ wanted'[q] # None /\ IsRunning(q) => head[q].key = wanted'[q]
  BY <1>1, <1>2 DEF BigBrainInv, KeyInv
<1>6. QED
  BY <1>1, <1>3, <1>4, <1>5, LookStep

-----------------------------------------------------------------------------
(* The theorems *)

LEMMA BigBrainInvariant == BigBrainSpec => []BigBrainInv
<1>1. ASSUME BigBrainInv, [BigBrainNext]_vars PROVE BigBrainInv'
  <2>1. CASE Tick
    BY <1>1, <2>1, BeginStep, ForgetStep, StopStep, StoppedStep, PollStep, ReadyStep, WaitsStep, StartStep, ForgottenStep
       DEF Tick
  <2>2. ASSUME NEW p \in Pools, DeletePool(p) PROVE BigBrainInv'
    <3>1. pools[p] \in Requests
      BY <1>1, <2>2 DEF DeletePool, BigBrainInv, BigBrainTypeOK
    <3>2. QED
      BY <1>1, <2>2, <3>1, PoolStep
  <2>3. CASE UNCHANGED vars
    BY <1>1, <2>3, WorldStep DEF vars, BigBrainInv, BigBrainTypeOK, Apart
  <2>4. QED
    BY <1>1, <2>1, <2>2, <2>3, PoolStep, ProcessStep, ReportStep DEF BigBrainNext
<1>2. QED
  BY <1>1, BigBrainInitially, PTL DEF BigBrainSpec

\* The state of pools, heads, processes and the tick keeps its types
\* (bigbrain.go).
THEOREM BigBrainTypeCorrect == BigBrainSpec => []BigBrainTypeOK
<1>1. BigBrainInv => BigBrainTypeOK
  BY DEF BigBrainInv
<1>2. QED
  BY <1>1, BigBrainInvariant, PTL

\* For any number of pools, what answers on the port of a running head is that
\* head, with the model and phones it was started for (freePortLocked, stop,
\* start).
THEOREM HeadsKeepTheirPorts == BigBrainSpec => []OwnHeadAnswers
<1>1. ASSUME BigBrainInv PROVE OwnHeadAnswers
  <2>1. ASSUME NEW p \in Pools, NEW q \in Pools, IsRunning(p), Alive(q), proc[q].port = head[p].port
        PROVE  q = p /\ proc[q].key = head[p].key
    <3>1. q = p
      BY <1>1, <2>1 DEF BigBrainInv, PortInv, Alive
    <3>2. ~Leaves(p)
      BY <2>1 DEF Leaves, IsRunning
    <3>3. QED
      BY <1>1, <2>1, <3>1, <3>2 DEF BigBrainInv, HeadInv, Alive, Owns
  <2>2. QED
    BY <2>1 DEF OwnHeadAnswers
<1>2. QED
  BY <1>1, BigBrainInvariant, PTL

\* For any pools, phones and names, no phone lends its memory to two heads
\* that run once a tick is over (poolConflict, bigBrainTick).
THEOREM PhonesAreNotShared == BigBrainSpec => []OneBrainPerPhone
<1>1. ASSUME BigBrainInv, pc = "idle" PROVE OneBrainPerPhone
  <2>1. ASSUME NEW p \in Pools, Alive(p) PROVE wanted[p] # None /\ proc[p].key = wanted[p]
    <3>1. Owns(p)
      BY <1>1, <2>1, Quiet DEF Alive
    <3>2. head[p] # None
      BY <3>1 DEF Owns, IsRunning, HeadOf, NewHead
    <3>3. todo = {} /\ wanted[p] # None
      BY <1>1, <3>2 DEF BigBrainInv, TickInv
    <3>4. QED
      BY <1>1, <3>1, <3>3 DEF BigBrainInv, KeyInv, Owns
  <2>2. QED
    BY <1>1, <2>1 DEF OneBrainPerPhone, BigBrainInv, Apart
<1>2. BigBrainInv => OneBrainPerPhone
  BY <1>1 DEF OneBrainPerPhone
<1>3. QED
  BY <1>2, BigBrainInvariant, PTL
=============================================================================
