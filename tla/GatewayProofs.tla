--------------------------- MODULE GatewayProofs ---------------------------
(* The gateway's safety properties, for any number of nodes, requests and   *)
(* attempts, and any targets, contexts and caps.                             *)
EXTENDS Gateway, FiniteSetTheorems, TLAPS

(***************************************************************************)
(* The inductive invariant. The properties need two facts they do not      *)
(* state: a handler that has an attempt under way has its backend among    *)
(* the tried ones, and an attempt that may still be retried has sent the   *)
(* client nothing.                                                         *)
(***************************************************************************)
AttemptIsTried ==
    \A r \in Requests : Underway(r) => node[r] \in tried[r]

GatewayInv ==
    /\ GatewayTypeOK
    /\ AttemptIsTried
    /\ InflightIsExact
    /\ OneVoice
    /\ CapIsKept
    /\ EveryRequestIsAccounted

\* The requests that are forwarded to n.
On(n) == {r \in Requests : Forwarding(r) /\ node[r] = n}

\* A forwarded request counts: its node's in-flight count is positive.
LEMMA ForwardedCounts ==
    ASSUME GatewayTypeOK, AttemptIsTried, InflightIsExact,
           NEW r \in Requests, Forwarding(r)
    PROVE  node[r] \in Nodes /\ inflight[node[r]] \in Nat \ {0}
<1>1. node[r] \in Nodes
  BY DEF AttemptIsTried, Underway, Forwarding, GatewayTypeOK
<1>2. IsFiniteSet(On(node[r]))
  BY FS_Subset, GatewayAssumption DEF On
<1>3. On(node[r]) # {}
  BY DEF On
<1>4. Cardinality(On(node[r])) \in Nat \ {0}
  BY <1>2, <1>3, FS_CardinalityType, FS_EmptySet
<1>5. QED
  BY <1>1, <1>4 DEF InflightIsExact, On

\* Leaving forward brings the count down with the forwarded requests.
LEMMA LeaveExact ==
    ASSUME GatewayTypeOK, AttemptIsTried, InflightIsExact,
           NEW r \in Requests, Forwarding(r), Leave(r), UNCHANGED node,
           NEW p \in Places \ {"waiting", "copying"}, pc' = [pc EXCEPT ![r] = p]
    PROVE  InflightIsExact' /\ inflight' \in [Nodes -> Nat]
<1>1. node[r] \in Nodes /\ inflight[node[r]] \in Nat \ {0}
  BY ForwardedCounts
<1>2. inflight' \in [Nodes -> Nat]
  BY <1>1 DEF Leave, GatewayTypeOK
<1>3. ASSUME NEW n \in Nodes PROVE inflight'[n] = Cardinality(On(n)')
  <2>1. CASE n = node[r]
    <3>1. On(n)' = On(n) \ {r} /\ r \in On(n)
      BY <2>1 DEF On, Forwarding, GatewayTypeOK
    <3>2. IsFiniteSet(On(n))
      BY FS_Subset, GatewayAssumption DEF On
    <3>3. Cardinality(On(n)') = Cardinality(On(n)) - 1
      BY <3>1, <3>2, FS_RemoveElement
    <3>4. inflight'[n] = inflight[n] - 1
      BY <2>1 DEF Leave, GatewayTypeOK
    <3>5. QED
      BY <3>3, <3>4 DEF InflightIsExact, On
  <2>2. CASE n # node[r]
    <3>1. On(n)' = On(n)
      BY <2>2 DEF On, Forwarding, GatewayTypeOK
    <3>2. inflight'[n] = inflight[n]
      BY <2>2 DEF Leave, GatewayTypeOK
    <3>3. QED
      BY <3>1, <3>2 DEF InflightIsExact, On
  <2>3. QED
    BY <2>1, <2>2
<1>4. QED
  BY <1>2, <1>3 DEF InflightIsExact, On

\* Entering forward brings it up with them.
LEMMA ForwardExact ==
    ASSUME GatewayTypeOK, AttemptIsTried, InflightIsExact,
           NEW r \in Requests, Forward(r)
    PROVE  InflightIsExact' /\ inflight' \in [Nodes -> Nat]
<1>1. node[r] \in Nodes /\ node' = node /\ ~Forwarding(r)
  BY DEF AttemptIsTried, Underway, Forward, GatewayTypeOK, Forwarding
<1>2. inflight' \in [Nodes -> Nat]
  BY <1>1 DEF Forward, GatewayTypeOK
<1>3. ASSUME NEW n \in Nodes PROVE inflight'[n] = Cardinality(On(n)')
  <2>1. CASE n = node[r]
    <3>1. On(n)' = On(n) \cup {r} /\ r \notin On(n)
      BY <1>1, <2>1 DEF On, Forwarding, Forward, GatewayTypeOK
    <3>2. IsFiniteSet(On(n))
      BY FS_Subset, GatewayAssumption DEF On
    <3>3. Cardinality(On(n)') = Cardinality(On(n)) + 1
      BY <3>1, <3>2, FS_AddElement
    <3>4. inflight'[n] = inflight[n] + 1
      BY <2>1 DEF Forward, GatewayTypeOK
    <3>5. QED
      BY <3>3, <3>4 DEF InflightIsExact, On
  <2>2. CASE n # node[r]
    <3>1. On(n)' = On(n)
      BY <1>1, <2>2 DEF On, Forwarding, Forward, GatewayTypeOK
    <3>2. inflight'[n] = inflight[n]
      BY <2>2 DEF Forward, GatewayTypeOK
    <3>3. QED
      BY <3>1, <3>2 DEF InflightIsExact, On
  <2>3. QED
    BY <2>1, <2>2
<1>4. QED
  BY <1>2, <1>3 DEF InflightIsExact, On

\* A step that neither enters nor leaves forward keeps the counts exact.
LEMMA StayExact ==
    ASSUME InflightIsExact, UNCHANGED inflight,
           \A r \in Requests :
              /\ Forwarding(r)' <=> Forwarding(r)
              /\ Forwarding(r) => node'[r] = node[r]
    PROVE  InflightIsExact'
<1>1. ASSUME NEW n \in Nodes PROVE On(n)' = On(n)
  BY DEF On
<1>2. QED
  BY <1>1 DEF InflightIsExact, On

-----------------------------------------------------------------------------
\* The counts are exact after every step.
LEMMA StepExact ==
    GatewayTypeOK /\ AttemptIsTried /\ InflightIsExact /\ [GatewayNext]_vars
        => InflightIsExact' /\ inflight' \in [Nodes -> Nat]
<1> SUFFICES ASSUME GatewayTypeOK, AttemptIsTried, InflightIsExact, [GatewayNext]_vars
             PROVE  InflightIsExact' /\ inflight' \in [Nodes -> Nat]
  OBVIOUS
<1>1. ASSUME NEW r \in Requests, Forward(r)
      PROVE  InflightIsExact' /\ inflight' \in [Nodes -> Nat]
  BY <1>1, ForwardExact
<1>2. ASSUME NEW r \in Requests,
             DoCancelled(r) \/ CopyCancelled(r) \/ DoBroken(r) \/ AnswerRefused(r)
                \/ CopyEnds(r) \/ CopyBroken(r)
      PROVE  InflightIsExact' /\ inflight' \in [Nodes -> Nat]
  <2>1. Forwarding(r) /\ Leave(r) /\ UNCHANGED node
    BY <1>2 DEF DoCancelled, CopyCancelled, DoBroken, AnswerRefused, CopyEnds, CopyBroken,
                NoAnswer, Abort, Return, Forwarding
  <2>2. \E p \in Places \ {"waiting", "copying"} : pc' = [pc EXCEPT ![r] = p]
    BY <1>2 DEF DoCancelled, CopyCancelled, DoBroken, AnswerRefused, CopyEnds, CopyBroken,
                NoAnswer, Abort, Return, Finish, Places
  <2>3. QED
    BY <2>1, <2>2, LeaveExact
<1>3. ASSUME UNCHANGED inflight,
             \A r \in Requests :
                /\ Forwarding(r)' <=> Forwarding(r)
                /\ Forwarding(r) => node'[r] = node[r]
      PROVE  InflightIsExact' /\ inflight' \in [Nodes -> Nat]
  BY <1>3, StayExact DEF GatewayTypeOK
<1>4. ASSUME NEW r \in Requests,
             Accept(r) \/ Reject(r) \/ GiveUp(r) \/ AfterError(r) \/ AnswerStarts(r)
      PROVE  InflightIsExact' /\ inflight' \in [Nodes -> Nat]
  BY <1>3, <1>4 DEF Accept, Reject, GiveUp, AfterError, AnswerStarts, Finish, Forwarding,
                    GatewayTypeOK
<1>5. ASSUME NEW r \in Requests, Pick(r)
      PROVE  InflightIsExact' /\ inflight' \in [Nodes -> Nat]
  BY <1>3, <1>5 DEF Pick, Forwarding, GatewayTypeOK
<1>6. ASSUME UNCHANGED <<inflight, pc, node>>
      PROVE  InflightIsExact' /\ inflight' \in [Nodes -> Nat]
  BY <1>3, <1>6 DEF Forwarding
<1>7. QED
  BY <1>1, <1>2, <1>4, <1>5, <1>6
     DEF GatewayNext, HandlerStep, NodeStep, Reap, ReapRead, ReapCancel, Timeout,
         ClientLeaves, CooldownEnds, ClusterChanges, handlerVars, vars

\* Every step keeps the types and the tried backends.
LEMMA StepGatewayTyped ==
    GatewayTypeOK /\ AttemptIsTried /\ InflightIsExact /\ [GatewayNext]_vars
        => GatewayTypeOK' /\ AttemptIsTried'
<1> SUFFICES ASSUME GatewayTypeOK, AttemptIsTried, InflightIsExact, [GatewayNext]_vars
             PROVE  GatewayTypeOK' /\ AttemptIsTried'
  OBVIOUS
<1>0. inflight' \in [Nodes -> Nat]
  BY StepExact
<1> USE <1>0 DEF GatewayTypeOK, AttemptIsTried, Underway, Places
<1>1. ASSUME NEW r \in Requests, Accept(r) \/ Reject(r) \/ GiveUp(r)
      PROVE  GatewayTypeOK' /\ AttemptIsTried'
  BY <1>1 DEF Accept, Reject, GiveUp, Finish, clusterVars, historyVars
<1>2. ASSUME NEW r \in Requests, Pick(r)
      PROVE  GatewayTypeOK' /\ AttemptIsTried'
  BY <1>2 DEF Pick, Candidates, Usable, Eligible, clusterVars, historyVars
<1>3. ASSUME NEW r \in Requests, Forward(r)
      PROVE  GatewayTypeOK' /\ AttemptIsTried'
  BY <1>3 DEF Forward, clusterVars, historyVars
<1>4. ASSUME NEW r \in Requests, pc[r] = "waiting", NoAnswer(r)
      PROVE  GatewayTypeOK' /\ AttemptIsTried'
  BY <1>4 DEF NoAnswer, Return, Finish, clusterVars
<1>5. ASSUME NEW r \in Requests, AnswerRefused(r)
      PROVE  GatewayTypeOK' /\ AttemptIsTried'
  BY <1>5 DEF AnswerRefused, Return, clusterVars, historyVars
<1>6. ASSUME NEW r \in Requests, AnswerStarts(r)
      PROVE  GatewayTypeOK' /\ AttemptIsTried'
  BY <1>6 DEF AnswerStarts, clusterVars
<1>7. ASSUME NEW r \in Requests, CopyEnds(r)
      PROVE  GatewayTypeOK' /\ AttemptIsTried'
  BY <1>7 DEF CopyEnds, Finish, clusterVars
<1>8. ASSUME NEW r \in Requests, pc[r] = "copying", Abort(r)
      PROVE  GatewayTypeOK' /\ AttemptIsTried'
  BY <1>8 DEF Abort, Return, clusterVars
<1>9. ASSUME NEW r \in Requests, AfterError(r)
      PROVE  GatewayTypeOK' /\ AttemptIsTried'
  BY <1>9 DEF AfterError, MarkedDown, clusterVars
<1>10. ASSUME NEW r \in Requests, Timeout(r) \/ ClientLeaves(r)
       PROVE  GatewayTypeOK' /\ AttemptIsTried'
  BY <1>10 DEF Timeout, ClientLeaves, clusterVars, handlerVars, historyVars
<1>11. CASE ReapRead
  BY <1>11 DEF ReapRead, clusterVars, handlerVars, historyVars
<1>12. CASE ReapCancel
  <2>1. cancelled' \in [Requests -> BOOLEAN]
    BY <1>12, Zenon DEF ReapCancel
  <2>2. QED
    BY <1>12, <2>1 DEF ReapCancel, clusterVars, handlerVars, historyVars
<1>13. ASSUME NEW n \in Nodes, CooldownEnds(n)
       PROVE  GatewayTypeOK' /\ AttemptIsTried'
  BY <1>13 DEF CooldownEnds, clusterVars, handlerVars, historyVars
<1>14. CASE ClusterChanges
  BY <1>14 DEF ClusterChanges, handlerVars, historyVars
<1>15. CASE UNCHANGED vars
  BY <1>15 DEF vars
<1>16. QED
  BY <1>1, <1>2, <1>3, <1>4, <1>5, <1>6, <1>7, <1>8, <1>9, <1>10, <1>11, <1>12, <1>13,
     <1>14, <1>15
     DEF GatewayNext, HandlerStep, NodeStep, Reap, DoCancelled, DoBroken, CopyCancelled,
         CopyBroken

\* No step lets a second node speak to a client.
LEMMA StepVoice ==
    GatewayTypeOK /\ OneVoice /\ [GatewayNext]_vars => OneVoice'
<1> SUFFICES ASSUME GatewayTypeOK, OneVoice, [GatewayNext]_vars PROVE OneVoice'
  OBVIOUS
<1> USE DEF GatewayTypeOK, OneVoice, Places
<1>1. ASSUME NEW r \in Requests, Accept(r) \/ Reject(r) \/ GiveUp(r) \/ Pick(r)
                                    \/ Forward(r) \/ AfterError(r)
      PROVE  OneVoice'
  BY <1>1 DEF Accept, Reject, GiveUp, Pick, Forward, AfterError, Finish, historyVars
<1>2. ASSUME NEW r \in Requests, NodeStep(r) \/ DoCancelled(r) \/ CopyCancelled(r)
      PROVE  OneVoice'
  BY <1>2 DEF NodeStep, DoCancelled, CopyCancelled, DoBroken, CopyBroken, AnswerRefused,
              AnswerStarts, CopyEnds, NoAnswer, Abort, Return, Finish, historyVars
<1>3. CASE UNCHANGED <<pc, node, voices>>
  BY <1>3
<1>4. QED
  BY <1>1, <1>2, <1>3
     DEF GatewayNext, HandlerStep, Reap, ReapRead, ReapCancel, Timeout, ClientLeaves,
         CooldownEnds, ClusterChanges, handlerVars, historyVars, vars

\* Picking adds one untried backend; tried sets are finite.
LEMMA PickCounts ==
    ASSUME GatewayTypeOK, NEW r \in Requests, Pick(r)
    PROVE  /\ Cardinality(tried'[r]) = Cardinality(tried[r]) + 1
           /\ Cardinality(tried[r]) \in Nat
           /\ \A q \in Requests \ {r} : tried'[q] = tried[q]
<1>1. PICK b \in Candidates(r) : tried' = [tried EXCEPT ![r] = @ \cup {b}]
  BY DEF Pick
<1>2. b \notin tried[r]
  BY <1>1 DEF Candidates, Usable, Eligible
<1>3. IsFiniteSet(tried[r])
  BY FS_Subset, GatewayAssumption DEF GatewayTypeOK
<1>4. Cardinality(tried[r] \cup {b}) = Cardinality(tried[r]) + 1
  BY <1>2, <1>3, FS_AddElement
<1>5. QED
  BY <1>1, <1>2, <1>3, <1>4, FS_CardinalityType DEF GatewayTypeOK

-----------------------------------------------------------------------------
(* The cap *)

\* The requests that chose n with nobody else between its choice and its count.
Alone(n) == {r \in Requests \ hurried : Chosen(r) /\ node[r] = n}

\* A step after which no node has a new request of this kind keeps the cap.
LEMMA CapStays ==
    ASSUME CapIsKept, \A n \in Nodes : Alone(n)' \subseteq Alone(n)
    PROVE  CapIsKept'
<1>1. ASSUME NEW n \in Nodes, MaxConcurrency[n] > 0 PROVE Cardinality(Alone(n)') <= MaxConcurrency[n]
  <2>1. IsFiniteSet(Alone(n))
    BY FS_Subset, GatewayAssumption DEF Alone
  <2>2. Cardinality(Alone(n)') <= Cardinality(Alone(n))
    BY <2>1, FS_Subset
  <2>3. Cardinality(Alone(n)') \in Nat /\ Cardinality(Alone(n)) \in Nat /\ MaxConcurrency[n] \in Nat
    BY <2>1, FS_Subset, FS_CardinalityType, GatewayAssumption
  <2>4. QED
    BY <1>1, <2>2, <2>3 DEF CapIsKept, Alone
<1>2. QED
  BY <1>1 DEF CapIsKept, Alone

\* A request that chooses alone saw the count of all that the node has.
LEMMA CapAfterPick ==
    ASSUME GatewayTypeOK, InflightIsExact, CapIsKept, NEW r \in Requests, Pick(r)
    PROVE  CapIsKept'
<1>1. PICK b \in Candidates(r) :
         /\ node' = [node EXCEPT ![r] = b]
         /\ hurried' = IF \E q \in Requests \ {r} : pc[q] = "picked" /\ node[q] = b
                       THEN hurried \cup {r} ELSE hurried \ {r}
  BY DEF Pick
<1>2. /\ b \in Nodes
      /\ MaxConcurrency[b] > 0 => inflight[b] < MaxConcurrency[b]
      /\ pc[r] = "choose" /\ pc' = [pc EXCEPT ![r] = "picked"]
  BY <1>1 DEF Pick, Candidates, Usable, Eligible, GatewayTypeOK
<1>3. \A n \in Nodes \ {b} : Alone(n)' \subseteq Alone(n)
  BY <1>1, <1>2 DEF Alone, Chosen, GatewayTypeOK
<1>4. CASE \E q \in Requests \ {r} : pc[q] = "picked" /\ node[q] = b
  <2>1. Alone(b)' \subseteq Alone(b)
    BY <1>1, <1>2, <1>4 DEF Alone, Chosen, GatewayTypeOK
  <2>2. QED
    BY <1>3, <2>1, CapStays
<1>5. CASE ~\E q \in Requests \ {r} : pc[q] = "picked" /\ node[q] = b
  <2>1. Alone(b)' \subseteq On(b) \cup {r}
    BY <1>1, <1>2, <1>5 DEF Alone, Chosen, On, Forwarding, GatewayTypeOK
  <2>2. IsFiniteSet(On(b)) /\ r \notin On(b)
    BY <1>2, FS_Subset, GatewayAssumption DEF On, Forwarding
  <2>3. Cardinality(On(b) \cup {r}) = inflight[b] + 1 /\ IsFiniteSet(On(b) \cup {r})
    BY <1>2, <2>2, FS_AddElement DEF InflightIsExact, On
  <2>4. Cardinality(Alone(b)') <= inflight[b] + 1 /\ Cardinality(Alone(b)') \in Nat
    BY <2>1, <2>3, FS_Subset, FS_CardinalityType
  <2>5. MaxConcurrency[b] > 0 => Cardinality(Alone(b)') <= MaxConcurrency[b]
    BY <1>2, <2>4, GatewayAssumption DEF GatewayTypeOK
  <2>6. ASSUME NEW n \in Nodes \ {b}, MaxConcurrency[n] > 0 PROVE Cardinality(Alone(n)') <= MaxConcurrency[n]
    <3>1. IsFiniteSet(Alone(n))
      BY FS_Subset, GatewayAssumption DEF Alone
    <3>2. Cardinality(Alone(n)') <= Cardinality(Alone(n)) /\ Cardinality(Alone(n)') \in Nat
      BY <1>3, <3>1, FS_Subset, FS_CardinalityType
    <3>3. Cardinality(Alone(n)) <= MaxConcurrency[n] /\ Cardinality(Alone(n)) \in Nat
      BY <2>6, <3>1, FS_CardinalityType DEF CapIsKept, Alone
    <3>4. QED
      BY <3>2, <3>3, GatewayAssumption
  <2>7. QED
    BY <2>5, <2>6 DEF CapIsKept, Alone
<1>6. QED
  BY <1>4, <1>5

\* Only a choice adds a request to a node.
LEMMA StepCap ==
    GatewayTypeOK /\ InflightIsExact /\ CapIsKept /\ [GatewayNext]_vars => CapIsKept'
<1> SUFFICES ASSUME GatewayTypeOK, InflightIsExact, CapIsKept, [GatewayNext]_vars
             PROVE  CapIsKept'
  OBVIOUS
<1>1. ASSUME NEW r \in Requests, Pick(r) PROVE CapIsKept'
  BY <1>1, CapAfterPick
<1>2. ASSUME UNCHANGED <<node, hurried>>, \A r \in Requests : Chosen(r)' => Chosen(r) PROVE CapIsKept'
  BY <1>2, CapStays DEF Alone
<1>3. ASSUME NEW r \in Requests,
             \/ Accept(r) \/ Reject(r) \/ GiveUp(r) \/ Forward(r) \/ AfterError(r)
             \/ NodeStep(r) \/ DoCancelled(r) \/ CopyCancelled(r)
      PROVE  CapIsKept'
  BY <1>2, <1>3
     DEF Accept, Reject, GiveUp, Forward, AfterError, NodeStep, DoCancelled, CopyCancelled, DoBroken,
         CopyBroken, AnswerRefused, AnswerStarts, CopyEnds, NoAnswer, Abort, Return, Finish, Chosen,
         GatewayTypeOK
<1>4. CASE UNCHANGED <<pc, node, hurried>>
  BY <1>2, <1>4 DEF Chosen
<1>5. QED
  BY <1>1, <1>3, <1>4
     DEF GatewayNext, HandlerStep, Reap, ReapRead, ReapCancel, Timeout, ClientLeaves,
         CooldownEnds, ClusterChanges, handlerVars, vars

-----------------------------------------------------------------------------
\* No step loses or doubles a usage event.
LEMMA StepAccounted ==
    GatewayTypeOK /\ EveryRequestIsAccounted /\ [GatewayNext]_vars
        => EveryRequestIsAccounted'
<1> SUFFICES ASSUME GatewayTypeOK, EveryRequestIsAccounted, [GatewayNext]_vars
             PROVE  EveryRequestIsAccounted'
  OBVIOUS
<1>0. \A q \in Requests : Cardinality(tried[q]) \in Nat
  <2>1. ASSUME NEW q \in Requests PROVE IsFiniteSet(tried[q])
    BY FS_Subset, GatewayAssumption DEF GatewayTypeOK
  <2>2. QED
    BY <2>1, FS_CardinalityType
<1> USE <1>0 DEF GatewayTypeOK, EveryRequestIsAccounted, Underway, Places
<1>1. ASSUME NEW r \in Requests, Accept(r) PROVE EveryRequestIsAccounted'
  BY <1>1 DEF Accept, historyVars
<1>2. ASSUME NEW r \in Requests, Reject(r) \/ GiveUp(r) PROVE EveryRequestIsAccounted'
  BY <1>2 DEF Reject, GiveUp, Finish
<1>3. ASSUME NEW r \in Requests, Pick(r) PROVE EveryRequestIsAccounted'
  <2>1. /\ Cardinality(tried'[r]) = Cardinality(tried[r]) + 1
        /\ \A q \in Requests \ {r} : Cardinality(tried'[q]) = Cardinality(tried[q])
    BY <1>3, PickCounts
  <2>2. /\ pc[r] = "choose" /\ pc' = [pc EXCEPT ![r] = "picked"]
        /\ UNCHANGED <<upstreamErrors, outcomes>>
    BY <1>3 DEF Pick, historyVars
  <2>3. QED
    BY <2>1, <2>2
<1>4. ASSUME NEW r \in Requests, Forward(r) \/ AnswerStarts(r)
      PROVE  EveryRequestIsAccounted'
  BY <1>4 DEF Forward, AnswerStarts, historyVars
<1>5. ASSUME NEW r \in Requests, pc[r] = "waiting", NoAnswer(r)
      PROVE  EveryRequestIsAccounted'
  BY <1>5 DEF NoAnswer, Return, Finish
<1>6. ASSUME NEW r \in Requests, AnswerRefused(r) PROVE EveryRequestIsAccounted'
  BY <1>6 DEF AnswerRefused, Return, historyVars
<1>7. ASSUME NEW r \in Requests, CopyEnds(r) PROVE EveryRequestIsAccounted'
  BY <1>7 DEF CopyEnds, Finish
<1>8. ASSUME NEW r \in Requests, pc[r] = "copying", Abort(r)
      PROVE  EveryRequestIsAccounted'
  BY <1>8 DEF Abort, Return
<1>9. ASSUME NEW r \in Requests, AfterError(r) PROVE EveryRequestIsAccounted'
  BY <1>9 DEF AfterError
<1>10. CASE UNCHANGED <<pc, tried, upstreamErrors, outcomes>>
  BY <1>10
<1>11. QED
  BY <1>1, <1>2, <1>3, <1>4, <1>5, <1>6, <1>7, <1>8, <1>9, <1>10
     DEF GatewayNext, HandlerStep, NodeStep, DoCancelled, CopyCancelled, DoBroken,
         CopyBroken, Reap, ReapRead, ReapCancel, Timeout, ClientLeaves, CooldownEnds,
         ClusterChanges, handlerVars, historyVars, vars

-----------------------------------------------------------------------------
\* The gateway's inductive invariant holds in every behaviour.
THEOREM GatewayInvariant == GatewaySpec => []GatewayInv
<1>1. ASSUME GatewayInit PROVE GatewayInv
  <2>1. GatewayTypeOK
    BY <1>1 DEF GatewayInit, GatewayTypeOK, Places
  <2>2. AttemptIsTried /\ OneVoice
    BY <1>1 DEF GatewayInit, AttemptIsTried, OneVoice, Underway
  <2>3. InflightIsExact
    <3>1. ASSUME NEW n \in Nodes PROVE On(n) = {}
      BY <1>1 DEF GatewayInit, On, Forwarding
    <3>2. QED
      BY <1>1, <3>1, FS_EmptySet DEF GatewayInit, InflightIsExact, On
  <2>4. EveryRequestIsAccounted
    <3>1. \A r \in Requests : Cardinality(tried[r]) = 0
      BY <1>1, FS_EmptySet DEF GatewayInit
    <3>2. QED
      BY <1>1, <3>1 DEF GatewayInit, EveryRequestIsAccounted, Underway
  <2>5. CapIsKept
    <3>1. ASSUME NEW n \in Nodes PROVE Alone(n) = {}
      BY <1>1 DEF GatewayInit, Alone, Chosen
    <3>2. ASSUME NEW n \in Nodes PROVE Cardinality(Alone(n)) = 0 /\ MaxConcurrency[n] \in Nat
      BY <3>1, FS_EmptySet, GatewayAssumption
    <3>3. ASSUME NEW n \in Nodes PROVE Cardinality(Alone(n)) <= MaxConcurrency[n]
      BY <3>2
    <3>4. QED
      BY <3>3 DEF CapIsKept, Alone
  <2>6. QED
    BY <2>1, <2>2, <2>3, <2>4, <2>5 DEF GatewayInv
<1>2. GatewayInv /\ [GatewayNext]_vars => GatewayInv'
  BY StepExact, StepGatewayTyped, StepVoice, StepCap, StepAccounted DEF GatewayInv
<1>3. QED
  BY <1>1, <1>2, PTL DEF GatewaySpec

\* The in-flight count of every node is the number of its requests.
THEOREM InflightNeverLeaks == GatewaySpec => []InflightIsExact
<1>1. GatewayInv => InflightIsExact
  BY DEF GatewayInv
<1>2. QED
  BY <1>1, GatewayInvariant, PTL

\* Failover ends with the first byte.
THEOREM NoFailoverAfterFirstByte == GatewaySpec => []OneVoice
<1>1. GatewayInv => OneVoice
  BY DEF GatewayInv
<1>2. QED
  BY <1>1, GatewayInvariant, PTL

\* Without the requests that chose a node together, its cap is kept.
THEOREM CapsAreKept == GatewaySpec => []CapIsKept
<1>1. GatewayInv => CapIsKept
  BY DEF GatewayInv
<1>2. QED
  BY <1>1, GatewayInvariant, PTL

\* Every request is accounted for exactly once.
THEOREM UsageIsExact == GatewaySpec => []EveryRequestIsAccounted
<1>1. GatewayInv => EveryRequestIsAccounted
  BY DEF GatewayInv
<1>2. QED
  BY <1>1, GatewayInvariant, PTL
=============================================================================
