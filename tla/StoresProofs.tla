---------------------------- MODULE StoresProofs ----------------------------
(* The stores and the external nodes, for every set of names, every number  *)
(* of changes, and writes, crashes, edits and reloads in every order: what  *)
(* is revoked stays revoked, what failed leaves nothing behind, speeds      *)
(* belong to their server, and each store implements DurableStore.          *)
EXTENDS External, TLAPS

(***************************************************************************)
(* What a step of External does to the store: a step of Stores, or the same *)
(* changes for external nodes, or that the entries are stored once more.    *)
(***************************************************************************)
Resave ==
    /\ kind = "externals" /\ mem # {}
    /\ Begin(mem)
    /\ UNCHANGED <<kind, file, reading, enforced, lastId, historyVars>>

StoreStep ==
    \/ \E n \in Names : \/ Put(n) /\ (~Lenient => Of(n, mem) = {})
                        \/ Remove(n) \/ EditFile(n)
    \/ Resave
    \/ WriteTemp \/ Rename \/ Done \/ Fail
    \/ ReloadReads \/ ReloadSets \/ Enforce \/ Restart

\* A change under way is a change of what was in use, and memory is on one of
\* its two sides.
ChangeInv ==
    op # None =>
        /\ op.next \in Durable!Changes(op.prev)
        /\ mem = IF kind = "keys" THEN op.prev ELSE op.next

\* Every entry anywhere is older than the next one.
Old(S) == \A e \in S : e.id <= lastId
AgesInv ==
    /\ Old(mem) /\ Old(file) /\ Old(reading.entries) /\ Old(gone) /\ Old(failed)
    /\ op # None => Old(op.next) /\ Old(op.prev)

\* External nodes have one configuration for each name.
OneEach(S) == \A e, f \in S : e.name = f.name => e = f
NamesInv ==
    kind = "externals" =>
        /\ OneEach(mem) /\ OneEach(file)
        /\ op # None => OneEach(op.next)

\* Only API keys are reloaded.
ReloadInv == kind # "keys" => ~reading.read /\ ~raced

\* What was revoked is in none of the copies, and what a stored change drops is
\* not in the file and not in what a Reload has read.
GoneInv ==
    ~Lenient /\ ~raced =>
        /\ gone \cap (mem \cup file) = {}
        /\ reading.read => gone \cap reading.entries = {}
        /\ op # None => gone \cap (op.next \cup op.prev) = {}
        /\ op # None /\ op.step = "renamed" =>
              /\ (op.prev \ op.next) \cap file = {}
              /\ reading.read => (op.prev \ op.next) \cap reading.entries = {}

\* What could not be stored is in none of the copies, and what a change adds
\* is in none of them until it is stored.
FailedInv ==
    ~Lenient =>
        /\ failed \cap (mem \cup file \cup reading.entries) = {}
        /\ op # None => failed \cap (op.next \cup op.prev) = {}
        /\ op # None /\ op.step # "renamed" => (op.next \ op.prev) \cap (file \cup reading.entries) = {}

StoreInv == StoresTypeOK /\ ChangeInv /\ AgesInv /\ NamesInv /\ ReloadInv /\ GoneInv /\ FailedInv

-----------------------------------------------------------------------------
(* The changes *)

LEMMA PutIsChange ==
    ASSUME NEW c \in SUBSET Entries, NEW n \in Names, NEW i \in 1..MaxIds
    PROVE  (c \ Of(n, c)) \cup {[name |-> n, id |-> i]} \in Durable!Changes(c)
<1> DEFINE e == [name |-> n, id |-> i]
<1>1. e \in Durable!Entries /\ e.name = n
  BY DEF Durable!Entries
<1>2. c \ Of(n, c) = {x \in c : x.name # n}
  BY DEF Of
<1>3. QED
  BY <1>1, <1>2 DEF Durable!Changes

LEMMA RemoveIsChange ==
    ASSUME NEW c \in SUBSET Entries, NEW n \in Names
    PROVE  c \ Of(n, c) \in Durable!Changes(c)
<1>1. c \ Of(n, c) = {x \in c : x.name # n}
  BY DEF Of
<1>2. QED
  BY <1>1 DEF Durable!Changes

\* Storing the entries once more changes nothing.
LEMMA ResaveIsChange ==
    ASSUME NEW c \in SUBSET Entries, c # {}, OneEach(c)
    PROVE  c \in Durable!Changes(c)
<1>1. PICK e \in c : TRUE
  OBVIOUS
<1>2. c = {x \in c : x.name # e.name} \cup {e}
  BY <1>1 DEF OneEach
<1>3. e \in Durable!Entries
  BY DEF Durable!Entries, Entries
<1>4. QED
  BY <1>2, <1>3 DEF Durable!Changes

\* An entry that is made now is new.
LEMMA NewEntry ==
    ASSUME StoresTypeOK, NEW n \in Names, lastId < MaxIds, lastId' = lastId + 1
    PROVE  /\ lastId' \in 1..MaxIds
           /\ [name |-> n, id |-> lastId'] \in Entries
           /\ \A S : Old(S) => [name |-> n, id |-> lastId'] \notin S
           /\ \A S \in SUBSET Entries : Old(S) => \A e \in S : e.id <= lastId'
<1>1. lastId' \in 1..MaxIds /\ lastId \in Nat
  BY StoresAssumption DEF StoresTypeOK
<1>2. \A S : Old(S) => [name |-> n, id |-> lastId'] \notin S
  BY <1>1 DEF Old
<1>3. \A S \in SUBSET Entries : Old(S) => \A e \in S : e.id <= lastId'
  BY <1>1, StoresAssumption DEF Old, Entries
<1>4. QED
  BY <1>1, <1>2, <1>3 DEF Entries

-----------------------------------------------------------------------------
(* The invariant *)

LEMMA StoreInit == StoresInit => StoreInv
<1> SUFFICES ASSUME StoresInit PROVE StoreInv
  OBVIOUS
<1>1. StoresTypeOK
  <2>1. reading \in [read : BOOLEAN, entries : SUBSET Entries]
    BY DEF StoresInit, NoReading
  <2>2. lastId \in 0..MaxIds
    BY StoresAssumption DEF StoresInit
  <2>3. QED
    BY <2>1, <2>2 DEF StoresInit, StoresTypeOK
<1>2. ChangeInv /\ AgesInv /\ NamesInv /\ ReloadInv
  BY DEF StoresInit, ChangeInv, AgesInv, NamesInv, ReloadInv, Old, OneEach, NoReading
<1>3. GoneInv /\ FailedInv
  BY DEF StoresInit, GoneInv, FailedInv, NoReading
<1>4. QED
  BY <1>1, <1>2, <1>3 DEF StoreInv

LEMMA PutKeeps ==
    ASSUME StoreInv, NEW n \in Names, Put(n), ~Lenient => Of(n, mem) = {}
    PROVE  StoreInv'
<1> DEFINE e == [name |-> n, id |-> lastId']
           next == (mem \ Of(n, mem)) \cup {e}
<1>1. op = None /\ op' = [next |-> next, prev |-> mem, step |-> "begun"] /\ op' \in Changing /\ op' # None
  <2>1. next \in SUBSET Entries
    BY NewEntry DEF StoreInv, StoresTypeOK, Put
  <2>2. QED
    BY <2>1, StoresAssumption DEF StoreInv, StoresTypeOK, Put, Begin, Changing
<1>2. op'.next = next /\ op'.prev = mem /\ op'.step = "begun"
  BY <1>1
<1>3. e \in Entries /\ e \notin mem /\ e \notin file /\ e \notin reading.entries /\ e \notin failed /\ e \notin gone
  BY NewEntry DEF StoreInv, Put, AgesInv
<1>4. UNCHANGED <<kind, file, reading, gone, failed, raced>> /\ lastId' \in 1..MaxIds
  BY NewEntry DEF StoreInv, Put, historyVars
<1>5. mem' = IF kind = "keys" THEN mem ELSE next
  BY DEF Put, Begin
<1> HIDE DEF e
<1>6. StoresTypeOK'
  BY <1>1, <1>3, <1>4, <1>5 DEF StoreInv, StoresTypeOK
<1>7. ChangeInv'
  BY <1>2, <1>4, <1>5, PutIsChange DEF StoreInv, StoresTypeOK, ChangeInv, e
<1>8. AgesInv'
  <2>1. e.id <= lastId'
    BY <1>4, StoresAssumption DEF e
  <2>2. QED
    BY <1>1, <1>2, <1>4, <1>5, <2>1, NewEntry DEF StoreInv, StoresTypeOK, AgesInv, Old, Put
<1>9. NamesInv'
  BY <1>1, <1>2, <1>4, <1>5 DEF StoreInv, NamesInv, OneEach, Of, e
<1>10. ReloadInv'
  BY <1>4 DEF StoreInv, ReloadInv
<1>11. GoneInv'
  BY <1>1, <1>2, <1>3, <1>4, <1>5 DEF StoreInv, GoneInv, Lenient
<1>12. FailedInv'
  BY <1>1, <1>2, <1>3, <1>4, <1>5 DEF StoreInv, FailedInv, Lenient
<1>13. QED
  BY <1>6, <1>7, <1>8, <1>9, <1>10, <1>11, <1>12 DEF StoreInv

\* A removal, or the same entries once more: nothing new.
LEMMA ShrinkKeeps ==
    ASSUME StoreInv, NEW next \in SUBSET mem, Begin(next), next \in Durable!Changes(mem),
           UNCHANGED <<kind, file, reading, enforced, lastId, historyVars>>
    PROVE  StoreInv'
<1>1. op = None /\ op' = [next |-> next, prev |-> mem, step |-> "begun"] /\ op' \in Changing /\ op' # None
  BY StoresAssumption DEF StoreInv, StoresTypeOK, Begin, Changing
<1>2. op'.next = next /\ op'.prev = mem /\ op'.step = "begun"
  BY <1>1
<1>3. UNCHANGED <<kind, file, reading, gone, failed, raced, lastId>>
  BY DEF historyVars
<1>4. mem' = IF kind = "keys" THEN mem ELSE next
  BY DEF Begin
<1>5. StoresTypeOK'
  BY <1>1, <1>3, <1>4 DEF StoreInv, StoresTypeOK
<1>6. ChangeInv' /\ ReloadInv'
  BY <1>2, <1>3, <1>4 DEF StoreInv, ChangeInv, ReloadInv
<1>7. AgesInv' /\ NamesInv'
  BY <1>1, <1>2, <1>3, <1>4 DEF StoreInv, AgesInv, Old, NamesInv, OneEach
<1>8. GoneInv'
  BY <1>1, <1>2, <1>3, <1>4 DEF StoreInv, GoneInv, Lenient
<1>9. FailedInv'
  BY <1>1, <1>2, <1>3, <1>4 DEF StoreInv, FailedInv, Lenient
<1>10. QED
  BY <1>5, <1>6, <1>7, <1>8, <1>9 DEF StoreInv

LEMMA RemoveKeeps ==
    ASSUME StoreInv, NEW n \in Names, Remove(n)
    PROVE  StoreInv'
BY ShrinkKeeps, RemoveIsChange DEF Remove, StoreInv, StoresTypeOK

LEMMA ResaveKeeps ==
    ASSUME StoreInv, Resave
    PROVE  StoreInv'
BY ShrinkKeeps, ResaveIsChange DEF Resave, StoreInv, StoresTypeOK, NamesInv

LEMMA WriteTempKeeps ==
    ASSUME StoreInv, WriteTemp
    PROVE  StoreInv'
<1>1. /\ op \in Changing /\ op' \in Changing /\ op' # None
      /\ op'.next = op.next /\ op'.prev = op.prev /\ op'.step = "written" /\ op.step = "begun" /\ op # None
  BY StoresAssumption DEF StoreInv, StoresTypeOK, WriteTemp, Changing
<1>2. UNCHANGED <<kind, mem, file, reading, gone, failed, raced, lastId>>
  BY DEF WriteTemp, historyVars
<1>3. StoresTypeOK' /\ ChangeInv' /\ ReloadInv'
  BY <1>1, <1>2 DEF StoreInv, StoresTypeOK, ChangeInv, ReloadInv
<1>4. AgesInv' /\ NamesInv'
  BY <1>1, <1>2 DEF StoreInv, AgesInv, Old, NamesInv, OneEach
<1>5. GoneInv' /\ FailedInv'
  BY <1>1, <1>2 DEF StoreInv, GoneInv, FailedInv, Lenient
<1>6. QED
  BY <1>3, <1>4, <1>5 DEF StoreInv

LEMMA RenameKeeps ==
    ASSUME StoreInv, Rename
    PROVE  StoreInv'
<1>1. /\ op \in Changing /\ op' \in Changing /\ op' # None
      /\ op'.next = op.next /\ op'.prev = op.prev /\ op'.step = "renamed" /\ op.step = "written" /\ op # None
  BY StoresAssumption DEF StoreInv, StoresTypeOK, Rename, Changing
<1>2. UNCHANGED <<kind, mem, reading, gone, failed, lastId>> /\ file' = op.next
  BY DEF Rename
<1>3. raced' \in BOOLEAN /\ (~raced' => ~raced /\ ~reading.read) /\ (raced' => raced \/ reading.read)
  BY DEF StoreInv, StoresTypeOK, Rename
<1>4. StoresTypeOK'
  BY <1>1, <1>2, <1>3 DEF StoreInv, StoresTypeOK, Changing
<1>5. ChangeInv' /\ ReloadInv'
  BY <1>1, <1>2, <1>3 DEF StoreInv, ChangeInv, ReloadInv
<1>6. AgesInv' /\ NamesInv'
  BY <1>1, <1>2 DEF StoreInv, AgesInv, Old, NamesInv, OneEach
<1>7. GoneInv'
  BY <1>1, <1>2, <1>3 DEF StoreInv, GoneInv, Lenient
<1>8. FailedInv'
  BY <1>1, <1>2 DEF StoreInv, FailedInv, Lenient
<1>9. QED
  BY <1>4, <1>5, <1>6, <1>7, <1>8 DEF StoreInv

LEMMA DoneKeeps ==
    ASSUME StoreInv, Done
    PROVE  StoreInv'
<1>1. op \in Changing /\ op # None /\ op.step = "renamed" /\ op' = None /\ mem' = op.next
  BY DEF StoreInv, StoresTypeOK, Done
<1>2. UNCHANGED <<kind, file, reading, failed, raced, lastId>>
  BY DEF Done
<1>3. gone' = IF Lenient THEN {} ELSE gone \cup (op.prev \ op.next)
  BY DEF Done
<1>4. StoresTypeOK'
  BY <1>1, <1>2, <1>3 DEF StoreInv, StoresTypeOK, Changing
<1>5. ChangeInv' /\ ReloadInv'
  BY <1>1, <1>2 DEF StoreInv, ChangeInv, ReloadInv
<1>6. AgesInv' /\ NamesInv'
  BY <1>1, <1>2, <1>3 DEF StoreInv, AgesInv, Old, NamesInv, OneEach
<1>7. GoneInv'
  BY <1>1, <1>2, <1>3 DEF StoreInv, GoneInv, Lenient
<1>8. FailedInv'
  BY <1>1, <1>2 DEF StoreInv, FailedInv, Lenient
<1>9. QED
  BY <1>4, <1>5, <1>6, <1>7, <1>8 DEF StoreInv

LEMMA FailKeeps ==
    ASSUME StoreInv, Fail
    PROVE  StoreInv'
<1>1. /\ op \in Changing /\ op # None /\ op.step # "renamed" /\ op' = None
      /\ mem' = IF Lenient THEN op.next ELSE op.prev
  BY DEF StoreInv, StoresTypeOK, Fail
<1>2. UNCHANGED <<kind, file, reading, gone, raced, lastId>>
  BY DEF Fail
<1>3. failed' = IF Lenient THEN {} ELSE failed \cup (op.next \ op.prev)
  BY DEF Fail
<1>4. StoresTypeOK'
  BY <1>1, <1>2, <1>3 DEF StoreInv, StoresTypeOK, Changing
<1>5. ChangeInv' /\ ReloadInv'
  BY <1>1, <1>2 DEF StoreInv, ChangeInv, ReloadInv
<1>6. AgesInv' /\ NamesInv'
  BY <1>1, <1>2, <1>3 DEF StoreInv, AgesInv, Old, NamesInv, OneEach, Lenient
<1>7. GoneInv'
  BY <1>1, <1>2 DEF StoreInv, GoneInv, Lenient
<1>8. FailedInv'
  BY <1>1, <1>2, <1>3 DEF StoreInv, FailedInv, Lenient
<1>9. QED
  BY <1>4, <1>5, <1>6, <1>7, <1>8 DEF StoreInv

LEMMA EditKeeps ==
    ASSUME StoreInv, NEW n \in Names, EditFile(n)
    PROVE  StoreInv'
<1> DEFINE e == [name |-> n, id |-> lastId']
<1>1. /\ e \in Entries /\ e \notin reading.entries /\ e \notin failed /\ e \notin gone
      /\ op # None => e \notin op.next /\ e \notin op.prev
  BY NewEntry DEF StoreInv, EditFile, AgesInv
<1>2. /\ kind = "keys" /\ UNCHANGED <<kind, mem, op, reading, gone, failed, raced>>
      /\ file' = file \cup {e} /\ lastId' \in 1..MaxIds
  BY NewEntry DEF StoreInv, EditFile, historyVars
<1> HIDE DEF e
<1>3. StoresTypeOK'
  BY <1>1, <1>2 DEF StoreInv, StoresTypeOK
<1>4. ChangeInv' /\ ReloadInv' /\ NamesInv'
  BY <1>2 DEF StoreInv, ChangeInv, ReloadInv, NamesInv
<1>5. AgesInv'
  <2>1. e.id <= lastId'
    BY <1>2, StoresAssumption DEF e
  <2>2. QED
    BY <1>2, <2>1, NewEntry DEF StoreInv, StoresTypeOK, AgesInv, Old, EditFile, Changing
<1>6. GoneInv' /\ FailedInv'
  BY <1>1, <1>2 DEF StoreInv, GoneInv, FailedInv, Lenient
<1>7. QED
  BY <1>3, <1>4, <1>5, <1>6 DEF StoreInv

LEMMA ReloadReadsKeeps ==
    ASSUME StoreInv, ReloadReads
    PROVE  StoreInv'
<1>1. /\ UNCHANGED <<kind, mem, file, op, lastId, gone, failed, raced>>
      /\ kind = "keys" /\ reading' = [read |-> TRUE, entries |-> file]
  BY DEF ReloadReads, historyVars
<1>2. StoresTypeOK'
  BY <1>1 DEF StoreInv, StoresTypeOK
<1>3. ChangeInv' /\ ReloadInv' /\ NamesInv'
  BY <1>1 DEF StoreInv, ChangeInv, ReloadInv, NamesInv
<1>4. AgesInv'
  BY <1>1 DEF StoreInv, AgesInv, Old
<1>5. GoneInv' /\ FailedInv'
  BY <1>1 DEF StoreInv, GoneInv, FailedInv, Lenient
<1>6. QED
  BY <1>2, <1>3, <1>4, <1>5 DEF StoreInv

LEMMA ReloadSetsKeeps ==
    ASSUME StoreInv, ReloadSets
    PROVE  StoreInv'
<1>1. /\ UNCHANGED <<kind, file, op, lastId, gone, failed, raced>> /\ op = None
      /\ kind = "keys" /\ mem' = reading.entries /\ reading' = [read |-> FALSE, entries |-> {}] /\ reading.read
  BY DEF StoreInv, ReloadInv, ReloadSets, historyVars, NoReading
<1>2. StoresTypeOK'
  BY <1>1 DEF StoreInv, StoresTypeOK
<1>3. ChangeInv' /\ ReloadInv' /\ NamesInv'
  BY <1>1 DEF StoreInv, ChangeInv, ReloadInv, NamesInv
<1>4. AgesInv'
  BY <1>1 DEF StoreInv, AgesInv, Old
<1>5. GoneInv' /\ FailedInv'
  BY <1>1 DEF StoreInv, GoneInv, FailedInv, Lenient
<1>6. QED
  BY <1>2, <1>3, <1>4, <1>5 DEF StoreInv

LEMMA RestartKeeps ==
    ASSUME StoreInv, Restart
    PROVE  StoreInv'
<1>1. /\ UNCHANGED <<kind, file, lastId, gone, failed, raced>> /\ op' = None
      /\ mem' = file /\ reading' = [read |-> FALSE, entries |-> {}]
  BY DEF Restart, historyVars, NoReading
<1>2. StoresTypeOK'
  BY <1>1 DEF StoreInv, StoresTypeOK
<1>3. ChangeInv' /\ ReloadInv' /\ NamesInv'
  BY <1>1 DEF StoreInv, ChangeInv, ReloadInv, NamesInv
<1>4. AgesInv'
  BY <1>1 DEF StoreInv, AgesInv, Old
<1>5. GoneInv' /\ FailedInv'
  BY <1>1 DEF StoreInv, GoneInv, FailedInv, Lenient
<1>6. QED
  BY <1>2, <1>3, <1>4, <1>5 DEF StoreInv

\* What the invariant speaks of stays as it is.
LEMMA StutterKeeps ==
    ASSUME StoreInv, UNCHANGED <<kind, mem, file, op, reading, lastId, historyVars>>
    PROVE  StoreInv'
BY DEF StoreInv, StoresTypeOK, ChangeInv, AgesInv, NamesInv, ReloadInv, GoneInv, FailedInv, historyVars,
       Old, Lenient

LEMMA StoreStepKeeps ==
    ASSUME StoreInv, [StoreStep]_storeVars
    PROVE  StoreInv'
<1>1. CASE Enforce
  BY <1>1, StutterKeeps DEF Enforce
<1>2. CASE UNCHANGED storeVars
  BY <1>2, StutterKeeps DEF storeVars
<1>3. QED
  BY <1>1, <1>2, PutKeeps, RemoveKeeps, EditKeeps, ResaveKeeps, WriteTempKeeps, RenameKeeps, DoneKeeps,
     FailKeeps, ReloadReadsKeeps, ReloadSetsKeeps, RestartKeeps DEF StoreStep

LEMMA StoresNextSteps == StoresNext => StoreStep
BY DEF StoresNext, StoreStep, CreateKey, CreateToken, SetSetting, RevokeKey, RevokeToken, LoadKeys, LoadTokens,
       LoadSettings, Lenient

LEMMA ExternalNextSteps ==
    ASSUME StoreInv, [ExternalNext]_allVars
    PROVE  [StoreStep]_storeVars
<1>1. CASE kind # "externals" /\ StoresNext /\ UNCHANGED externalVars
  BY <1>1, StoresNextSteps
<1>2. ASSUME kind = "externals", NEW n \in Nodes,
             \/ PutExternal(n) \/ RemoveExternal(n) \/ DrainExternal(n)
             \/ \E p \in Pollers : BeginPoll(p, n)
             \/ TestNewModels(n) \/ TestAgain(n)
      PROVE  [StoreStep]_storeVars
  <2>1. CASE PutExternal(n)
    BY <1>2, <2>1, ExternalAssumption DEF PutExternal, StoreStep, Lenient
  <2>2. CASE RemoveExternal(n)
    BY <1>2, <2>2, ExternalAssumption DEF RemoveExternal, StoreStep
  <2>3. QED
    BY <1>2, <2>1, <2>2 DEF DrainExternal, BeginPoll, TestNewModels, TestAgain, BeginTest
<1>3. ASSUME kind = "externals", NEW t \in tests, EndTest(t)
      PROVE  [StoreStep]_storeVars
  BY <1>3 DEF EndTest, StoreStep, Resave, storeVars, historyVars
<1>4. ASSUME NEW p \in Pollers, EndPoll(p)
      PROVE  [StoreStep]_storeVars
  BY <1>4 DEF EndPoll
<1>5. ASSUME NEW u \in Servers, ServerChanges(u)
      PROVE  [StoreStep]_storeVars
  BY <1>5 DEF ServerChanges
<1>6. CASE Write \/ RenameExternal \/ RestartExternal
  BY <1>6 DEF Write, RenameExternal, RestartExternal, StoreStep
<1>7. CASE UNCHANGED allVars
  BY <1>7 DEF allVars
<1>8. QED
  BY <1>1, <1>2, <1>3, <1>4, <1>5, <1>6, <1>7 DEF ExternalNext

-----------------------------------------------------------------------------
(* What the invariant says *)

LEMMA GoneIsRevoked == StoreInv => RevokedStaysRevoked
<1> SUFFICES ASSUME StoreInv, NEW e \in gone
             PROVE  /\ kind = "tokens" => AdminAuth(e) = "refused"
                    /\ kind = "keys" /\ ~raced =>
                          \A trusted \in BOOLEAN, mode \in {"local", "keys", "open"} :
                              Principal(e, trusted, mode) \in {"refused", "anonymous", "local"}
  BY DEF RevokedStaysRevoked
<1>1. kind = "tokens" \/ (kind = "keys" /\ ~raced) => e \notin Lookup
  BY DEF StoreInv, ReloadInv, GoneInv, Lenient, Lookup
<1>2. ASSUME NEW trusted \in BOOLEAN, NEW mode \in {"local", "keys", "open"}, e \notin Lookup
      PROVE  Principal(e, trusted, mode) \in {"refused", "anonymous", "local"}
  <2>1. CASE enforced \/ mode = "keys"
    BY <1>2, <2>1 DEF Principal
  <2>2. CASE ~(enforced \/ mode = "keys")
    BY <1>2, <2>2 DEF Principal
  <2>3. QED
    BY <2>1, <2>2
<1>3. e \notin Lookup => AdminAuth(e) = "refused"
  BY DEF AdminAuth, Match
<1>4. e \notin Lookup => \A trusted \in BOOLEAN, mode \in {"local", "keys", "open"} :
                           Principal(e, trusted, mode) \in {"refused", "anonymous", "local"}
  BY <1>2
<1>5. QED
  BY <1>1, <1>3, <1>4

LEMMA FailedIsUndone == StoreInv => ErrorsChangeNothing
BY DEF StoreInv, FailedInv, ErrorsChangeNothing

\* In every run of any store, with external nodes or without, a key or token
\* whose revocation was answered with success opens nothing any more
\* (StaticKeys.Revoke, Reload, adminTokens.revoke).
THEOREM RevocationsLast ==
    /\ StoresSpec => []RevokedStaysRevoked
    /\ ExternalSpec => []RevokedStaysRevoked
<1>1. StoreInv /\ [StoresNext]_storeVars => StoreInv'
  BY StoreStepKeeps, StoresNextSteps
<1>2. StoreInv /\ [ExternalNext]_allVars => StoreInv'
  BY StoreStepKeeps, ExternalNextSteps
<1>3. ExternalInit => StoreInv
  BY StoreInit DEF ExternalInit
<1>4. QED
  BY <1>1, <1>2, <1>3, StoreInit, GoneIsRevoked, PTL DEF StoresSpec, ExternalSpec

\* In every run of any store, a key or token that could not be stored is in
\* neither copy once the call has been answered (StaticKeys.Create,
\* adminTokens.create, WriteFileAtomic).
THEOREM ErrorsLeaveNothing ==
    /\ StoresSpec => []ErrorsChangeNothing
    /\ ExternalSpec => []ErrorsChangeNothing
<1>1. StoreInv /\ [StoresNext]_storeVars => StoreInv'
  BY StoreStepKeeps, StoresNextSteps
<1>2. StoreInv /\ [ExternalNext]_allVars => StoreInv'
  BY StoreStepKeeps, ExternalNextSteps
<1>3. ExternalInit => StoreInv
  BY StoreInit DEF ExternalInit
<1>4. QED
  BY <1>1, <1>2, <1>3, StoreInit, FailedIsUndone, PTL DEF StoresSpec, ExternalSpec

-----------------------------------------------------------------------------
(* The refinement: one step per step of a store *)

LEMMA MapsInit == StoresInit => Durable!DurableInit
BY DEF StoresInit, Durable!DurableInit, Effective, Lenient, NoReading, Durable!NoReading

LEMMA MapsStep ==
    ASSUME StoreInv, [StoreStep]_storeVars
    PROVE  [Durable!DurableNext]_(Durable!durableVars)
<1> USE DEF Durable!durableVars
<1>1. CASE Rename
  <2>1. op \in Changing /\ op # None /\ op.step = "written" /\ op' # None /\ op'.next = op.next /\ op'.step = "renamed"
    BY <1>1, StoresAssumption DEF StoreInv, StoresTypeOK, Rename, Changing
  <2>2. Effective = op.prev /\ Effective' = op.next /\ file' = op.next
    BY <1>1, <2>1 DEF Effective, Rename
  <2>3. op.next \in Durable!Changes(Effective)
    BY <2>1, <2>2 DEF StoreInv, ChangeInv
  <2>4. UNCHANGED <<Lenient, reading>>
    BY <1>1 DEF Rename, Lenient
  <2>5. QED
    BY <2>2, <2>3, <2>4 DEF Durable!DurableNext, Durable!Change
<1>2. CASE Fail
  <2>1. op \in Changing /\ op # None /\ op.step # "renamed" /\ op' = None
    BY <1>2 DEF StoreInv, StoresTypeOK, Fail
  <2>2. Effective = op.prev /\ Effective' = IF Lenient THEN op.next ELSE op.prev
    BY <1>2, <2>1 DEF Effective, Fail
  <2>3. op.next \in Durable!Changes(Effective)
    BY <2>1, <2>2 DEF StoreInv, ChangeInv
  <2>4. UNCHANGED <<Lenient, file, reading>>
    BY <1>2 DEF Fail, Lenient
  <2>5. QED
    BY <2>2, <2>3, <2>4 DEF Durable!DurableNext, Durable!ChangeInUse
<1>3. ASSUME NEW next, Begin(next), UNCHANGED <<kind, file, reading>>, next \in SUBSET Entries
      PROVE  UNCHANGED Durable!durableVars
  BY <1>3, StoresAssumption DEF Begin, Changing, Effective, Lenient, StoreInv, StoresTypeOK
<1>4. ASSUME NEW n \in Names, Put(n)
      PROVE  UNCHANGED Durable!durableVars
  BY <1>3, <1>4, NewEntry DEF Put, StoreInv, StoresTypeOK
<1>5. ASSUME NEW n \in Names, Remove(n)
      PROVE  UNCHANGED Durable!durableVars
  BY <1>3, <1>5 DEF Remove, StoreInv, StoresTypeOK
<1>6. CASE Resave
  BY <1>3, <1>6 DEF Resave, StoreInv, StoresTypeOK
<1>7. CASE WriteTemp
  BY <1>7, StoresAssumption DEF WriteTemp, Effective, Lenient, StoreInv, StoresTypeOK, Changing
<1>8. CASE Done
  BY <1>8 DEF Done, Effective, Lenient
<1>9. ASSUME NEW n \in Names, EditFile(n)
      PROVE  Durable!Edit
  <2>1. [name |-> n, id |-> lastId'] \in Durable!Entries
    BY <1>9, NewEntry DEF EditFile, StoreInv, Entries, Durable!Entries
  <2>2. QED
    BY <1>9, <2>1 DEF EditFile, Durable!Edit, Effective, Lenient
<1>10. CASE ReloadReads
  BY <1>10 DEF ReloadReads, Durable!DurableNext, Durable!ReadFile, Effective, Lenient
<1>11. CASE ReloadSets
  BY <1>11 DEF ReloadSets, Durable!DurableNext, Durable!UseReading, Effective, Lenient, NoReading, Durable!NoReading
<1>12. CASE Restart
  BY <1>12 DEF Restart, Durable!DurableNext, Durable!Restart, Effective, Lenient, NoReading, Durable!NoReading
<1>13. CASE Enforce \/ UNCHANGED storeVars
  BY <1>13 DEF Enforce, storeVars, Effective, Lenient
<1>14. QED
  BY <1>1, <1>2, <1>4, <1>5, <1>6, <1>7, <1>8, <1>9, <1>10, <1>11, <1>12, <1>13 DEF StoreStep, Durable!DurableNext

\* Each store implements the abstract one, in which a change is one step on
\* memory and file: temporary files, failed writes and crashes between the
\* steps of a write do not show (WriteFileAtomic and its callers).
THEOREM StoresAreDurable ==
    /\ StoresSpec => ImplementsDurableStore
    /\ ExternalSpec => ImplementsDurableStore
<1>1. StoreInv /\ [StoresNext]_storeVars => StoreInv' /\ [Durable!DurableNext]_(Durable!durableVars)
  BY StoreStepKeeps, StoresNextSteps, MapsStep
<1>2. StoreInv /\ [ExternalNext]_allVars => StoreInv' /\ [Durable!DurableNext]_(Durable!durableVars)
  BY StoreStepKeeps, ExternalNextSteps, MapsStep
<1>3. ExternalInit => StoreInv /\ Durable!DurableInit
  BY StoreInit, MapsInit DEF ExternalInit
<1>4. QED
  BY <1>1, <1>2, <1>3, StoreInit, MapsInit, PTL
     DEF StoresSpec, ExternalSpec, ImplementsDurableStore, Durable!DurableSpec

-----------------------------------------------------------------------------
(* External nodes *)

\* The speeds in use belong to the servers in use, and those in the file to
\* the servers in the file.
SpeedsInv ==
    kind = "externals" =>
        /\ \A e \in mem : \A m \in Models : live[e.name].speed[m] \in {None, Url[e.id]}
        /\ \A e \in file : \A m \in Models : saved[e.name][m] \in {None, Url[e.id]}

ExternalInv == StoreInv /\ ExternalTypeOK /\ SpeedsInv

LEMMA NewNodeTyped == NewNode \in NodeRecords /\ Unmeasured \in Speeds
BY ExternalAssumption DEF NewNode, NodeRecords, Unmeasured, Speeds

LEMMA KindStays == [StoreStep]_storeVars => kind' = kind
BY DEF StoreStep, storeVars, Put, Remove, EditFile, Resave, WriteTemp, Rename, Done, Fail, ReloadReads, ReloadSets,
       Enforce, Restart

LEMMA ExternalInitInv == ExternalInit => ExternalInv
<1> SUFFICES ASSUME ExternalInit PROVE ExternalInv
  OBVIOUS
<1>1. StoreInv
  BY StoreInit DEF ExternalInit
<1>2. ExternalTypeOK
  BY <1>1, NewNodeTyped DEF ExternalInit, ExternalTypeOK, StoreInv, StoresInit
<1>3. SpeedsInv
  BY DEF ExternalInit, SpeedsInv, StoresInit
<1>4. QED
  BY <1>1, <1>2, <1>3 DEF ExternalInv

\* A node keeps its speeds only if it keeps its server.
LEMMA ReplacedTyped ==
    ASSUME ExternalInv, kind = "externals", NEW n \in Nodes, NEW i \in 1..MaxIds
    PROVE  /\ Replaced(Of(n, mem), i) \in NodeRecords
           /\ \A m \in Models : Replaced(Of(n, mem), i).speed[m] \in {None, Url[i]}
<1>1. CASE \E e \in Of(n, mem) : Url[e.id] = Url[i]
  <2> DEFINE e == CHOOSE x \in Of(n, mem) : TRUE
             node == live[n]
  <2>1. e \in mem /\ e.name = n
    BY <1>1 DEF Of
  <2>2. PICK f \in mem : f.name = n /\ Url[f.id] = Url[i]
    BY <1>1 DEF Of
  <2>3. Replaced(Of(n, mem), i) = [node EXCEPT !.models = @ \cap Allow[i], !.testing = FALSE]
    BY <1>1, <2>1 DEF Replaced
  <2>4. node \in NodeRecords
    BY DEF ExternalInv, ExternalTypeOK
  <2>5. \A m \in Models : node.speed[m] \in {None, Url[i]}
    BY <2>2 DEF ExternalInv, SpeedsInv
  <2> HIDE DEF node
  <2>6. QED
    BY <2>3, <2>4, <2>5 DEF NodeRecords
<1>2. CASE ~ \E e \in Of(n, mem) : Url[e.id] = Url[i]
  BY <1>2, NewNodeTyped DEF Replaced, NewNode, Unmeasured
<1>3. QED
  BY <1>1, <1>2

LEMMA PutExternalKeeps ==
    ASSUME ExternalInv, kind = "externals", NEW n \in Nodes, PutExternal(n), StoreInv'
    PROVE  ExternalTypeOK' /\ SpeedsInv'
<1> DEFINE e == [name |-> n, id |-> lastId']
<1>1. /\ lastId' \in 1..MaxIds /\ mem' = (mem \ Of(n, mem)) \cup {e}
      /\ UNCHANGED <<kind, file, saved, polls, tests>>
      /\ live' = [live EXCEPT ![n] = Replaced(Of(n, mem), lastId')]
  BY NewEntry, ExternalAssumption DEF ExternalInv, StoreInv, PutExternal, Put, Begin
<1>2. e \in Configurations /\ e.name = n /\ e.id = lastId'
  BY <1>1 DEF Configurations
<1> HIDE DEF e
<1>3. ExternalTypeOK'
  BY <1>1, <1>2, ReplacedTyped DEF ExternalInv, ExternalTypeOK, StoreInv
<1>4. SpeedsInv'
  <2>1. ASSUME NEW f \in mem', NEW m \in Models
        PROVE  live'[f.name].speed[m] \in {None, Url[f.id]}
    <3>1. CASE f = e
      BY <1>1, <1>2, <3>1, ReplacedTyped DEF ExternalInv, ExternalTypeOK
    <3>2. CASE f # e
      <4>1. f \in mem /\ f.name # n /\ f.name \in Nodes
        BY <1>1, <2>1, <3>2 DEF Of, ExternalInv, ExternalTypeOK, Configurations
      <4>2. live'[f.name] = live[f.name]
        BY <1>1, <4>1 DEF ExternalInv, ExternalTypeOK
      <4>3. QED
        BY <4>1, <4>2 DEF ExternalInv, SpeedsInv
    <3>3. QED
      BY <3>1, <3>2
  <2>2. QED
    BY <1>1, <2>1 DEF ExternalInv, SpeedsInv
<1>5. QED
  BY <1>3, <1>4

LEMMA RemoveExternalKeeps ==
    ASSUME ExternalInv, kind = "externals", NEW n \in Nodes, RemoveExternal(n), StoreInv'
    PROVE  ExternalTypeOK' /\ SpeedsInv'
<1>1. /\ mem' = mem \ Of(n, mem)
      /\ UNCHANGED <<kind, file, saved, polls, tests>>
      /\ live' = [live EXCEPT ![n] = NewNode]
  BY DEF RemoveExternal, Remove, Begin
<1>2. ExternalTypeOK'
  BY <1>1, NewNodeTyped DEF ExternalInv, ExternalTypeOK, StoreInv
<1>3. ASSUME NEW f \in mem', NEW m \in Models
      PROVE  live'[f.name].speed[m] \in {None, Url[f.id]}
  <2>1. f \in mem /\ f.name # n /\ f.name \in Nodes
    BY <1>1, <1>3 DEF Of, ExternalInv, ExternalTypeOK, Configurations
  <2>2. live'[f.name] = live[f.name]
    BY <1>1, <2>1 DEF ExternalInv, ExternalTypeOK
  <2>3. QED
    BY <2>1, <2>2 DEF ExternalInv, SpeedsInv
<1>4. QED
  BY <1>1, <1>2, <1>3 DEF ExternalInv, SpeedsInv

\* Steps that change one node's record, but not its speeds, nor the store.
LEMMA SameSpeedsKeep ==
    ASSUME ExternalInv, UNCHANGED <<kind, mem, file, saved>>, StoreInv',
           live' \in [Nodes -> NodeRecords], \A n \in Nodes : live'[n].speed = live[n].speed,
           polls' \in [Pollers -> Configurations \cup {None}],
           tests' \subseteq [entry : Configurations, models : SUBSET Models]
    PROVE  ExternalTypeOK' /\ SpeedsInv'
<1>1. ExternalTypeOK'
  BY DEF ExternalInv, ExternalTypeOK, StoreInv
<1>2. kind = "externals" => \A e \in mem : e.name \in Nodes
  BY DEF ExternalInv, ExternalTypeOK, Configurations
<1>3. SpeedsInv'
  BY <1>2 DEF ExternalInv, SpeedsInv
<1>4. QED
  BY <1>1, <1>3

LEMMA DrainKeeps ==
    ASSUME ExternalInv, NEW n \in Nodes, DrainExternal(n), StoreInv'
    PROVE  ExternalTypeOK' /\ SpeedsInv'
<1>1. live' = [live EXCEPT ![n].drained = ~@] /\ UNCHANGED <<kind, mem, file, saved, polls, tests>>
  BY DEF DrainExternal, storeVars
<1>2. live \in [Nodes -> NodeRecords]
  BY DEF ExternalInv, ExternalTypeOK
<1>3. live' \in [Nodes -> NodeRecords] /\ \A x \in Nodes : live'[x].speed = live[x].speed
  BY <1>1, <1>2 DEF NodeRecords
<1>4. QED
  BY <1>1, <1>3, SameSpeedsKeep DEF ExternalInv, ExternalTypeOK

LEMMA BeginPollKeeps ==
    ASSUME ExternalInv, kind = "externals", NEW n \in Nodes, NEW p \in Pollers, BeginPoll(p, n), StoreInv'
    PROVE  ExternalTypeOK' /\ SpeedsInv'
<1>1. PICK e \in Of(n, mem) : polls' = [polls EXCEPT ![p] = e]
  BY DEF BeginPoll
<1>2. UNCHANGED <<kind, mem, file, live, saved, tests>>
  BY DEF BeginPoll, storeVars
<1>3. e \in Configurations
  BY <1>1 DEF Of, ExternalInv, ExternalTypeOK
<1>4. QED
  BY <1>1, <1>2, <1>3, SameSpeedsKeep DEF ExternalInv, ExternalTypeOK

LEMMA EndPollKeeps ==
    ASSUME ExternalInv, kind = "externals", NEW p \in Pollers, EndPoll(p), StoreInv'
    PROVE  ExternalTypeOK' /\ SpeedsInv'
<1> DEFINE e == polls[p]
<1>1. UNCHANGED <<kind, mem, file, saved, tests>> /\ polls' = [polls EXCEPT ![p] = None] /\ e # None
  BY DEF EndPoll, storeVars
<1>2. live \in [Nodes -> NodeRecords] /\ e \in Configurations
  BY <1>1 DEF ExternalInv, ExternalTypeOK
<1>3. e.name \in Nodes /\ e.id \in 1..MaxIds /\ live[e.name] \in NodeRecords /\ Allow[e.id] \subseteq Models
  BY <1>2, ExternalAssumption DEF Configurations
<1> DEFINE N == live[e.name]
           A == Answered(N, e.id)
           B == NotAnswered(N)
<1>4. A \in NodeRecords /\ A.speed = N.speed
  <2>1. 0 \in 0..FailsOffline
    BY ExternalAssumption
  <2>2. ASSUME NEW node \in NodeRecords, NEW models \in SUBSET Models
        PROVE  LET a == [node EXCEPT !.fails = 0, !.models = models, !.state = "ACTIVE"]
               IN  a \in NodeRecords /\ a.speed = node.speed
    BY <2>1 DEF NodeRecords
  <2>3. QED
    BY <1>3, <2>2 DEF Answered
<1>5. B \in NodeRecords /\ B.speed = N.speed
  <2> DEFINE fails == IF N.fails < FailsOffline THEN N.fails + 1 ELSE FailsOffline
  <2>1. fails \in 0..FailsOffline
    BY <1>3, ExternalAssumption DEF NodeRecords
  <2>2. B = [N EXCEPT !.fails = fails, !.state = IF fails >= FailsOffline THEN "OFFLINE" ELSE @]
    BY DEF NotAnswered
  <2> HIDE DEF fails
  <2>3. QED
    BY <1>3, <2>1, <2>2 DEF NodeRecords
<1>6. live' = live \/ live' = [live EXCEPT ![e.name] = A] \/ live' = [live EXCEPT ![e.name] = B]
  BY DEF EndPoll
<1> HIDE DEF A, B, e
<1>7. live' \in [Nodes -> NodeRecords] /\ \A x \in Nodes : live'[x].speed = live[x].speed
  BY <1>2, <1>3, <1>4, <1>5, <1>6
<1>8. QED
  BY <1>1, <1>7, SameSpeedsKeep DEF ExternalInv, ExternalTypeOK

LEMMA BeginTestKeeps ==
    ASSUME ExternalInv, kind = "externals", NEW n \in Nodes, NEW models \in SUBSET Models, BeginTest(n, models),
           StoreInv'
    PROVE  ExternalTypeOK' /\ SpeedsInv'
<1>1. PICK e \in Of(n, mem) : tests' = tests \cup {[entry |-> e, models |-> models]}
  BY DEF BeginTest
<1>2. UNCHANGED <<kind, mem, file, saved, polls>> /\ live' = [live EXCEPT ![n].testing = TRUE]
  BY DEF BeginTest, storeVars
<1>3. e \in Configurations /\ live \in [Nodes -> NodeRecords]
  BY <1>1 DEF Of, ExternalInv, ExternalTypeOK
<1>4. live' \in [Nodes -> NodeRecords] /\ \A x \in Nodes : live'[x].speed = live[x].speed
  BY <1>2, <1>3 DEF NodeRecords
<1>5. tests' \subseteq [entry : Configurations, models : SUBSET Models]
  BY <1>1, <1>3 DEF ExternalInv, ExternalTypeOK
<1>6. QED
  BY <1>2, <1>4, <1>5, SameSpeedsKeep DEF ExternalInv, ExternalTypeOK

\* A result counts only for the configuration that was measured, and no other
\* one has its name.
LEMMA EndTestKeeps ==
    ASSUME ExternalInv, kind = "externals", NEW t \in tests, EndTest(t), StoreInv'
    PROVE  ExternalTypeOK' /\ SpeedsInv'
<1>1. UNCHANGED <<kind, mem, file, saved, polls>> /\ tests' = tests \ {t}
  BY DEF EndTest, Begin
<1>2. /\ t \in [entry : Configurations, models : SUBSET Models]
      /\ live \in [Nodes -> NodeRecords]
      /\ tests' \subseteq [entry : Configurations, models : SUBSET Models]
  BY <1>1 DEF ExternalInv, ExternalTypeOK
<1> DEFINE e == t.entry
           N == live[e.name]
           M == Measured(N, t)
<1>3. e.name \in Nodes /\ e.id \in 1..MaxIds /\ N \in NodeRecords
  BY <1>2 DEF Configurations
<1>4. CASE t.entry \notin mem
  BY <1>1, <1>2, <1>4, SameSpeedsKeep DEF ExternalInv, ExternalTypeOK, EndTest
<1>5. CASE t.entry \in mem
  <2>1. live' = [live EXCEPT ![e.name] = M]
    BY <1>5 DEF EndTest
  <2> DEFINE S == [m \in Models |-> IF m \in t.models THEN Url[e.id] ELSE N.speed[m]]
  <2>2. M = [N EXCEPT !.testing = FALSE, !.speed = S]
    BY DEF Measured
  <2>3. S \in Speeds /\ \A m \in Models : S[m] \in {N.speed[m], Url[e.id]}
    BY <1>3 DEF Speeds, Servers, NodeRecords
  <2> HIDE DEF S
  <2>4. M \in NodeRecords /\ M.speed = S
    BY <1>3, <2>2, <2>3 DEF NodeRecords
  <2> HIDE DEF M
  <2>5. live' \in [Nodes -> NodeRecords]
    BY <1>2, <2>1, <2>4
  <2>6. ASSUME NEW f \in mem, NEW m \in Models
        PROVE  live'[f.name].speed[m] \in {None, Url[f.id]}
    <3>1. f.name \in Nodes /\ live[f.name].speed[m] \in {None, Url[f.id]}
      BY DEF ExternalInv, ExternalTypeOK, SpeedsInv, Configurations
    <3>2. CASE f = e
      BY <1>2, <1>3, <2>1, <2>3, <2>4, <3>1, <3>2
    <3>3. CASE f # e
      <4>1. f.name # e.name
        BY <1>5, <3>3 DEF ExternalInv, StoreInv, NamesInv, OneEach
      <4>2. QED
        BY <1>2, <2>1, <3>1, <4>1
    <3>4. QED
      BY <3>2, <3>3
  <2>7. SpeedsInv'
    BY <1>1, <2>6 DEF ExternalInv, SpeedsInv
  <2>8. ExternalTypeOK'
    BY <1>1, <1>2, <2>5 DEF ExternalInv, ExternalTypeOK, StoreInv
  <2>9. QED
    BY <2>7, <2>8
<1>6. QED
  BY <1>4, <1>5

LEMMA WriteKeeps ==
    ASSUME ExternalInv, kind = "externals", Write, StoreInv'
    PROVE  ExternalTypeOK' /\ SpeedsInv'
<1>1. UNCHANGED <<kind, mem, file, live, saved, polls, tests>>
  <2>1. UNCHANGED <<kind, file, live, saved, polls, tests>>
    BY DEF Write, WriteTemp, Done, Fail, externalVars
  <2>2. op # None => mem = op.next
    BY DEF ExternalInv, StoreInv, ChangeInv
  <2>3. QED
    BY <2>1, <2>2 DEF Write, WriteTemp, Done, Fail, Lenient
<1>2. QED
  BY <1>1, SameSpeedsKeep DEF ExternalInv, ExternalTypeOK

\* What is stored is what is in use, with its speeds.
LEMMA RenameExternalKeeps ==
    ASSUME ExternalInv, kind = "externals", RenameExternal, StoreInv'
    PROVE  ExternalTypeOK' /\ SpeedsInv'
<1>1. /\ UNCHANGED <<kind, mem, live, polls, tests>> /\ file' = op.next /\ op # None
      /\ saved' = [n \in Nodes |-> live[n].speed]
  BY DEF RenameExternal, Rename
<1>2. file' = mem
  BY <1>1 DEF ExternalInv, StoreInv, ChangeInv
<1>3. live \in [Nodes -> NodeRecords] /\ mem \subseteq Configurations
  BY DEF ExternalInv, ExternalTypeOK
<1>4. saved' \in [Nodes -> Speeds]
  BY <1>1, <1>3 DEF NodeRecords
<1>5. ExternalTypeOK'
  BY <1>1, <1>2, <1>4 DEF ExternalInv, ExternalTypeOK, StoreInv
<1>6. \A e \in mem : e.name \in Nodes
  BY <1>3 DEF Configurations
<1>7. SpeedsInv'
  BY <1>1, <1>2, <1>6 DEF ExternalInv, SpeedsInv
<1>8. QED
  BY <1>5, <1>7

LEMMA RestartExternalKeeps ==
    ASSUME ExternalInv, kind = "externals", RestartExternal, StoreInv'
    PROVE  ExternalTypeOK' /\ SpeedsInv'
<1>1. /\ UNCHANGED <<kind, file, saved>> /\ mem' = file
      /\ live' = [n \in Nodes |-> [NewNode EXCEPT !.speed = saved[n]]]
      /\ polls' = [p \in Pollers |-> None] /\ tests' = {}
  BY DEF RestartExternal, Restart
<1>2. saved \in [Nodes -> Speeds] /\ file \subseteq Configurations
  BY DEF ExternalInv, ExternalTypeOK
<1>3. \A n \in Nodes : live'[n] \in NodeRecords /\ live'[n].speed = saved[n]
  BY <1>1, <1>2, NewNodeTyped DEF NodeRecords
<1>4. live' \in [Nodes -> NodeRecords]
  BY <1>1, <1>3
<1>5. ExternalTypeOK'
  BY <1>1, <1>2, <1>4 DEF ExternalInv, ExternalTypeOK, StoreInv
<1>6. \A e \in file : e.name \in Nodes
  BY <1>2 DEF Configurations
<1>7. SpeedsInv'
  BY <1>1, <1>3, <1>6 DEF ExternalInv, SpeedsInv
<1>8. QED
  BY <1>5, <1>7

LEMMA ExternalNextKeeps ==
    ASSUME ExternalInv, [ExternalNext]_allVars
    PROVE  ExternalInv'
<1>1. StoreInv' /\ kind' = kind
  BY ExternalNextSteps, StoreStepKeeps, KindStays DEF ExternalInv
<1>2. CASE kind # "externals" /\ UNCHANGED externalVars
  BY <1>1, <1>2 DEF ExternalInv, ExternalTypeOK, SpeedsInv, externalVars, StoreInv
<1>3. CASE UNCHANGED allVars
  BY <1>1, <1>3 DEF ExternalInv, ExternalTypeOK, SpeedsInv, allVars, storeVars, externalVars, StoreInv
<1>4. ASSUME kind = "externals", NEW n \in Nodes, TestNewModels(n) \/ TestAgain(n)
      PROVE  ExternalTypeOK' /\ SpeedsInv'
  <2>1. live[n].models \subseteq Models
    BY DEF ExternalInv, ExternalTypeOK, NodeRecords
  <2>2. QED
    BY <1>1, <1>4, <2>1, BeginTestKeeps DEF TestNewModels, TestAgain
<1>5. ASSUME NEW u \in Servers, ServerChanges(u)
      PROVE  ExternalTypeOK' /\ SpeedsInv'
  BY <1>1, <1>5, SameSpeedsKeep DEF ServerChanges, ExternalInv, ExternalTypeOK, storeVars
<1>6. QED
  BY <1>1, <1>2, <1>3, <1>4, <1>5, PutExternalKeeps, RemoveExternalKeeps, DrainKeeps, BeginPollKeeps, EndPollKeeps,
     EndTestKeeps, WriteKeeps, RenameExternalKeeps, RestartExternalKeeps
     DEF ExternalNext, ExternalInv

\* Whatever is replaced, removed, drained, polled, measured or restarted
\* meanwhile, the speeds by which an external node is routed were measured at
\* the server of its configuration (put, selfTest, LoadExternal).
THEOREM SpeedsBelong == ExternalSpec => []SpeedsAreOfTheServer
<1>1. ExternalInv => SpeedsAreOfTheServer
  BY DEF ExternalInv, SpeedsInv, SpeedsAreOfTheServer, Speed
<1>2. ExternalInv /\ [ExternalNext]_allVars => ExternalInv'
  BY ExternalNextKeeps
<1>3. QED
  BY <1>1, <1>2, ExternalInitInv, PTL DEF ExternalSpec
=============================================================================
