------------------------------- MODULE Stores -------------------------------
(***************************************************************************)
(* The controller's small stores, each a map in memory under a mutex and a *)
(* file that is written whole to a temporary file, synced and renamed: API *)
(* keys, named admin tokens, external nodes, and the device settings. They *)
(* differ in when memory changes and in what is left of a change that could *)
(* not be stored. API keys are also reloaded from their file on SIGHUP.    *)
(*                                                                         *)
(* An entry is a name and an id, which stands for a generated secret or a   *)
(* configuration. The mutex is held while the file is written, so readers  *)
(* and other changes wait; a crash does not. Losing power, which may undo  *)
(* a rename that was not synced, is not considered.                        *)
(***************************************************************************)
EXTENDS Naturals, FiniteSets

CONSTANTS
    Kinds,      \* which of the stores are considered
    Names,      \* the owners of entries
    MaxIds,     \* bound on the entries that are made
    None

Entries == [name : Names, id : 1..MaxIds]
Changing == [next : SUBSET Entries, prev : SUBSET Entries, step : {"begun", "written", "renamed"}]

ASSUME StoresAssumption ==
    /\ Kinds \subseteq {"keys", "tokens", "externals", "settings"}
    /\ MaxIds \in Nat
    /\ None \notin Entries /\ None \notin Changing

VARIABLES
    kind,       \* which store it is
    mem,        \* the entries in use
    file,       \* the entries in the file
    op,         \* the change under way, or None
    reading,    \* what Reload has read: [read, entries]
    enforced,   \* requests without a valid key are refused
    lastId,     \* ids that were used
    gone,       \* keys and tokens whose removal was answered with success
    failed,     \* keys and tokens whose creation was answered with an error
    raced       \* the file changed while Reload had read it

historyVars == <<gone, failed, raced>>
storeVars == <<kind, mem, file, op, reading, enforced, lastId, historyVars>>

NoReading == [read |-> FALSE, entries |-> {}]

\* A change that could not be stored is in use nevertheless.
Lenient == kind \in {"externals", "settings"}

StoresTypeOK ==
    /\ kind \in Kinds
    /\ mem \subseteq Entries /\ file \subseteq Entries
    /\ op \in Changing \cup {None}
    /\ reading \in [read : BOOLEAN, entries : SUBSET Entries]
    /\ lastId \in 0..MaxIds
    /\ gone \subseteq Entries /\ failed \subseteq Entries /\ raced \in BOOLEAN

StoresInit ==
    /\ kind \in Kinds
    /\ mem = {} /\ file = {} /\ op = None /\ reading = NoReading
    /\ enforced = FALSE
    /\ lastId = 0
    /\ gone = {} /\ failed = {} /\ raced = FALSE

-----------------------------------------------------------------------------
(* Changes *)

Of(n, entries) == {e \in entries : e.name = n}

\* The mutex is taken. API keys are changed in memory when they are stored,
\* the others before.
Begin(next) ==
    /\ op = None
    /\ op' = [next |-> next, prev |-> mem, step |-> "begun"]
    /\ mem' = IF kind = "keys" THEN mem ELSE next

\* An entry with a new id, in place of what the name had.
Put(n) ==
    /\ lastId < MaxIds /\ lastId' = lastId + 1
    /\ Begin((mem \ Of(n, mem)) \cup {[name |-> n, id |-> lastId']})
    /\ UNCHANGED <<kind, file, reading, enforced, historyVars>>

Remove(n) ==
    /\ Of(n, mem) # {}
    /\ Begin(mem \ Of(n, mem))
    /\ UNCHANGED <<kind, file, reading, enforced, lastId, historyVars>>

\* The name of a new key or token must be free; a setting is replaced.
CreateKey(n) == kind = "keys" /\ Of(n, mem) = {} /\ Put(n)
CreateToken(n) == kind = "tokens" /\ Of(n, mem) = {} /\ Put(n)
SetSetting(n) == kind = "settings" /\ Put(n)

RevokeKey(n) == kind = "keys" /\ Remove(n)
RevokeToken(n) == kind = "tokens" /\ Remove(n)

\* Mutant: the file is truncated and written in place.
WriteInPlace ==
    /\ op # None /\ op.step = "begun"
    /\ file' = {}
    /\ op' = [op EXCEPT !.step = "written"]
    /\ UNCHANGED <<kind, mem, reading, enforced, lastId, historyVars>>

\* WriteFileAtomic: the temporary file is written and synced.
WriteTemp ==
    /\ op # None /\ op.step = "begun"
    /\ op' = [op EXCEPT !.step = "written"]
    /\ UNCHANGED <<kind, mem, file, reading, enforced, lastId, historyVars>>

Rename ==
    /\ op # None /\ op.step = "written"
    /\ file' = op.next
    /\ op' = [op EXCEPT !.step = "renamed"]
    /\ raced' = (raced \/ reading.read)
    /\ UNCHANGED <<kind, mem, reading, enforced, lastId, gone, failed>>

\* Mutant: what was removed can still be looked up.
DoneWithoutIndex ==
    /\ op # None /\ op.step = "renamed"
    /\ mem' = mem \cup op.next /\ op' = None
    /\ gone' = IF Lenient THEN {} ELSE gone \cup (op.prev \ op.next)
    /\ UNCHANGED <<kind, file, reading, enforced, lastId, failed, raced>>

\* The change is answered with success.
Done ==
    /\ op # None /\ op.step = "renamed"
    /\ mem' = op.next /\ op' = None
    /\ gone' = IF Lenient THEN {} ELSE gone \cup (op.prev \ op.next)
    /\ UNCHANGED <<kind, file, reading, enforced, lastId, failed, raced>>

\* Mutant: what was changed in memory stays there.
FailWithoutRollback ==
    /\ op # None /\ op.step # "renamed"
    /\ op' = None
    /\ failed' = IF Lenient THEN {} ELSE failed \cup (op.next \ op.prev)
    /\ UNCHANGED <<kind, mem, file, reading, enforced, lastId, gone, raced>>

\* The temporary file cannot be made, written, synced or renamed. Tokens are
\* put back; external nodes and settings stay changed.
Fail ==
    /\ op # None /\ op.step # "renamed"
    /\ op' = None
    /\ mem' = IF Lenient THEN op.next ELSE op.prev
    /\ failed' = IF Lenient THEN {} ELSE failed \cup (op.next \ op.prev)
    /\ UNCHANGED <<kind, file, reading, enforced, lastId, gone, raced>>

-----------------------------------------------------------------------------
(* Reload, edits by hand, restarts *)

\* An operator adds a line to the API keys file.
EditFile(n) ==
    /\ kind = "keys"
    /\ lastId < MaxIds /\ lastId' = lastId + 1
    /\ file' = file \cup {[name |-> n, id |-> lastId']}
    /\ UNCHANGED <<kind, mem, op, reading, enforced, historyVars>>

\* SIGHUP: the file is read without the mutex, then the entries are replaced.
\* Signals are handled one at a time.
ReloadReads ==
    /\ kind = "keys" /\ ~reading.read
    /\ reading' = [read |-> TRUE, entries |-> file]
    /\ UNCHANGED <<kind, mem, file, op, enforced, lastId, historyVars>>

ReloadSets ==
    /\ reading.read /\ op = None
    /\ mem' = reading.entries /\ reading' = NoReading
    /\ UNCHANGED <<kind, file, op, enforced, lastId, historyVars>>

\* PUT /admin/gateway {"auth_mode":"keys"}: refused without keys.
Enforce ==
    /\ kind = "keys" /\ op = None
    /\ mem # {} \/ enforced
    /\ enforced' = TRUE
    /\ UNCHANGED <<kind, mem, file, op, reading, lastId, historyVars>>

\* The controller ends, at any point, and is started with the file.
Restart ==
    /\ mem' = file /\ op' = None /\ reading' = NoReading
    /\ UNCHANGED <<kind, file, lastId, historyVars>>

\* A keys file makes keys required.
LoadKeys == kind = "keys" /\ Restart /\ enforced' = TRUE
LoadTokens == kind = "tokens" /\ Restart /\ UNCHANGED enforced
LoadSettings == kind = "settings" /\ Restart /\ UNCHANGED enforced

StoresNext ==
    \/ \E n \in Names : \/ CreateKey(n) \/ RevokeKey(n) \/ EditFile(n)
                         \/ CreateToken(n) \/ RevokeToken(n) \/ SetSetting(n)
    \/ WriteTemp \/ Rename \/ Done \/ Fail
    \/ ReloadReads \/ ReloadSets \/ Enforce
    \/ LoadKeys \/ LoadTokens \/ LoadSettings

StoresSpec == StoresInit /\ [][StoresNext]_storeVars

-----------------------------------------------------------------------------
(* Requests *)

\* The entries that readers find; they wait for a change that is under way.
Lookup == IF op = None THEN mem ELSE {}

\* AccessControl: who a request with key e counts as, from a peer that is
\* trusted or not, with the controller started in a mode.
Principal(e, trusted, mode) ==
    IF e \in Lookup THEN e.name
    ELSE IF enforced \/ mode = "keys" THEN "refused"
    ELSE IF mode = "open" THEN "anonymous"
    ELSE IF trusted THEN "local" ELSE "refused"

\* adminAuth: the name of the token that a request carries.
Match(e) == e \in Lookup
AdminAuth(e) == IF Match(e) THEN e.name ELSE "refused"

-----------------------------------------------------------------------------
(* Properties *)

\* A key or token whose revocation was answered with success opens nothing
\* any more that is closed to strangers, not after a crash, a failed change or
\* an edit of the file either. Excepted are runs in which the file changed
\* between the two steps of a Reload, which puts back what it had read
\* (StaticKeys.Revoke, Reload, adminTokens.revoke).
RevokedStaysRevoked ==
    \A e \in gone :
        /\ kind = "tokens" => AdminAuth(e) = "refused"
        /\ kind = "keys" /\ ~raced =>
              \A trusted \in BOOLEAN, mode \in {"local", "keys", "open"} :
                  Principal(e, trusted, mode) \in {"refused", "anonymous", "local"}

\* A key or token that could not be stored is not left behind in memory, nor
\* does a later change or a restart bring it back (StaticKeys.Create,
\* adminTokens.create, WriteFileAtomic).
ErrorsChangeNothing ==
    op = None /\ ~Lenient => failed \cap (mem \cup file) = {}

\* A change under way happened when the file was renamed.
Effective == IF op = None THEN mem ELSE IF op.step = "renamed" THEN op.next ELSE op.prev

Durable == INSTANCE DurableStore
    WITH Ids <- 1..MaxIds, lenient <- Lenient, mem <- Effective

\* Every store behaves as if each change were one step on memory and file:
\* its temporary files, its failures and its crashes do not show.
ImplementsDurableStore == Durable!DurableSpec
=============================================================================
