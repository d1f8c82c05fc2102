---------------------------- MODULE DurableStore ----------------------------
(***************************************************************************)
(* What a store that the controller keeps in a file promises: a change is  *)
(* one step on both copies, whatever happens while it is written, and a    *)
(* change that fails is none. A lenient store may keep a change that it    *)
(* could not write in use until the controller restarts.                   *)
(***************************************************************************)
EXTENDS Naturals

CONSTANTS Names, Ids

VARIABLES
    lenient,    \* changes that could not be stored are in use nevertheless
    mem,        \* the entries in use
    file,       \* the entries that a restart finds
    reading     \* what a reload has read: [read, entries]

durableVars == <<lenient, mem, file, reading>>

NoReading == [read |-> FALSE, entries |-> {}]

Entries == [name : Names, id : Ids]

\* What one change may make of the entries c: those of one name are dropped,
\* and a new one may be added for it.
Changes(c) ==
    LET others(n) == {e \in c : e.name # n}
    IN  {others(n) : n \in Names} \cup {others(e.name) \cup {e} : e \in Entries}

Change == \E c \in Changes(mem) : mem' = c /\ file' = c /\ UNCHANGED <<lenient, reading>>

ChangeInUse == lenient /\ \E c \in Changes(mem) : mem' = c /\ UNCHANGED <<lenient, file, reading>>

\* The file is edited by hand; that shows after a reload or a restart.
Edit == \E e \in Entries : file' = file \cup {e} /\ UNCHANGED <<lenient, mem, reading>>

ReadFile == ~reading.read /\ reading' = [read |-> TRUE, entries |-> file] /\ UNCHANGED <<lenient, mem, file>>
UseReading == reading.read /\ mem' = reading.entries /\ reading' = NoReading /\ UNCHANGED <<lenient, file>>

Restart == mem' = file /\ reading' = NoReading /\ UNCHANGED <<lenient, file>>

DurableInit == lenient \in BOOLEAN /\ mem = {} /\ file = {} /\ reading = NoReading
DurableNext == Change \/ ChangeInUse \/ Edit \/ ReadFile \/ UseReading \/ Restart
DurableSpec == DurableInit /\ [][DurableNext]_durableVars
=============================================================================
