------------------------------ MODULE Catalog ------------------------------
(***************************************************************************)
(* The model catalog: what administrators add and remove, the downloads in *)
(* the background, the files, and the state file that a restart reads.     *)
(* A download opens its partial file by name and keeps it open; Remove     *)
(* cancels the download, forgets the model, and deletes the files by name, *)
(* after it has given up the lock. So downloads of a model that was        *)
(* removed and added again can meet in the files.                          *)
(*                                                                         *)
(* A file's content is the sources its bytes come from and whether they    *)
(* are all there. Two sources differ in size. Whether a file is a GGUF     *)
(* model is left open: any may be rejected.                                *)
(***************************************************************************)
EXTENDS Naturals, FiniteSets

CONSTANTS
    Models,         \* model ids
    Sources,        \* where models come from
    Local,          \* the sources that are files on the controller's host
    Downloads,      \* downloads that can be under way at a time: 1..n
    Attempts,       \* downloadAttempts
    None            \* no entry, no file, no download

Statuses == {"downloading", "ready", "error"}
Entries == [status : Statuses, src : Sources, run : Downloads \cup {0}]
Data == [srcs : SUBSET Sources, whole : BOOLEAN]
Inodes == 0..Cardinality(Downloads) + Cardinality(Models)   \* 0: none
Parts == [ino : Inodes \ {0}, data : Data]
Runs == [model : Models, src : Sources, fd : Inodes, try : 1..Attempts, cancelled : BOOLEAN,
         pc : {"open", "get", "copy", "failed", "fetched", "check", "reject", "rename", "giveup"}]

ASSUME CatalogAssumption ==
    /\ Local \subseteq Sources
    /\ Attempts \in Nat \ {0}
    /\ IsFiniteSet(Models) /\ IsFiniteSet(Downloads)
    /\ Downloads \subseteq Nat \ {0} /\ Cardinality(Downloads) >= Cardinality(Models)
    /\ None \notin Entries /\ None \notin Data /\ None \notin Parts /\ None \notin Runs

VARIABLES
    entry,      \* model -> [status, src, run], or None; run: its download
    saved,      \* the entries in the state file
    file,       \* model -> content of <id>.gguf, or None
    part,       \* model -> [ino, data] of <id>.gguf.part, or None
    run,        \* download -> its state, or None
    removing,   \* models whose files a Remove is about to delete
    mixed       \* history: models that were added again before all was quiet, or
                \* that the state file did not have as they were

catalogVars == <<entry, saved, file, part, run, removing, mixed>>
disk == <<saved, file, part>>

Empty == [srcs |-> {}, whole |-> FALSE]
WholeOf(s) == [srcs |-> {s}, whole |-> TRUE]

CatalogTypeOK ==
    /\ entry \in [Models -> Entries \cup {None}]
    /\ saved \in [Models -> Entries \cup {None}]
    /\ file \in [Models -> Data \cup {None}]
    /\ part \in [Models -> Parts \cup {None}]
    /\ run \in [Downloads -> Runs \cup {None}]
    /\ removing \in SUBSET Models /\ mixed \in SUBSET Models

CatalogInit ==
    /\ entry = [m \in Models |-> None] /\ saved = entry
    /\ file = [m \in Models |-> None] /\ part = file
    /\ run = [d \in Downloads |-> None]
    /\ removing = {} /\ mixed = {}

-----------------------------------------------------------------------------
(* The state file, and downloads in memory *)

Stored(e) == [m \in Models |-> IF e[m] = None THEN None ELSE [e[m] EXCEPT !.run = 0]]

\* saveLocked: the whole catalog, or nothing when the write fails. History:
\* unsure are the models that are mixed up apart from that.
Save(unsure) ==
    \/ saved' = Stored(entry') /\ mixed' = unsure
    \/ UNCHANGED saved /\ mixed' = unsure \cup {m \in Models : saved[m] # Stored(entry')[m]}

Idle == {d \in Downloads : run[d] = None}
NewRun(m, s) == [model |-> m, src |-> s, fd |-> 0, try |-> 1, cancelled |-> FALSE, pc |-> "open"]
Goto(d, pc) == run' = [run EXCEPT ![d].pc = pc]
\* An attempt is over: the partial file is closed.
Return(d, pc) == run' = [run EXCEPT ![d].fd = 0, ![d].pc = pc]
Ends(d) == run' = [run EXCEPT ![d] = None]
\* The entry is still the one that this download was started for.
IsCurrent(d) == entry[run[d].model] # None /\ entry[run[d].model].run = d

-----------------------------------------------------------------------------
(* What administrators do *)

\* Mutant: a retry resumes whatever is there.
StaleOnlyIfUnknown(m, s) == entry[m] = None

\* The partial file belongs to a model that was removed, or to another source.
Stale(m, s) == entry[m] = None \/ entry[m].src # s

\* The request that removed the model is over, and no download of it that was
\* cancelled can harm it still: one from a local file that has yet to open the
\* partial file writes some bytes into it before it stops, and one that is
\* checked deletes what it rejects.
Quiet(m) ==
    /\ m \notin removing
    /\ \A d \in Downloads :
          run[d] # None /\ run[d].model = m =>
             run[d].pc \notin {"check", "reject"} /\ (run[d].src \in Local => run[d].pc # "open")

Add(m, s) ==
    /\ entry[m] # None => entry[m].status = "error"
    /\ part' = IF Stale(m, s) THEN [part EXCEPT ![m] = None] ELSE part
    /\ \E d \in Idle :
          /\ entry' = [entry EXCEPT ![m] = [status |-> "downloading", src |-> s, run |-> d]]
          /\ run' = [run EXCEPT ![d] = NewRun(m, s)]
    /\ Save(IF ~Quiet(m) THEN mixed \cup {m} ELSE IF Stale(m, s) THEN mixed \ {m} ELSE mixed)
    /\ UNCHANGED <<file, removing>>

\* The name and the tags change, and everything is saved.
Update(m) ==
    /\ entry[m] # None
    /\ UNCHANGED entry /\ Save(mixed)
    /\ UNCHANGED <<file, part, run, removing>>

Remove(m) ==
    /\ entry[m] # None
    /\ run' = IF entry[m].run # 0 THEN [run EXCEPT ![entry[m].run].cancelled = TRUE] ELSE run
    /\ entry' = [entry EXCEPT ![m] = None]
    /\ Save(mixed)
    /\ removing' = removing \cup {m}
    /\ UNCHANGED <<file, part>>

RemoveFiles(m) ==
    /\ m \in removing
    /\ file' = [file EXCEPT ![m] = None]
    /\ part' = [part EXCEPT ![m] = None]
    /\ removing' = removing \ {m}
    /\ UNCHANGED <<entry, saved, run, mixed>>

-----------------------------------------------------------------------------
(* A download *)

FreshInode ==
    CHOOSE i \in Inodes \ {0} :
        /\ \A m \in Models : part[m] # None => part[m].ino # i
        /\ \A d \in Downloads : run[d] # None => run[d].fd # i

\* The partial file is opened, or created; or the disk refuses.
OpenPart(d) ==
    /\ run[d] # None /\ run[d].pc = "open"
    /\ LET m == run[d].model IN
       \/ part[m] # None /\ UNCHANGED part
          /\ run' = [run EXCEPT ![d].fd = part[m].ino, ![d].pc = "get"]
       \/ part[m] = None
          /\ part' = [part EXCEPT ![m] = [ino |-> FreshInode, data |-> Empty]]
          /\ run' = [run EXCEPT ![d].fd = FreshInode, ![d].pc = "get"]
       \/ Return(d, "giveup") /\ UNCHANGED part
    /\ UNCHANGED <<entry, saved, file, removing, mixed>>

\* The name still leads to the file that the download has open.
HasPart(d) == part[run[d].model] # None /\ part[run[d].model].ino = run[d].fd
Held(d) == IF HasPart(d) THEN part[run[d].model].data ELSE Empty
Write(d, data) ==
    part' = IF HasPart(d) THEN [part EXCEPT ![run[d].model].data = data] ELSE part

\* A server can send the rest of what is there.
Resumable(d) == Held(d).srcs # {} /\ ~Held(d).whole

\* A file on this host is read on from where the partial file ends, unless it
\* is shorter, which another source's may be. A server
\* sends everything (200), or the rest (206), or cannot, or fails. A request
\* whose context is cancelled fails.
Get(d) ==
    /\ run[d] # None /\ run[d].pc = "get"
    /\ \/ run[d].src \in Local /\ Goto(d, "copy") /\ UNCHANGED part
       \/ run[d].src \in Local /\ Held(d).srcs \ {run[d].src} # {} /\ Goto(d, "copy") /\ Write(d, Empty)
       \/ run[d].src \notin Local /\ ~run[d].cancelled /\ Goto(d, "copy") /\ Write(d, Empty)
       \/ run[d].src \notin Local /\ ~run[d].cancelled /\ Goto(d, "copy")
          /\ Resumable(d) /\ UNCHANGED part
       \/ run[d].src \notin Local /\ ~run[d].cancelled /\ Return(d, "failed")
          /\ Held(d).srcs # {} /\ Write(d, Empty)
       \/ Return(d, "failed") /\ UNCHANGED part
       \/ Return(d, "giveup") /\ UNCHANGED part
    /\ UNCHANGED <<entry, saved, file, removing, mixed>>

\* Some bytes, or the last ones, or no more: the connection breaks, nothing
\* comes for IdleTimeout, the context is cancelled, or the disk is full.
Copy(d) ==
    /\ run[d] # None /\ run[d].pc = "copy"
    /\ LET data == [Held(d) EXCEPT !.srcs = @ \cup {run[d].src}, !.whole = FALSE] IN
       \/ Write(d, data) /\ part' # part /\ UNCHANGED run
       \/ Write(d, [data EXCEPT !.whole = TRUE]) /\ Return(d, "fetched")
       \/ Return(d, "failed") /\ UNCHANGED part
       \/ Return(d, "giveup") /\ UNCHANGED part
    /\ UNCHANGED <<entry, saved, file, removing, mixed>>

\* A failed attempt is repeated, unless a retry cannot help. A download that
\* was cancelled ends, and leaves the partial file.
AttemptEnds(d) ==
    /\ run[d] # None /\ run[d].pc \in {"failed", "fetched"}
    /\ \/ run[d].cancelled /\ Ends(d)
       \/ ~run[d].cancelled /\ run[d].pc = "fetched" /\ Goto(d, "check")
       \/ ~run[d].cancelled /\ run[d].pc = "failed" /\ run[d].try < Attempts
          /\ run' = [run EXCEPT ![d].pc = "open", ![d].try = @ + 1]
       \/ ~run[d].cancelled /\ run[d].pc = "failed" /\ run[d].try = Attempts /\ Goto(d, "giveup")
    /\ UNCHANGED <<entry, disk, removing, mixed>>

\* What the name leads to, whoever wrote it; it may be gone.
Readable(m) == part[m] # None

\* The partial file is hashed and its metadata read, or it cannot be.
Check(d) ==
    /\ run[d] # None /\ run[d].pc = "check"
    /\ LET m == run[d].model IN
       \/ Readable(m) /\ part[m].data.srcs # {} /\ Goto(d, "rename")
       \/ Readable(m) /\ Goto(d, "reject")
       \/ Goto(d, "giveup")
    /\ UNCHANGED <<entry, disk, removing, mixed>>

\* Not a model: the partial file goes.
Reject(d) ==
    /\ run[d] # None /\ run[d].pc = "reject"
    /\ part' = [part EXCEPT ![run[d].model] = None]
    /\ Goto(d, "giveup")
    /\ UNCHANGED <<entry, saved, file, removing, mixed>>

\* Mutant: a download that fails just ends.
FinishSilently(d) ==
    LET m == run[d].model IN
    /\ run[d].pc \in {"rename", "giveup"}
    /\ Ends(d)
    /\ IF run[d].pc = "rename" /\ part[m] # None /\ IsCurrent(d)
       THEN /\ file' = [file EXCEPT ![m] = part[m].data]
            /\ part' = [part EXCEPT ![m] = None]
            /\ entry' = [entry EXCEPT ![m].status = "ready", ![m].run = 0]
            /\ Save(mixed)
       ELSE /\ entry' = IF IsCurrent(d) THEN [entry EXCEPT ![m].run = 0] ELSE entry
            /\ UNCHANGED <<disk, mixed>>
    /\ UNCHANGED removing

\* The partial file gets its name, unless the model was removed meanwhile.
Finish(d) ==
    LET m == run[d].model IN
    /\ run[d].pc \in {"rename", "giveup"}
    /\ Ends(d)
    /\ \/ ~IsCurrent(d) /\ UNCHANGED <<entry, disk, mixed>>
       \/ /\ IsCurrent(d) /\ run[d].pc = "rename" /\ part[m] # None
          /\ file' = [file EXCEPT ![m] = part[m].data]
          /\ part' = [part EXCEPT ![m] = None]
          /\ entry' = [entry EXCEPT ![m].status = "ready", ![m].run = 0]
          /\ Save(mixed)
       \/ /\ IsCurrent(d) /\ (run[d].pc = "rename" => part[m] = None)
          /\ entry' = [entry EXCEPT ![m].status = "error", ![m].run = 0]
          /\ Save(mixed)
          /\ UNCHANGED <<file, part>>
    /\ UNCHANGED removing

Download(d) ==
    \/ OpenPart(d) \/ Get(d) \/ Copy(d) \/ AttemptEnds(d) \/ Check(d) \/ Reject(d)
    \/ run[d] # None /\ Finish(d)

-----------------------------------------------------------------------------
(* Restart *)

\* The controller dies. When it starts again, a ready model needs its file,
\* with the size that the catalog has for it, and unfinished downloads go on.
Crash ==
    /\ LET Unfinished == {m \in Models : saved[m] # None /\ saved[m].status = "downloading"}
       IN  \E slot \in [Unfinished -> Downloads] :
              /\ \A m, n \in Unfinished : slot[m] = slot[n] => m = n
              /\ run' = [d \in Downloads |->
                    IF \E m \in Unfinished : slot[m] = d
                    THEN LET m == CHOOSE m \in Unfinished : slot[m] = d IN NewRun(m, saved[m].src)
                    ELSE None]
              /\ entry' = [m \in Models |->
                    IF m \in Unfinished THEN [saved[m] EXCEPT !.run = slot[m]]
                    ELSE IF saved[m] # None /\ saved[m].status = "ready" /\ file[m] # WholeOf(saved[m].src)
                         THEN [saved[m] EXCEPT !.status = "error"]
                    ELSE saved[m]]
    /\ removing' = {}
    /\ UNCHANGED <<disk, mixed>>

-----------------------------------------------------------------------------

\* The file of model m is given to phones that ask for it.
Offered(m) == entry[m] # None /\ entry[m].status = "ready"

Admin(m) == (\E s \in Sources : Add(m, s)) \/ Update(m) \/ Remove(m) \/ RemoveFiles(m)

CatalogNext ==
    \/ \E m \in Models : Admin(m)
    \/ \E d \in Downloads : Download(d)
    \/ Crash

\* A download always goes on: reads end after IdleTimeout at the latest.
CatalogSpec ==
    CatalogInit /\ [][CatalogNext]_catalogVars /\ \A d \in Downloads : WF_catalogVars(Download(d))

-----------------------------------------------------------------------------
(* Properties *)

\* The file that the controller offers for a model that is ready holds all the
\* bytes of the model's own source and no others, whatever was resumed, removed,
\* added again or interrupted before (Catalog.run, fetch, Add, Remove,
\* NewCatalog). Two kinds of models are excepted: those that were added again
\* before all was quiet, while their removal was still to delete the files, or
\* a cancelled download was to open the partial file for a local source or was
\* checked; and those that the state file did not have as they were, since a
\* save had failed. Either ends when the model is added anew, or with another
\* source, once all is quiet.
ReadyIsWhole ==
    \A m \in Models \ mixed : Offered(m) => file[m] = WholeOf(entry[m].src)

\* No model is downloading for ever: it becomes ready, fails, or is removed,
\* unless the controller crashes again and again (Catalog.run).
DownloadsEnd ==
    <>[][~Crash]_catalogVars =>
    \A m \in Models : []<>(entry[m] # None => entry[m].status # "downloading")
=============================================================================
