--------------------------- MODULE CatalogProofs ---------------------------
(***************************************************************************)
(* What a ready model holds, for any models, sources, downloads and        *)
(* attempts, and any number of crashes and failed saves.                   *)
(***************************************************************************)
EXTENDS Catalog, FiniteSetTheorems, TLAPS

(***************************************************************************)
(* The inductive invariant. An entry that is downloading and its download  *)
(* name each other, every other download was cancelled, and the state file *)
(* names no downloads. The state file has the entry of a model that is not *)
(* mixed up. While such a model is in the catalog, its partial file has    *)
(* bytes of its source only, and cancelled downloads of it can no longer   *)
(* write or delete that file: they have another file open, or fail before  *)
(* they write. The current download has the partial file open, and from    *)
(* its last byte on that file is whole.                                    *)
(***************************************************************************)
\* Download d works for m.
Of(d, m) == run[d] # None /\ run[d].model = m

EntryInv ==
    \A m \in Models : entry[m] # None =>
        /\ entry[m].status = "downloading" <=> entry[m].run # 0
        /\ entry[m].run # 0 =>
              Of(entry[m].run, m) /\ ~run[entry[m].run].cancelled /\ run[entry[m].run].src = entry[m].src

RunInv == \A d \in Downloads : run[d] # None /\ ~run[d].cancelled => IsCurrent(d)

EntriesInv == EntryInv /\ RunInv /\ \A m \in Models : saved[m] # None => saved[m].run = 0

StoredInv(m) == saved[m] = IF entry[m] = None THEN None ELSE [entry[m] EXCEPT !.run = 0]

PartInv(m) ==
    entry[m] # None =>
        /\ m \notin removing
        /\ part[m] # None => /\ part[m].data.srcs \subseteq {entry[m].src}
                             /\ part[m].data.whole => part[m].data = WholeOf(entry[m].src)

CancelledInv(m) ==
    \A d \in Downloads : Of(d, m) /\ run[d].cancelled /\ entry[m] # None =>
        /\ run[d].pc \notin {"check", "reject"}
        /\ run[d].src \in Local => run[d].pc # "open"
        /\ run[d].pc = "copy" \/ (run[d].pc = "get" /\ run[d].src \in Local) => ~HasPart(d)

\* All the bytes are there.
Fetched == {"fetched", "check", "reject", "rename"}

CurrentInv(m) ==
    \A d \in Downloads : Of(d, m) /\ ~run[d].cancelled =>
        /\ run[d].pc \in {"get", "copy"} => HasPart(d)
        /\ run[d].pc \in Fetched => part[m] # None /\ part[m].data = WholeOf(run[d].src)

FileInv(m) == Offered(m) => file[m] = WholeOf(entry[m].src)

ModelInv(m) == PartInv(m) /\ CancelledInv(m) /\ CurrentInv(m) /\ FileInv(m)

CatalogInv == CatalogTypeOK /\ EntriesInv /\ \A m \in Models \ mixed : StoredInv(m) /\ ModelInv(m)

\* A step that leaves a model, its files and its downloads alone.
LEMMA Elsewhere ==
    ASSUME NEW m \in Models, ModelInv(m), entry'[m] = entry[m], file'[m] = file[m], part'[m] = part[m],
           m \in removing' => m \in removing, \A d \in Downloads : Of(d, m)' => run'[d] = run[d]
    PROVE  ModelInv(m)'
<1>1. PartInv(m)' /\ FileInv(m)'
  BY DEF ModelInv, PartInv, FileInv, Offered
<1>2. \A d \in Downloads : Of(d, m)' => Of(d, m) /\ (HasPart(d)' <=> HasPart(d))
  BY DEF Of, HasPart
<1>3. CancelledInv(m)'
  BY <1>2 DEF ModelInv, CancelledInv
<1>4. CurrentInv(m)'
  BY <1>2 DEF ModelInv, CurrentInv
<1>5. QED
  BY <1>1, <1>3, <1>4 DEF ModelInv

-----------------------------------------------------------------------------
(* Inodes *)

\* What the members of a finite set are mapped to is no more than they are.
LEMMA Images ==
    ASSUME NEW S, NEW T, IsFiniteSet(S), NEW f \in [S -> T]
    PROVE  LET image == {f[x] : x \in S} IN IsFiniteSet(image) /\ Cardinality(image) <= Cardinality(S)
<1> DEFINE image == {f[x] : x \in S}
<1>1. f \in Surjection(S, image)
  BY DEF Surjection
<1>2. QED
  BY <1>1, FS_Surjection

\* There is an inode for every partial file and every open one, and one more
\* for a partial file that is about to be created.
LEMMA FreshInodeExists ==
    ASSUME CatalogTypeOK, NEW m \in Models, part[m] = None
    PROVE  /\ FreshInode \in Inodes \ {0}
           /\ \A n \in Models : part[n] # None => part[n].ino # FreshInode
           /\ \A d \in Downloads : run[d] # None => run[d].fd # FreshInode
<1> DEFINE Others == Models \ {m}
           inoOf == [n \in Others |-> IF part[n] # None THEN part[n].ino ELSE 0]
           fdOf == [d \in Downloads |-> IF run[d] # None THEN run[d].fd ELSE 0]
           A == {inoOf[n] : n \in Others}
           B == {fdOf[d] : d \in Downloads}
           N == Cardinality(Downloads) + Cardinality(Models)
<1>1. /\ Cardinality(Models) \in Nat /\ Cardinality(Downloads) \in Nat
      /\ IsFiniteSet(Others) /\ Cardinality(Others) = Cardinality(Models) - 1
  BY FS_CardinalityType, FS_RemoveElement, CatalogAssumption
<1>2. IsFiniteSet(A) /\ Cardinality(A) <= Cardinality(Others)
  <2>1. inoOf \in [Others -> {inoOf[n] : n \in Others}]
    OBVIOUS
  <2> HIDE DEF inoOf
  <2>2. QED
    BY <1>1, <2>1, Images
<1>3. IsFiniteSet(B) /\ Cardinality(B) <= Cardinality(Downloads)
  <2>1. fdOf \in [Downloads -> {fdOf[d] : d \in Downloads}]
    OBVIOUS
  <2> HIDE DEF fdOf
  <2>2. QED
    BY <2>1, Images, CatalogAssumption
<1>4. IsFiniteSet(A \cup B) /\ Cardinality(A \cup B) <= N - 1 /\ Cardinality(A \cup B) \in Nat
  <2> HIDE DEF A, B
  <2>1. IsFiniteSet(A \cup B) /\ Cardinality(A \cup B) = Cardinality(A) + Cardinality(B) - Cardinality(A \cap B)
    BY <1>2, <1>3, FS_Union
  <2>2. IsFiniteSet(A \cap B)
    BY <1>2, FS_Intersection
  <2>3. /\ Cardinality(A) \in Nat /\ Cardinality(B) \in Nat /\ Cardinality(A \cap B) \in Nat
        /\ Cardinality(A \cup B) \in Nat
    BY <1>2, <1>3, <2>1, <2>2, FS_CardinalityType
  <2>4. QED
    BY <1>1, <1>2, <1>3, <2>1, <2>3
<1>5. PICK i \in 1..N : i \notin A \cup B
  <2> HIDE DEF A, B
  <2>1. IsFiniteSet(1..N) /\ Cardinality(1..N) = N
    <3>1. N \in Nat
      BY <1>1
    <3> HIDE DEF N
    <3>2. IsFiniteSet(1..N) /\ Cardinality(1..N) = IF 1 > N THEN 0 ELSE N - 1 + 1
      BY <3>1, FS_Interval
    <3>3. QED
      BY <3>1, <3>2
  <2>2. ASSUME 1..N \subseteq A \cup B PROVE FALSE
    <3>1. Cardinality(1..N) <= Cardinality(A \cup B)
      BY <1>4, <2>2, FS_Subset
    <3>2. QED
      BY <1>1, <1>4, <2>1, <3>1
  <2>3. QED
    BY <2>2
<1>6. i \in Inodes \ {0}
  BY <1>1, <1>5 DEF Inodes
<1>7. \A n \in Models : part[n] # None => part[n].ino # i
  BY <1>5
<1>8. \A d \in Downloads : run[d] # None => run[d].fd # i
  BY <1>5
<1>9. QED
  BY <1>6, <1>7, <1>8 DEF FreshInode

-----------------------------------------------------------------------------
LEMMA SaveFacts ==
    ASSUME NEW unsure \in SUBSET Models, Save(unsure), entry' \in [Models -> Entries \cup {None}],
           saved \in [Models -> Entries \cup {None}]
    PROVE  /\ saved' \in [Models -> Entries \cup {None}] /\ mixed' \in SUBSET Models /\ unsure \subseteq mixed'
           /\ \A m \in Models : (saved[m] # None => saved[m].run = 0) => (saved'[m] # None => saved'[m].run = 0)
           /\ \A m \in Models \ mixed' : StoredInv(m)'
<1>1. Stored(entry') \in [Models -> Entries \cup {None}]
  <2>1. \A m \in Models : entry'[m] # None => [entry'[m] EXCEPT !.run = 0] \in Entries
    BY DEF Entries
  <2>2. QED
    BY <2>1 DEF Stored
<1>2. \A m \in Models : Stored(entry')[m] # None => Stored(entry')[m].run = 0
  BY DEF Stored, Entries
<1>3. \A m \in Models \ mixed' : saved'[m] = Stored(entry')[m]
  BY DEF Save
<1>4. \A m \in Models \ mixed' : StoredInv(m)'
  BY <1>3 DEF Stored, StoredInv
<1>5. QED
  BY <1>1, <1>2, <1>4 DEF Save

LEMMA DownloadTypes ==
    ASSUME CatalogTypeOK, NEW d \in Downloads, run[d] # None
    PROVE  /\ run[d] \in Runs /\ run[d].model \in Models
           /\ part[run[d].model] \in Parts \cup {None}
           /\ Held(d) \in Data /\ Empty \in Data
<1>1. run[d] \in Runs
  BY DEF CatalogTypeOK
<1>2. run[d].model \in Models
  BY <1>1 DEF Runs
<1>3. part[run[d].model] \in Parts \cup {None}
  BY <1>2 DEF CatalogTypeOK
<1>4. Held(d) \in Data /\ Empty \in Data
  BY <1>3 DEF Held, HasPart, Empty, Data, Parts
<1>5. QED
  BY <1>1, <1>2, <1>3, <1>4

-----------------------------------------------------------------------------
(* The steps of a download before it finishes *)

\* Download d gets the state r, and the partial file of its model becomes q.
Works(d, r, q) ==
    /\ run' = [run EXCEPT ![d] = r] /\ part' = [part EXCEPT ![run[d].model] = q]
    /\ UNCHANGED <<entry, saved, file, removing, mixed>>

\* A download stays what it was started for, and ends here only when it was
\* cancelled. A partial file keeps its inode, and a new one is empty and has
\* one that nobody has open.
MayWork(d, r, q) ==
    LET old == part[run[d].model] IN
    /\ r \in Runs \cup {None} /\ q \in Parts \cup {None}
    /\ r = None => run[d].cancelled
    /\ r # None => r.model = run[d].model /\ r.src = run[d].src /\ r.cancelled = run[d].cancelled
    /\ q # None /\ old # None => q.ino = old.ino
    /\ q # None /\ old = None => q.data = Empty /\ \A e \in Downloads : run[e] # None => run[e].fd # q.ino

\* Download d is at pc with fd open: if it was cancelled, it does no harm to the
\* partial file q of a model that is in the catalog again, which was p.
Harmless(d, pc, fd, p, q) ==
    /\ q = p \/ p = None
    /\ pc \notin {"check", "reject"}
    /\ run[d].src \in Local => pc # "open"
    /\ pc = "copy" \/ (pc = "get" /\ run[d].src \in Local) => q = None \/ q.ino # fd

\* If not, it does its work.
Useful(d, pc, fd, q) ==
    /\ q # None => /\ q.data.srcs \subseteq {run[d].src}
                   /\ q.data.whole => q.data = WholeOf(run[d].src)
    /\ pc \in {"get", "copy"} => q # None /\ q.ino = fd
    /\ pc \in Fetched => q # None /\ q.data = WholeOf(run[d].src)

WorksWell(d, r, q) ==
    LET m == run[d].model IN
    IF run[d].cancelled
    THEN entry[m] # None =>
            (q = part[m] \/ part[m] = None) /\ (r # None => Harmless(d, r.pc, r.fd, part[m], q))
    ELSE Useful(d, r.pc, r.fd, q)

LEMMA WorkTypes ==
    ASSUME CatalogTypeOK, NEW d \in Downloads, run[d] # None, NEW r, NEW q, Works(d, r, q), MayWork(d, r, q)
    PROVE  CatalogTypeOK'
<1>1. run[d].model \in Models
  BY DownloadTypes
<1>2. run' \in [Downloads -> Runs \cup {None}] /\ part' \in [Models -> Parts \cup {None}]
  BY <1>1 DEF Works, MayWork, CatalogTypeOK
<1>3. QED
  BY <1>2 DEF Works, CatalogTypeOK

LEMMA WorkEntries ==
    ASSUME CatalogTypeOK, EntriesInv, NEW d \in Downloads, run[d] # None, NEW r, NEW q, Works(d, r, q), MayWork(d, r, q)
    PROVE  EntriesInv'
<1>1. /\ run'[d] = r /\ \A e \in Downloads \ {d} : run'[e] = run[e]
      /\ UNCHANGED <<entry, saved>>
  BY DEF Works, CatalogTypeOK
<1>2. \A e \in Downloads : run'[e] # None =>
         /\ run[e] # None /\ run'[e].model = run[e].model /\ run'[e].src = run[e].src
         /\ run'[e].cancelled = run[e].cancelled
  BY <1>1 DEF MayWork
<1>3. \A e \in Downloads : run[e] # None /\ ~run[e].cancelled => run'[e] # None
  BY <1>1 DEF MayWork
<1>4. EntryInv'
  <2>1. \A n \in Models : entry[n] # None /\ entry[n].run # 0 => entry[n].run \in Downloads
    BY DEF CatalogTypeOK, Entries
  <2>2. QED
    BY <1>1, <1>2, <1>3, <2>1 DEF EntriesInv, EntryInv, Of
<1>5. RunInv'
  BY <1>1, <1>2 DEF EntriesInv, RunInv, IsCurrent
<1>6. QED
  BY <1>1, <1>4, <1>5 DEF EntriesInv
LEMMA WorkModel ==
    ASSUME CatalogTypeOK, EntriesInv, NEW d \in Downloads, run[d] # None, NEW r, NEW q,
           NEW m \in Models, run[d].model = m,
           Works(d, r, q), MayWork(d, r, q), WorksWell(d, r, q), ModelInv(m)
    PROVE  ModelInv(m)'
<1>1. run[d] \in Runs
  BY DownloadTypes
<1>2. /\ run'[d] = r /\ \A e \in Downloads \ {d} : run'[e] = run[e]
      /\ part'[m] = q /\ UNCHANGED <<entry, saved, file, removing>>
  BY <1>1 DEF Works, CatalogTypeOK
<1>3. ~run[d].cancelled => entry[m] # None /\ entry[m].run = d /\ entry[m].src = run[d].src
  <2>1. d # 0
    BY CatalogAssumption
  <2>2. ~run[d].cancelled => entry[m] # None /\ entry[m].run = d
    BY DEF EntriesInv, RunInv, IsCurrent
  <2>3. QED
    BY <1>1, <2>1, <2>2 DEF EntriesInv, EntryInv
<1>4. PartInv(m)'
  <2>1. CASE run[d].cancelled
    BY <1>1, <1>2, <2>1 DEF ModelInv, PartInv, WorksWell, MayWork, Empty
  <2>2. CASE ~run[d].cancelled
    BY <1>1, <1>2, <1>3, <2>2 DEF ModelInv, PartInv, WorksWell, Useful
  <2>3. QED
    BY <2>1, <2>2
<1>5. ASSUME NEW e \in Downloads \ {d}, Of(e, m)' PROVE Of(e, m) /\ run'[e] = run[e]
  BY <1>2, <1>5 DEF Of
<1>6. CancelledInv(m)'
  <2>1. ASSUME NEW e \in Downloads \ {d}, Of(e, m)', run'[e].cancelled, entry[m] # None
        PROVE  /\ run'[e].pc \notin {"check", "reject"}
               /\ run'[e].src \in Local => run'[e].pc # "open"
               /\ run'[e].pc = "copy" \/ (run'[e].pc = "get" /\ run'[e].src \in Local) => ~HasPart(e)'
    <3>1. Of(e, m) /\ run'[e] = run[e]
      BY <1>5, <2>1
    <3>2. ~HasPart(e) => ~HasPart(e)'
      BY <1>2, <3>1 DEF HasPart, MayWork, Of
    <3>3. QED
      BY <2>1, <3>1, <3>2 DEF ModelInv, CancelledInv
  <2>2. ASSUME r # None, r.cancelled, entry[m] # None
        PROVE  /\ r.pc \notin {"check", "reject"}
               /\ r.src \in Local => r.pc # "open"
               /\ r.pc = "copy" \/ (r.pc = "get" /\ r.src \in Local) => ~HasPart(d)'
    <3>1. r.model = m /\ r.src = run[d].src /\ run[d].cancelled
      BY <2>2 DEF MayWork
    <3>2. QED
      BY <1>2, <2>2, <3>1 DEF WorksWell, Harmless, HasPart
  <2>3. QED
    BY <1>2, <2>1, <2>2 DEF CancelledInv, Of
<1>7. CurrentInv(m)'
  <2>1. ASSUME NEW e \in Downloads \ {d}, Of(e, m)', ~run'[e].cancelled
        PROVE  /\ run'[e].pc \in {"get", "copy"} => HasPart(e)'
               /\ run'[e].pc \in Fetched => part'[m] # None /\ part'[m].data = WholeOf(run'[e].src)
    <3>1. Of(e, m) /\ run'[e] = run[e]
      BY <1>5, <2>1
    <3>2. entry[m] # None /\ entry[m].run = e
      BY <2>1, <3>1 DEF EntriesInv, RunInv, IsCurrent, Of
    <3>3. run[d].cancelled
      BY <1>3, <3>2
    <3>4. q = part[m] \/ part[m] = None
      BY <3>2, <3>3 DEF WorksWell
    <3>5. QED
      BY <1>2, <2>1, <3>1, <3>4 DEF ModelInv, CurrentInv, HasPart, Of
  <2>2. ASSUME r # None, ~r.cancelled
        PROVE  /\ r.pc \in {"get", "copy"} => HasPart(d)'
               /\ r.pc \in Fetched => part'[m] # None /\ part'[m].data = WholeOf(r.src)
    <3>1. r.model = m /\ r.src = run[d].src /\ ~run[d].cancelled
      BY <2>2 DEF MayWork
    <3>2. QED
      BY <1>2, <2>2, <3>1 DEF WorksWell, Useful, HasPart
  <2>3. QED
    BY <1>2, <2>1, <2>2 DEF CurrentInv, Of
<1>8. FileInv(m)'
  BY <1>2 DEF ModelInv, FileInv, Offered
<1>9. QED
  BY <1>4, <1>6, <1>7, <1>8 DEF ModelInv

\* What a step of download d has to show.
LEMMA WorkStep ==
    ASSUME CatalogInv, NEW d \in Downloads, run[d] # None, NEW r, NEW q, Works(d, r, q), MayWork(d, r, q),
           ModelInv(run[d].model) => WorksWell(d, r, q)
    PROVE  CatalogInv'
<1>1. CatalogTypeOK'
  BY WorkTypes DEF CatalogInv
<1>2. EntriesInv'
  BY WorkEntries DEF CatalogInv
<1>3. ASSUME NEW n \in Models \ mixed' PROVE StoredInv(n)' /\ ModelInv(n)'
  <2>1. StoredInv(n) /\ ModelInv(n)
    BY <1>3 DEF CatalogInv, Works
  <2>2. StoredInv(n)'
    BY <2>1 DEF Works, StoredInv
  <2>3. CASE n = run[d].model
    <3>1. CatalogTypeOK /\ EntriesInv /\ n \in Models /\ run[d].model = n
      BY <2>3 DEF CatalogInv
    <3>2. ModelInv(run[d].model)
      BY <2>1, <2>3
    <3>3. WorksWell(d, r, q)
      BY <3>2
    <3>4. ModelInv(n)'
      BY <2>1, <3>1, <3>3, WorkModel
    <3>5. QED
      BY <2>2, <3>4
  <2>4. CASE n # run[d].model
    <3>1. /\ entry'[n] = entry[n] /\ file'[n] = file[n] /\ part'[n] = part[n] /\ removing' = removing
          /\ run'[d] = r /\ \A e \in Downloads \ {d} : run'[e] = run[e]
      BY <2>4 DEF Works, CatalogInv, CatalogTypeOK
    <3>2. \A e \in Downloads : Of(e, n)' => run'[e] = run[e]
      BY <2>4, <3>1 DEF Of, MayWork
    <3>3. QED
      BY <2>1, <2>2, <3>1, <3>2, Elsewhere
  <2>5. QED
    BY <2>2, <2>3, <2>4
<1>4. QED
  BY <1>1, <1>2, <1>3 DEF CatalogInv

Places == {"open", "get", "copy", "failed", "fetched", "check", "reject", "rename", "giveup"}

\* The same for a download that goes on with the file it has open, or closes it.
MovesWell(d, pc, q) ==
    LET m == run[d].model IN
    IF run[d].cancelled THEN entry[m] # None => q = part[m] /\ Harmless(d, pc, run[d].fd, part[m], q)
    ELSE Useful(d, pc, run[d].fd, q)

LEMMA MoveStep ==
    ASSUME CatalogInv, NEW d \in Downloads, run[d] # None, NEW pc \in Places, NEW q \in Parts \cup {None},
           Goto(d, pc) \/ (Return(d, pc) /\ pc \notin {"get", "copy"}), part' = [part EXCEPT ![run[d].model] = q],
           UNCHANGED <<entry, saved, file, removing, mixed>>,
           q # None => part[run[d].model] # None /\ q.ino = part[run[d].model].ino,
           ModelInv(run[d].model) => MovesWell(d, pc, q)
    PROVE  CatalogInv'
<1>1. run[d] \in Runs /\ 0 \in Inodes
  BY FS_CardinalityType, CatalogAssumption DEF CatalogInv, CatalogTypeOK, Inodes
<1>2. ASSUME NEW r \in Runs, run' = [run EXCEPT ![d] = r], r.pc = pc, r.model = run[d].model, r.src = run[d].src,
             r.cancelled = run[d].cancelled, pc \in {"get", "copy"} => r.fd = run[d].fd
      PROVE  CatalogInv'
  <2>1. Works(d, r, q)
    BY <1>2 DEF Works
  <2>2. r # None
    BY CatalogAssumption
  <2>3. MayWork(d, r, q)
    BY <1>2, <2>2 DEF MayWork
  <2>4. ModelInv(run[d].model) => WorksWell(d, r, q)
    BY <1>2, <2>2 DEF WorksWell, MovesWell, Harmless, Useful
  <2>5. QED
    BY <2>1, <2>3, <2>4, WorkStep
<1>3. CASE Goto(d, pc)
  <2> DEFINE r == [run[d] EXCEPT !.pc = pc]
  <2>1. r \in Runs
    BY <1>1 DEF Runs, Places
  <2>2. /\ r.pc = pc /\ r.model = run[d].model /\ r.src = run[d].src /\ r.cancelled = run[d].cancelled
        /\ r.fd = run[d].fd
    BY <1>1 DEF Runs
  <2>3. run' = [run EXCEPT ![d] = r]
    BY <1>3 DEF Goto, CatalogInv, CatalogTypeOK
  <2> HIDE DEF r
  <2>4. QED
    BY <1>2, <2>1, <2>2, <2>3
<1>4. CASE Return(d, pc) /\ pc \notin {"get", "copy"}
  <2> DEFINE r == [run[d] EXCEPT !.fd = 0, !.pc = pc]
  <2>1. r \in Runs
    BY <1>1 DEF Runs, Places
  <2>2. r.pc = pc /\ r.model = run[d].model /\ r.src = run[d].src /\ r.cancelled = run[d].cancelled
    BY <1>1 DEF Runs
  <2>3. run' = [run EXCEPT ![d] = r]
    BY <1>4 DEF Return, CatalogInv, CatalogTypeOK
  <2> HIDE DEF r
  <2>4. QED
    BY <1>2, <1>4, <2>1, <2>2, <2>3
<1>5. QED
  BY <1>3, <1>4

\* The current download finds bytes of its own source only.
LEMMA CurrentFacts ==
    ASSUME CatalogTypeOK, EntriesInv, NEW d \in Downloads, run[d] # None, ~run[d].cancelled, ModelInv(run[d].model)
    PROVE  LET m == run[d].model IN
           /\ part[m] # None => /\ part[m].data.srcs \subseteq {run[d].src}
                                /\ part[m].data.whole => part[m].data = WholeOf(run[d].src)
           /\ run[d].pc \in {"get", "copy"} => HasPart(d)
           /\ run[d].pc \in Fetched => part[m] # None /\ part[m].data = WholeOf(run[d].src)
<1> DEFINE m == run[d].model
<1>1. m \in Models /\ d # 0
  BY DownloadTypes, CatalogAssumption
<1>2. entry[m] # None /\ entry[m].run = d
  BY DEF EntriesInv, RunInv, IsCurrent
<1>3. entry[m].src = run[d].src
  BY <1>1, <1>2 DEF EntriesInv, EntryInv
<1>4. /\ part[m] # None => /\ part[m].data.srcs \subseteq {run[d].src}
                           /\ part[m].data.whole => part[m].data = WholeOf(run[d].src)
  BY <1>1, <1>2, <1>3 DEF ModelInv, PartInv
<1>5. QED
  BY <1>4 DEF ModelInv, CurrentInv, Of

LEMMA OpenStep == ASSUME CatalogInv, NEW d \in Downloads, OpenPart(d) PROVE CatalogInv'
<1> DEFINE m == run[d].model
<1>1. run[d] # None /\ run[d].pc = "open" /\ UNCHANGED <<entry, saved, file, removing, mixed>>
  BY DEF OpenPart
<1>2. CatalogTypeOK /\ EntriesInv /\ run[d] \in Runs /\ m \in Models /\ part[m] \in Parts \cup {None} /\ Empty \in Data
  BY <1>1, DownloadTypes DEF CatalogInv
<1>3. CASE Return(d, "giveup") /\ UNCHANGED part
  <2>1. part' = [part EXCEPT ![m] = part[m]]
    BY <1>2, <1>3 DEF CatalogTypeOK
  <2>2. ModelInv(m) => MovesWell(d, "giveup", part[m])
    BY <1>1, <1>2, CurrentFacts DEF MovesWell, Harmless, Useful, Fetched
  <2>3. QED
    BY <1>1, <1>2, <1>3, <2>1, <2>2, MoveStep DEF Places
<1>4. ASSUME NEW q \in Parts, run' = [run EXCEPT ![d].fd = q.ino, ![d].pc = "get"], part' = [part EXCEPT ![m] = q],
             (part[m] # None /\ q = part[m])
             \/ (part[m] = None /\ q.data = Empty /\ \A e \in Downloads : run[e] # None => run[e].fd # q.ino)
      PROVE  CatalogInv'
  <2> DEFINE r == [run[d] EXCEPT !.fd = q.ino, !.pc = "get"]
  <2>1. r \in Runs /\ r # None
    BY <1>2, CatalogAssumption DEF Runs, Parts
  <2>2. /\ r.pc = "get" /\ r.model = run[d].model /\ r.src = run[d].src /\ r.cancelled = run[d].cancelled
        /\ r.fd = q.ino
    BY <1>2 DEF Runs
  <2>3. Works(d, r, q)
    BY <1>1, <1>2, <1>4 DEF Works, CatalogTypeOK
  <2> HIDE DEF r
  <2>4. MayWork(d, r, q)
    BY <1>4, <2>1, <2>2 DEF MayWork
  <2>5. ModelInv(m) => WorksWell(d, r, q)
    <3>1. ASSUME run[d].cancelled, ModelInv(m) PROVE WorksWell(d, r, q)
      <4>1. entry[m] # None => run[d].src \notin Local
        BY <1>1, <1>2, <3>1 DEF ModelInv, CancelledInv, Of
      <4>2. QED
        BY <1>4, <2>1, <2>2, <3>1, <4>1 DEF WorksWell, Harmless
    <3>2. ASSUME ~run[d].cancelled, ModelInv(m) PROVE WorksWell(d, r, q)
      <4>1. part[m] # None => /\ part[m].data.srcs \subseteq {run[d].src}
                              /\ part[m].data.whole => part[m].data = WholeOf(run[d].src)
        BY <1>1, <1>2, <3>2, CurrentFacts
      <4>2. q.data.srcs \subseteq {run[d].src} /\ (q.data.whole => q.data = WholeOf(run[d].src))
        BY <1>4, <4>1 DEF Empty
      <4>3. QED
        BY <2>2, <3>2, <4>2, CatalogAssumption DEF WorksWell, Useful, Fetched
    <3>3. QED
      BY <3>1, <3>2
  <2>6. QED
    BY <1>1, <2>3, <2>4, <2>5, WorkStep
<1>5. CASE part[m] # None /\ UNCHANGED part /\ run' = [run EXCEPT ![d].fd = part[m].ino, ![d].pc = "get"]
  <2>1. part' = [part EXCEPT ![m] = part[m]] /\ part[m] \in Parts
    BY <1>2, <1>5 DEF CatalogTypeOK
  <2>2. QED
    BY <1>4, <1>5, <2>1
<1>6. CASE /\ part[m] = None
           /\ part' = [part EXCEPT ![m] = [ino |-> FreshInode, data |-> Empty]]
           /\ run' = [run EXCEPT ![d].fd = FreshInode, ![d].pc = "get"]
  <2> DEFINE q == [ino |-> FreshInode, data |-> Empty]
  <2>1. FreshInode \in Inodes \ {0} /\ \A e \in Downloads : run[e] # None => run[e].fd # FreshInode
    BY <1>2, <1>6, FreshInodeExists
  <2>2. q \in Parts /\ q.ino = FreshInode /\ q.data = Empty
    BY <1>2, <2>1 DEF Parts
  <2>3. part' = [part EXCEPT ![m] = q] /\ run' = [run EXCEPT ![d].fd = q.ino, ![d].pc = "get"]
    BY <1>6, <2>2
  <2> HIDE DEF q
  <2>4. QED
    BY <1>4, <1>6, <2>1, <2>2, <2>3
<1>7. QED
  BY <1>3, <1>5, <1>6 DEF OpenPart

\* A write reaches the partial file only if the download still has it open.
LEMMA WriteFacts ==
    ASSUME CatalogTypeOK, NEW d \in Downloads, run[d] # None, NEW data \in Data, Write(d, data)
    PROVE  LET m == run[d].model IN
           \E q \in Parts \cup {None} :
              /\ part' = [part EXCEPT ![m] = q]
              /\ q # None => part[m] # None /\ q.ino = part[m].ino
              /\ HasPart(d) => q # None /\ q.ino = run[d].fd /\ q.data = data
              /\ ~HasPart(d) => q = part[m]
<1> DEFINE m == run[d].model
           q == IF HasPart(d) THEN [part[m] EXCEPT !.data = data] ELSE part[m]
<1>1. m \in Models /\ part[m] \in Parts \cup {None}
  BY DownloadTypes
<1>2. HasPart(d) => part[m] \in Parts /\ part[m].ino = run[d].fd
  BY <1>1 DEF HasPart
<1>3. HasPart(d) => q \in Parts /\ q.ino = part[m].ino /\ q.data = data
  BY <1>2 DEF Parts
<1>4. part' = [part EXCEPT ![m] = q]
  BY <1>1 DEF Write, CatalogTypeOK
<1>5. ~HasPart(d) => q = part[m]
  OBVIOUS
<1> HIDE DEF q
<1>6. QED
  BY <1>1, <1>2, <1>3, <1>4, <1>5, CatalogAssumption

LEMMA GetStep == ASSUME CatalogInv, NEW d \in Downloads, Get(d) PROVE CatalogInv'
<1> DEFINE m == run[d].model
           Goes(pc) == (pc = "copy" /\ Goto(d, pc)) \/ (pc # "copy" /\ Return(d, pc))
<1>1. run[d] # None /\ run[d].pc = "get" /\ UNCHANGED <<entry, saved, file, removing, mixed>>
  BY DEF Get
<1>2. CatalogTypeOK /\ EntriesInv /\ m \in Models /\ part[m] \in Parts \cup {None} /\ Empty \in Data
  BY <1>1, DownloadTypes DEF CatalogInv
<1>3. ASSUME NEW pc \in {"copy", "failed", "giveup"}, Goes(pc), NEW q \in Parts \cup {None},
             part' = [part EXCEPT ![m] = q], q # None => part[m] # None /\ q.ino = part[m].ino,
             q = part[m] \/ (q # None /\ q.ino = run[d].fd /\ q.data = Empty),
             (pc = "copy" \/ q # part[m]) /\ run[d].cancelled => run[d].src \in Local
      PROVE  CatalogInv'
  <2>1. ASSUME ModelInv(m), run[d].cancelled PROVE MovesWell(d, pc, q)
    <3>1. entry[m] # None /\ run[d].src \in Local => ~HasPart(d)
      BY <1>1, <2>1 DEF ModelInv, CancelledInv, Of
    <3>2. entry[m] # None => q = part[m]
      BY <1>3, <2>1, <3>1 DEF HasPart
    <3>3. QED
      BY <1>3, <2>1, <3>1, <3>2 DEF MovesWell, Harmless, HasPart
  <2>2. ASSUME ModelInv(m), ~run[d].cancelled PROVE MovesWell(d, pc, q)
    <3>1. /\ part[m] # None /\ part[m].ino = run[d].fd
          /\ part[m].data.srcs \subseteq {run[d].src}
          /\ part[m].data.whole => part[m].data = WholeOf(run[d].src)
      BY <1>1, <1>2, <2>2, CurrentFacts DEF HasPart
    <3>2. q # None /\ q.ino = run[d].fd /\ q.data.srcs \subseteq {run[d].src}
          /\ (q.data.whole => q.data = WholeOf(run[d].src))
      BY <1>3, <3>1 DEF Empty
    <3>3. QED
      BY <1>3, <2>2, <3>2 DEF MovesWell, Useful, Fetched
  <2>3. QED
    BY <1>1, <1>3, <2>1, <2>2, MoveStep DEF Places
<1>4. ASSUME NEW pc \in {"copy", "failed", "giveup"}, Goes(pc), UNCHANGED part,
             pc = "copy" /\ run[d].cancelled => run[d].src \in Local
      PROVE  CatalogInv'
  <2>1. part' = [part EXCEPT ![m] = part[m]]
    BY <1>2, <1>4 DEF CatalogTypeOK
  <2>2. QED
    BY <1>2, <1>3, <1>4, <2>1
<1>5. ASSUME NEW pc \in {"copy", "failed"}, Goes(pc), Write(d, Empty), run[d].cancelled => run[d].src \in Local
      PROVE  CatalogInv'
  <2>1. PICK q \in Parts \cup {None} :
            /\ part' = [part EXCEPT ![m] = q]
            /\ q # None => part[m] # None /\ q.ino = part[m].ino
            /\ HasPart(d) => q # None /\ q.ino = run[d].fd /\ q.data = Empty
            /\ ~HasPart(d) => q = part[m]
    BY <1>1, <1>2, <1>5, WriteFacts
  <2>2. QED
    BY <1>3, <1>5, <2>1
<1>6. QED
  BY <1>4, <1>5 DEF Get

\* Bytes of source s are appended, and perhaps the last ones.
LEMMA Appended ==
    ASSUME NEW h \in Data, NEW s \in Sources
    PROVE  LET data == [h EXCEPT !.srcs = @ \cup {s}, !.whole = FALSE]
               all == [data EXCEPT !.whole = TRUE]
           IN  /\ data \in Data /\ data.srcs = h.srcs \cup {s} /\ ~data.whole
               /\ all \in Data /\ all = [srcs |-> h.srcs \cup {s}, whole |-> TRUE]
<1> DEFINE data == [h EXCEPT !.srcs = @ \cup {s}, !.whole = FALSE]
           all == [data EXCEPT !.whole = TRUE]
<1>1. data \in Data
  BY DEF Data
<1>2. data.srcs = h.srcs \cup {s} /\ data.whole = FALSE
  BY DEF Data
<1> HIDE DEF data
<1>3. all \in Data
  BY <1>1 DEF Data
<1>4. all.srcs = h.srcs \cup {s} /\ all.whole = TRUE
  BY <1>1, <1>2 DEF Data
<1> HIDE DEF all
<1>5. all = [srcs |-> h.srcs \cup {s}, whole |-> TRUE]
  <2>1. all = [srcs |-> all.srcs, whole |-> all.whole]
    BY <1>3 DEF Data
  <2>2. QED
    BY <1>4, <2>1
<1>6. QED
  BY <1>1, <1>2, <1>3, <1>5 DEF data, all

LEMMA CopyStep == ASSUME CatalogInv, NEW d \in Downloads, Copy(d) PROVE CatalogInv'
<1> DEFINE m == run[d].model
           data == [Held(d) EXCEPT !.srcs = @ \cup {run[d].src}, !.whole = FALSE]
           all == [data EXCEPT !.whole = TRUE]
<1>1. run[d] # None /\ run[d].pc = "copy" /\ UNCHANGED <<entry, saved, file, removing, mixed>>
  BY DEF Copy
<1>2. CatalogTypeOK /\ EntriesInv /\ run[d] \in Runs /\ m \in Models /\ part[m] \in Parts \cup {None} /\ Held(d) \in Data
  BY <1>1, DownloadTypes DEF CatalogInv
<1>3. /\ data \in Data /\ data.srcs = Held(d).srcs \cup {run[d].src} /\ ~data.whole
      /\ all \in Data /\ all = [srcs |-> Held(d).srcs \cup {run[d].src}, whole |-> TRUE]
  <2>1. run[d].src \in Sources
    BY <1>2 DEF Runs
  <2>2. QED
    BY <1>2, <2>1, Appended
<1>4. \/ Write(d, data) /\ UNCHANGED run
      \/ Write(d, all) /\ Return(d, "fetched")
      \/ (Return(d, "failed") \/ Return(d, "giveup")) /\ UNCHANGED part
  BY DEF Copy
<1> HIDE DEF data, all
<1>5. ASSUME NEW x \in Data, NEW pc \in Places, Write(d, x),
             (x = data /\ pc = "copy" /\ Goto(d, pc)) \/ (x = all /\ pc = "fetched" /\ Return(d, pc))
      PROVE  CatalogInv'
  <2>1. PICK q \in Parts \cup {None} :
            /\ part' = [part EXCEPT ![m] = q]
            /\ q # None => part[m] # None /\ q.ino = part[m].ino
            /\ HasPart(d) => q # None /\ q.ino = run[d].fd /\ q.data = x
            /\ ~HasPart(d) => q = part[m]
    BY <1>1, <1>2, <1>5, WriteFacts
  <2>2. ASSUME ModelInv(m), run[d].cancelled PROVE MovesWell(d, pc, q)
    BY <1>1, <1>5, <2>1, <2>2 DEF MovesWell, Harmless, ModelInv, CancelledInv, Of, HasPart
  <2>3. ASSUME ModelInv(m), ~run[d].cancelled PROVE MovesWell(d, pc, q)
    <3>1. HasPart(d) /\ part[m].data.srcs \subseteq {run[d].src}
      BY <1>1, <1>2, <2>3, CurrentFacts DEF HasPart
    <3>2. Held(d).srcs \cup {run[d].src} = {run[d].src}
      BY <3>1 DEF Held
    <3>3. data.srcs = {run[d].src} /\ all = WholeOf(run[d].src)
      BY <1>3, <3>2 DEF WholeOf
    <3>4. x.srcs = {run[d].src} /\ (x.whole \/ pc = "fetched" => x = WholeOf(run[d].src))
      BY <1>3, <1>5, <3>3 DEF WholeOf
    <3>5. pc \in {"copy", "fetched"}
      BY <1>5
    <3>6. QED
      BY <2>1, <2>3, <3>1, <3>4, <3>5 DEF MovesWell, Useful, Fetched
  <2>4. QED
    BY <1>1, <1>5, <2>1, <2>2, <2>3, MoveStep
<1>6. ASSUME NEW pc \in {"failed", "giveup"}, Return(d, pc), UNCHANGED part
      PROVE  CatalogInv'
  <2>1. part' = [part EXCEPT ![m] = part[m]]
    BY <1>2, <1>6 DEF CatalogTypeOK
  <2>2. ModelInv(m) => MovesWell(d, pc, part[m])
    BY <1>1, <1>2, <1>6, CurrentFacts DEF MovesWell, Harmless, Useful, Fetched
  <2>3. pc \in Places /\ pc \notin {"get", "copy"}
    BY <1>6 DEF Places
  <2>4. QED
    BY <1>1, <1>2, <1>6, <2>1, <2>2, <2>3, MoveStep
<1>7. UNCHANGED run => Goto(d, "copy")
  <2>1. [run[d] EXCEPT !.pc = "copy"] = run[d]
    BY <1>1, <1>2 DEF Runs
  <2>2. QED
    BY <1>2, <2>1 DEF Goto, CatalogTypeOK
<1>8. QED
  BY <1>3, <1>4, <1>5, <1>6, <1>7 DEF Places

\* A download goes on and leaves the partial file alone.
LEMMA StayStep ==
    ASSUME CatalogInv, NEW d \in Downloads, run[d] # None, NEW pc \in Places, Goto(d, pc),
           UNCHANGED <<entry, disk, removing, mixed>>,
           ModelInv(run[d].model) => MovesWell(d, pc, part[run[d].model])
    PROVE  CatalogInv'
<1>1. CatalogTypeOK /\ run[d].model \in Models /\ part[run[d].model] \in Parts \cup {None}
  BY DownloadTypes DEF CatalogInv
<1>2. part' = [part EXCEPT ![run[d].model] = part[run[d].model]]
  BY <1>1 DEF disk, CatalogTypeOK
<1>3. QED
  BY <1>1, <1>2, MoveStep DEF disk

LEMMA AttemptStep == ASSUME CatalogInv, NEW d \in Downloads, AttemptEnds(d) PROVE CatalogInv'
<1> DEFINE m == run[d].model
<1>1. /\ run[d] # None /\ run[d].pc \in {"failed", "fetched"}
      /\ UNCHANGED <<entry, disk, removing, mixed>>
  BY DEF AttemptEnds
<1>2. CatalogTypeOK /\ EntriesInv /\ run[d] \in Runs /\ m \in Models /\ part[m] \in Parts \cup {None}
  BY <1>1, DownloadTypes DEF CatalogInv
<1>3. UNCHANGED <<entry, saved, file, removing, mixed>> /\ part' = [part EXCEPT ![m] = part[m]]
  BY <1>1, <1>2 DEF disk, CatalogTypeOK
<1>4. CASE run[d].cancelled /\ Ends(d)
  <2>1. Works(d, None, part[m])
    BY <1>3, <1>4 DEF Works, Ends
  <2>2. MayWork(d, None, part[m])
    BY <1>2, <1>4 DEF MayWork
  <2>3. WorksWell(d, None, part[m])
    BY <1>4 DEF WorksWell
  <2>4. QED
    BY <1>1, <2>1, <2>2, <2>3, WorkStep
<1>5. CASE ~run[d].cancelled /\ run[d].pc = "fetched" /\ Goto(d, "check")
  <2>1. ModelInv(m) => MovesWell(d, "check", part[m])
    BY <1>1, <1>2, <1>5, CurrentFacts DEF MovesWell, Useful, Fetched
  <2>2. QED
    BY <1>1, <1>5, <2>1, StayStep DEF Places
<1>6. CASE ~run[d].cancelled /\ run[d].pc = "failed" /\ Goto(d, "giveup")
  <2>1. ModelInv(m) => MovesWell(d, "giveup", part[m])
    BY <1>1, <1>2, <1>6, CurrentFacts DEF MovesWell, Useful, Fetched
  <2>2. QED
    BY <1>1, <1>6, <2>1, StayStep DEF Places
<1>7. CASE ~run[d].cancelled /\ run[d].try < Attempts /\ run' = [run EXCEPT ![d].pc = "open", ![d].try = @ + 1]
  <2> DEFINE r == [run[d] EXCEPT !.pc = "open", !.try = @ + 1]
  <2>1. r \in Runs
    <3>1. run[d].try + 1 \in 1..Attempts
      BY <1>2, <1>7, CatalogAssumption DEF Runs
    <3>2. QED
      BY <1>2, <3>1 DEF Runs
  <2>2. r # None /\ r.pc = "open" /\ r.model = m /\ r.src = run[d].src /\ r.cancelled = run[d].cancelled
    BY <1>2, <2>1, CatalogAssumption DEF Runs
  <2>3. Works(d, r, part[m])
    BY <1>2, <1>3, <1>7 DEF Works, CatalogTypeOK
  <2> HIDE DEF r
  <2>4. MayWork(d, r, part[m])
    BY <1>2, <2>1, <2>2 DEF MayWork
  <2>5. ModelInv(m) => WorksWell(d, r, part[m])
    BY <1>1, <1>2, <1>7, <2>2, CurrentFacts DEF WorksWell, Useful, Fetched
  <2>6. QED
    BY <1>1, <2>3, <2>4, <2>5, WorkStep
<1>8. QED
  BY <1>4, <1>5, <1>6, <1>7 DEF AttemptEnds

LEMMA CheckStep == ASSUME CatalogInv, NEW d \in Downloads, Check(d) PROVE CatalogInv'
<1> DEFINE m == run[d].model
<1>1. run[d] # None /\ run[d].pc = "check" /\ UNCHANGED <<entry, disk, removing, mixed>>
  BY DEF Check
<1>2. PICK pc \in {"rename", "reject", "giveup"} : Goto(d, pc)
  BY DEF Check
<1>3. CatalogTypeOK /\ EntriesInv
  BY DEF CatalogInv
<1>4. ASSUME ModelInv(m), run[d].cancelled PROVE entry[m] = None
  BY <1>1, <1>4 DEF ModelInv, CancelledInv, Of
<1>5. ASSUME ModelInv(m), ~run[d].cancelled PROVE MovesWell(d, pc, part[m])
  BY <1>1, <1>2, <1>3, <1>5, CurrentFacts DEF MovesWell, Useful, Fetched
<1>6. ModelInv(m) => MovesWell(d, pc, part[m])
  BY <1>4, <1>5 DEF MovesWell
<1>7. QED
  BY <1>1, <1>2, <1>6, StayStep DEF Places

LEMMA RejectStep == ASSUME CatalogInv, NEW d \in Downloads, Reject(d) PROVE CatalogInv'
<1> DEFINE m == run[d].model
<1>1. /\ run[d] # None /\ run[d].pc = "reject" /\ Goto(d, "giveup") /\ part' = [part EXCEPT ![m] = None]
      /\ UNCHANGED <<entry, saved, file, removing, mixed>>
  BY DEF Reject
<1>2. ASSUME ModelInv(m), run[d].cancelled PROVE entry[m] = None
  BY <1>1, <1>2 DEF ModelInv, CancelledInv, Of
<1>3. ModelInv(m) => MovesWell(d, "giveup", None)
  BY <1>2 DEF MovesWell, Useful, Fetched
<1>4. QED
  BY <1>1, <1>3, MoveStep DEF Places

-----------------------------------------------------------------------------
(* The end of a download *)

\* Download d of its model ends with a status: the model's file becomes f, and
\* the partial file stays or is gone.
Closes(d, status, f, q) ==
    LET m == run[d].model IN
    /\ entry' = [entry EXCEPT ![m].status = status, ![m].run = 0]
    /\ run' = [run EXCEPT ![d] = None]
    /\ file' = [file EXCEPT ![m] = f] /\ part' = [part EXCEPT ![m] = q]
    /\ UNCHANGED removing

LEMMA CloseTypes ==
    ASSUME CatalogTypeOK, NEW d \in Downloads, run[d] # None, IsCurrent(d), NEW status \in Statuses,
           NEW f \in Data \cup {None}, NEW q \in Parts \cup {None}, Closes(d, status, f, q)
    PROVE  /\ entry' \in [Models -> Entries \cup {None}] /\ file' \in [Models -> Data \cup {None}]
           /\ part' \in [Models -> Parts \cup {None}] /\ run' \in [Downloads -> Runs \cup {None}]
           /\ removing' \in SUBSET Models
           /\ LET m == run[d].model IN
              /\ entry'[m] # None /\ entry'[m].status = status /\ entry'[m].run = 0
              /\ entry'[m].src = entry[m].src /\ \A n \in Models \ {m} : entry'[n] = entry[n]
<1> DEFINE m == run[d].model
           e == [entry[m] EXCEPT !.status = status, !.run = 0]
<1>1. m \in Models
  BY DownloadTypes
<1>2. entry[m] \in Entries
  BY <1>1 DEF IsCurrent, CatalogTypeOK
<1>3. e \in Entries /\ e # None /\ e.status = status /\ e.run = 0 /\ e.src = entry[m].src
  <2>1. e \in Entries
    BY <1>2 DEF Entries
  <2>2. QED
    BY <1>2, <2>1, CatalogAssumption DEF Entries
<1>4. entry' = [entry EXCEPT ![m] = e]
  BY <1>1 DEF Closes, CatalogTypeOK
<1> HIDE DEF e
<1>5. /\ entry' \in [Models -> Entries \cup {None}]
      /\ entry'[m] = e /\ \A n \in Models \ {m} : entry'[n] = entry[n]
  BY <1>1, <1>3, <1>4 DEF CatalogTypeOK
<1>6. /\ file' \in [Models -> Data \cup {None}] /\ part' \in [Models -> Parts \cup {None}]
      /\ run' \in [Downloads -> Runs \cup {None}] /\ removing' \in SUBSET Models
  BY <1>1 DEF Closes, CatalogTypeOK
<1>7. QED
  BY <1>3, <1>5, <1>6

\* Who is who when the download of a model closes it.
LEMMA CloseFacts ==
    ASSUME CatalogTypeOK, EntriesInv, NEW d \in Downloads, run[d] # None, IsCurrent(d),
           NEW status \in {"ready", "error"},
           NEW f \in Data \cup {None}, NEW q \in Parts \cup {None}, Closes(d, status, f, q)
    PROVE  LET m == run[d].model IN
           /\ m \in Models /\ d # 0
           /\ entry'[m] # None /\ entry'[m].status = status /\ entry'[m].run = 0
           /\ entry'[m].src = entry[m].src /\ \A n \in Models \ {m} : entry'[n] = entry[n]
           /\ run'[d] = None /\ \A e \in Downloads \ {d} : run'[e] = run[e]
           /\ part'[m] = q /\ \A n \in Models \ {m} : part'[n] = part[n]
           /\ file'[m] = f /\ \A n \in Models \ {m} : file'[n] = file[n]
           /\ removing' = removing
           /\ entry[m] # None /\ entry[m].run = d /\ entry[m].src = run[d].src
           /\ \A e \in Downloads : run[e] # None => run[e].model \in Models
           /\ \A e \in Downloads \ {d} : run[e] # None /\ ~run[e].cancelled => run[e].model # m
<1> DEFINE m == run[d].model
<1>1. m \in Models /\ d # 0
  BY DownloadTypes, CatalogAssumption
<1>2. /\ entry'[m] # None /\ entry'[m].status = status /\ entry'[m].run = 0
      /\ entry'[m].src = entry[m].src /\ \A n \in Models \ {m} : entry'[n] = entry[n]
  BY CloseTypes DEF Statuses
<1>3. /\ run'[d] = None /\ \A e \in Downloads \ {d} : run'[e] = run[e]
      /\ part'[m] = q /\ \A n \in Models \ {m} : part'[n] = part[n]
      /\ file'[m] = f /\ \A n \in Models \ {m} : file'[n] = file[n]
      /\ removing' = removing
  BY <1>1 DEF Closes, CatalogTypeOK
<1>4. entry[m] # None /\ entry[m].run = d /\ entry[m].src = run[d].src
  BY <1>1 DEF IsCurrent, EntriesInv, EntryInv
<1>5. \A e \in Downloads : run[e] # None => run[e].model \in Models
  BY DownloadTypes
<1>6. \A e \in Downloads \ {d} : run[e] # None /\ ~run[e].cancelled => run[e].model # m
  BY <1>4 DEF EntriesInv, RunInv, IsCurrent
<1>7. QED
  BY <1>1, <1>2, <1>3, <1>4, <1>5, <1>6

LEMMA CloseEntries ==
    ASSUME CatalogTypeOK, EntriesInv, NEW d \in Downloads, run[d] # None, IsCurrent(d),
           NEW status \in {"ready", "error"},
           NEW f \in Data \cup {None}, NEW q \in Parts \cup {None}, Closes(d, status, f, q)
    PROVE  EntryInv' /\ RunInv'
<1> DEFINE m == run[d].model
<1>1. /\ entry'[m].status = status /\ entry'[m].run = 0 /\ \A n \in Models \ {m} : entry'[n] = entry[n]
      /\ run'[d] = None /\ \A e \in Downloads \ {d} : run'[e] = run[e]
      /\ \A e \in Downloads : run[e] # None => run[e].model \in Models
      /\ \A e \in Downloads \ {d} : run[e] # None /\ ~run[e].cancelled => run[e].model # m
  BY CloseFacts
<1>2. EntryInv'
  <2>1. \A n \in Models : entry[n] # None /\ entry[n].run # 0 => entry[n].run \in Downloads
    BY DEF CatalogTypeOK, Entries
  <2>2. \A n \in Models \ {m} : entry[n] # None /\ entry[n].run # 0 => entry[n].run # d
    BY DEF EntriesInv, EntryInv, Of
  <2>3. \A n \in Models \ {m} : entry[n] # None =>
          /\ entry[n].status = "downloading" <=> entry[n].run # 0
          /\ entry[n].run # 0 => /\ run'[entry[n].run] # None /\ run'[entry[n].run].model = n
                                 /\ ~run'[entry[n].run].cancelled /\ run'[entry[n].run].src = entry[n].src
    BY <1>1, <2>1, <2>2 DEF EntriesInv, EntryInv, Of
  <2>4. QED
    BY <1>1, <2>3 DEF EntryInv, Of
<1>3. RunInv'
  BY <1>1 DEF EntriesInv, RunInv, IsCurrent
<1>4. QED
  BY <1>2, <1>3

\* The model whose download ends. Others are left alone.
LEMMA CloseModel ==
    ASSUME CatalogTypeOK, EntriesInv, NEW d \in Downloads, run[d] # None, IsCurrent(d),
           NEW status \in {"ready", "error"},
           NEW f \in Data \cup {None}, NEW q \in Parts \cup {None}, Closes(d, status, f, q),
           q = None \/ q = part[run[d].model], NEW n \in Models, ModelInv(n),
           run[d].model = n /\ status = "ready" => f = WholeOf(run[d].src)
    PROVE  ModelInv(n)'
<1> DEFINE m == run[d].model
<1>1. /\ m \in Models /\ entry'[m] # None /\ entry'[m].status = status
      /\ entry'[m].src = entry[m].src /\ \A o \in Models \ {m} : entry'[o] = entry[o]
      /\ entry[m] # None /\ entry[m].src = run[d].src
  BY CloseFacts
<1>2. /\ run'[d] = None /\ \A e \in Downloads \ {d} : run'[e] = run[e]
      /\ part'[m] = q /\ \A o \in Models \ {m} : part'[o] = part[o]
      /\ file'[m] = f /\ \A o \in Models \ {m} : file'[o] = file[o]
      /\ removing' = removing
  BY CloseFacts
<1>3. \A e \in Downloads \ {d} : run[e] # None /\ ~run[e].cancelled => run[e].model # m
  BY CloseFacts
<1>4. \A e \in Downloads : Of(e, n)' => e # d /\ run'[e] = run[e] /\ Of(e, n)
  BY <1>2 DEF Of
<1>5. CASE n # m
  BY <1>1, <1>2, <1>4, <1>5, Elsewhere
<1>6. CASE n = m
  <2>1. PartInv(n)'
    BY <1>1, <1>2, <1>6 DEF ModelInv, PartInv
  <2>2. CancelledInv(n)'
    <3>1. \A e \in Downloads : Of(e, n)' /\ HasPart(e)' => HasPart(e)
      BY <1>2, <1>4, <1>6 DEF HasPart, Of
    <3>2. QED
      BY <1>1, <1>4, <1>6, <3>1 DEF ModelInv, CancelledInv
  <2>3. CurrentInv(n)'
    BY <1>3, <1>4, <1>6 DEF CurrentInv, Of
  <2>4. FileInv(n)'
    BY <1>1, <1>2, <1>6 DEF FileInv, Offered
  <2>5. QED
    BY <2>1, <2>2, <2>3, <2>4 DEF ModelInv
<1>7. QED
  BY <1>5, <1>6

LEMMA FinishStep == ASSUME CatalogInv, NEW d \in Downloads, run[d] # None, Finish(d) PROVE CatalogInv'
<1> DEFINE m == run[d].model
<1>1. CatalogTypeOK /\ EntriesInv /\ m \in Models /\ part[m] \in Parts \cup {None} /\ file[m] \in Data \cup {None}
  BY DownloadTypes DEF CatalogInv, CatalogTypeOK
<1>2. CASE ~IsCurrent(d) /\ Ends(d) /\ UNCHANGED <<entry, disk, mixed>> /\ UNCHANGED removing
  <2>1. run[d].cancelled
    BY <1>1, <1>2 DEF EntriesInv, RunInv
  <2>2. part' = [part EXCEPT ![m] = part[m]]
    BY <1>1, <1>2 DEF disk, CatalogTypeOK
  <2>3. Works(d, None, part[m])
    BY <1>2, <2>2 DEF Works, Ends, disk
  <2>4. MayWork(d, None, part[m]) /\ WorksWell(d, None, part[m])
    BY <1>1, <2>1 DEF MayWork, WorksWell
  <2>5. QED
    BY <2>3, <2>4, WorkStep
<1>3. ASSUME IsCurrent(d), NEW status \in {"ready", "error"}, NEW f \in Data \cup {None}, NEW q \in Parts \cup {None},
             Closes(d, status, f, q), q = None \/ q = part[m], Save(mixed),
             ModelInv(m) /\ status = "ready" => f = WholeOf(run[d].src)
      PROVE  CatalogInv'
  <2>1. /\ entry' \in [Models -> Entries \cup {None}] /\ file' \in [Models -> Data \cup {None}]
        /\ part' \in [Models -> Parts \cup {None}] /\ run' \in [Downloads -> Runs \cup {None}]
        /\ removing' \in SUBSET Models
    BY <1>1, <1>3, CloseTypes DEF Statuses
  <2>2. /\ saved' \in [Models -> Entries \cup {None}] /\ mixed' \in SUBSET Models /\ mixed \subseteq mixed'
        /\ \A n \in Models : saved'[n] # None => saved'[n].run = 0
        /\ \A n \in Models \ mixed' : StoredInv(n)'
    BY <1>1, <1>3, <2>1, SaveFacts DEF CatalogTypeOK, EntriesInv
  <2>3. EntriesInv'
    BY <1>1, <1>3, <2>2, CloseEntries DEF EntriesInv
  <2>4. ASSUME NEW n \in Models \ mixed' PROVE ModelInv(n)'
    <3>1. n \in Models /\ ModelInv(n)
      BY <2>2, <2>4 DEF CatalogInv
    <3>2. m = n /\ status = "ready" => f = WholeOf(run[d].src)
      BY <1>3, <3>1
    <3>3. QED
      BY <1>1, <1>3, <3>1, <3>2, CloseModel
  <2>5. QED
    BY <2>1, <2>2, <2>3, <2>4 DEF CatalogInv, CatalogTypeOK
<1>4. CASE /\ IsCurrent(d) /\ run[d].pc = "rename" /\ part[m] # None /\ Ends(d)
           /\ file' = [file EXCEPT ![m] = part[m].data] /\ part' = [part EXCEPT ![m] = None]
           /\ entry' = [entry EXCEPT ![m].status = "ready", ![m].run = 0] /\ Save(mixed) /\ UNCHANGED removing
  <2>1. part[m].data \in Data
    BY <1>1, <1>4 DEF Parts
  <2>2. Closes(d, "ready", part[m].data, None)
    BY <1>4 DEF Closes, Ends
  <2>3. ModelInv(m) => part[m].data = WholeOf(run[d].src)
    <3>1. ~run[d].cancelled
      <4>1. d # 0
        BY CatalogAssumption
      <4>2. QED
        BY <1>1, <1>4, <4>1 DEF IsCurrent, EntriesInv, EntryInv
    <3>2. QED
      BY <1>1, <1>4, <3>1, CurrentFacts DEF Fetched
  <2>4. QED
    BY <1>3, <1>4, <2>1, <2>2, <2>3
<1>5. CASE /\ IsCurrent(d) /\ Ends(d) /\ UNCHANGED <<file, part>>
           /\ entry' = [entry EXCEPT ![m].status = "error", ![m].run = 0] /\ Save(mixed) /\ UNCHANGED removing
  <2>1. Closes(d, "error", file[m], part[m])
    BY <1>1, <1>5 DEF Closes, Ends, CatalogTypeOK
  <2>2. QED
    BY <1>1, <1>3, <1>5, <2>1
<1>6. QED
  BY <1>2, <1>4, <1>5 DEF Finish

-----------------------------------------------------------------------------
(* What administrators do *)
LEMMA AddStep == ASSUME CatalogInv, NEW m \in Models, NEW s \in Sources, Add(m, s) PROVE CatalogInv'
<1> DEFINE unsure == IF ~Quiet(m) THEN mixed \cup {m} ELSE IF Stale(m, s) THEN mixed \ {m} ELSE mixed
<1>1. PICK d \in Idle : /\ entry' = [entry EXCEPT ![m] = [status |-> "downloading", src |-> s, run |-> d]]
                        /\ run' = [run EXCEPT ![d] = NewRun(m, s)]
  BY DEF Add
<1>2. d \in Downloads /\ run[d] = None /\ d # 0
  BY <1>1, CatalogAssumption DEF Idle
<1>3. [status |-> "downloading", src |-> s, run |-> d] \in Entries
  BY <1>2 DEF Entries, Statuses
<1>4. NewRun(m, s) \in Runs /\ NewRun(m, s) # None
  <2>1. 0 \in Inodes
    BY FS_CardinalityType, CatalogAssumption DEF Inodes
  <2>2. NewRun(m, s) \in Runs
    BY <2>1, CatalogAssumption DEF NewRun, Runs
  <2>3. QED
    BY <2>2, CatalogAssumption
<1>5. /\ entry'[m] # None /\ entry'[m].status = "downloading" /\ entry'[m].src = s /\ entry'[m].run = d
      /\ \A n \in Models \ {m} : entry'[n] = entry[n]
      /\ run'[d] = NewRun(m, s) /\ \A e \in Downloads \ {d} : run'[e] = run[e]
  BY <1>1, <1>2, <1>3, CatalogAssumption DEF CatalogInv, CatalogTypeOK
<1>6. /\ NewRun(m, s).model = m /\ NewRun(m, s).src = s /\ ~NewRun(m, s).cancelled /\ NewRun(m, s).pc = "open"
  BY DEF NewRun
<1>7. /\ entry[m] # None => entry[m].status = "error"
      /\ part' = IF Stale(m, s) THEN [part EXCEPT ![m] = None] ELSE part
      /\ Save(unsure) /\ UNCHANGED <<file, removing>>
  BY DEF Add
<1>8. CatalogTypeOK /\ EntriesInv
  BY DEF CatalogInv
<1>9. /\ entry' \in [Models -> Entries \cup {None}] /\ file' \in [Models -> Data \cup {None}]
      /\ part' \in [Models -> Parts \cup {None}] /\ run' \in [Downloads -> Runs \cup {None}]
      /\ removing' \in SUBSET Models
  BY <1>1, <1>2, <1>3, <1>4, <1>7, <1>8 DEF CatalogTypeOK
<1>10. /\ saved' \in [Models -> Entries \cup {None}] /\ mixed' \in SUBSET Models /\ unsure \subseteq mixed'
       /\ \A n \in Models : saved'[n] # None => saved'[n].run = 0
       /\ \A n \in Models \ mixed' : StoredInv(n)'
  <2>1. unsure \in SUBSET Models
    BY <1>8 DEF CatalogTypeOK
  <2> HIDE DEF unsure
  <2>2. QED
    BY <1>7, <1>8, <1>9, <2>1, SaveFacts DEF CatalogTypeOK, EntriesInv
<1>11. entry[m] # None => entry[m].run = 0
  BY <1>7, <1>8 DEF EntriesInv, EntryInv
<1>12. \A e \in Downloads : run[e] # None => run[e].model \in Models
  BY <1>8, DownloadTypes
<1>13. \A e \in Downloads : run[e] # None /\ ~run[e].cancelled => e # d /\ run[e].model # m
  BY <1>2, <1>8, <1>11, CatalogAssumption DEF EntriesInv, RunInv, IsCurrent
<1>14. EntryInv'
  <2>1. \A n \in Models \ {m} : entry[n] # None =>
          /\ entry[n].status = "downloading" <=> entry[n].run # 0
          /\ entry[n].run # 0 => /\ entry[n].run \in Downloads \ {d}
                                 /\ run[entry[n].run] # None /\ run[entry[n].run].model = n
                                 /\ ~run[entry[n].run].cancelled /\ run[entry[n].run].src = entry[n].src
    BY <1>2, <1>8 DEF EntriesInv, EntryInv, Of, CatalogTypeOK, Entries
  <2>2. QED
    BY <1>2, <1>4, <1>5, <1>6, <2>1 DEF EntryInv, Of
<1>15. RunInv'
  BY <1>5, <1>6, <1>8, <1>12, <1>13 DEF EntriesInv, RunInv, IsCurrent
<1>16. ASSUME NEW n \in Models \ mixed', n # m PROVE ModelInv(n)'
  <2>1. n \in Models /\ ModelInv(n)
    BY <1>10, <1>16 DEF CatalogInv
  <2>2. part'[n] = part[n] /\ entry'[n] = entry[n] /\ UNCHANGED <<file, removing>>
    BY <1>5, <1>7, <1>8, <1>16 DEF CatalogTypeOK
  <2>3. \A e \in Downloads : Of(e, n)' => run'[e] = run[e]
    BY <1>5, <1>6, <1>16 DEF Of
  <2>4. QED
    BY <2>1, <2>2, <2>3, Elsewhere
<1>17. ASSUME m \notin mixed' PROVE ModelInv(m)'
  <2>1. Quiet(m) /\ (Stale(m, s) \/ m \notin mixed)
    BY <1>10, <1>17
  <2>2. part'[m] = None \/ (part'[m] = part[m] /\ entry[m] # None /\ entry[m].src = s /\ ModelInv(m))
    BY <1>7, <1>8, <2>1 DEF CatalogInv, CatalogTypeOK, Stale
  <2>3. PartInv(m)'
    BY <1>5, <1>7, <2>1, <2>2 DEF ModelInv, PartInv, Quiet
  <2>4. \A e \in Downloads : Of(e, m)' => e = d \/ (e # d /\ run'[e] = run[e] /\ Of(e, m) /\ run[e].cancelled)
    BY <1>5, <1>13 DEF Of
  <2>5. CancelledInv(m)'
    <3>1. ASSUME NEW e \in Downloads, Of(e, m)', run'[e].cancelled
          PROVE  /\ run'[e].pc \notin {"check", "reject"}
                 /\ run'[e].src \in Local => run'[e].pc # "open"
                 /\ run'[e].pc = "copy" \/ (run'[e].pc = "get" /\ run'[e].src \in Local) => ~HasPart(e)'
      <4>1. e # d /\ run'[e] = run[e] /\ Of(e, m)
        BY <1>5, <1>6, <2>4, <3>1
      <4>2. run[e].pc \notin {"check", "reject"} /\ (run[e].src \in Local => run[e].pc # "open")
        BY <2>1, <4>1 DEF Quiet, Of
      <4>3. CASE part'[m] = None
        BY <4>1, <4>2, <4>3 DEF HasPart, Of
      <4>4. CASE part'[m] = part[m] /\ entry[m] # None /\ ModelInv(m)
        <5>1. run[e].pc = "copy" \/ (run[e].pc = "get" /\ run[e].src \in Local) => ~HasPart(e)
          BY <3>1, <4>1, <4>4 DEF ModelInv, CancelledInv
        <5>2. QED
          BY <4>1, <4>2, <4>4, <5>1 DEF HasPart, Of
      <4>5. QED
        BY <2>2, <4>3, <4>4
    <3>2. QED
      BY <3>1 DEF CancelledInv
  <2>6. CurrentInv(m)'
    BY <1>5, <1>6, <2>4 DEF CurrentInv, Fetched
  <2>7. FileInv(m)'
    BY <1>5 DEF FileInv, Offered
  <2>8. QED
    BY <2>3, <2>5, <2>6, <2>7 DEF ModelInv
<1>18. \A n \in Models \ mixed' : ModelInv(n)'
  BY <1>16, <1>17
<1>19. QED
  BY <1>9, <1>10, <1>14, <1>15, <1>18 DEF CatalogInv, CatalogTypeOK, EntriesInv

LEMMA UpdateStep == ASSUME CatalogInv, NEW m \in Models, Update(m) PROVE CatalogInv'
<1>1. Save(mixed) /\ UNCHANGED <<entry, file, part, run, removing>>
  BY DEF Update
<1>2. CatalogTypeOK /\ EntriesInv
  BY DEF CatalogInv
<1>3. /\ saved' \in [Models -> Entries \cup {None}] /\ mixed' \in SUBSET Models /\ mixed \subseteq mixed'
      /\ \A n \in Models : saved'[n] # None => saved'[n].run = 0
      /\ \A n \in Models \ mixed' : StoredInv(n)'
  BY <1>1, <1>2, SaveFacts DEF CatalogTypeOK, EntriesInv
<1>4. CatalogTypeOK'
  BY <1>1, <1>2, <1>3 DEF CatalogTypeOK
<1>5. EntriesInv'
  BY <1>1, <1>2, <1>3 DEF EntriesInv, EntryInv, RunInv, Of, IsCurrent
<1>6. ASSUME NEW n \in Models \ mixed' PROVE ModelInv(n)'
  <2>1. n \in Models /\ ModelInv(n)
    BY <1>3, <1>6 DEF CatalogInv
  <2>2. QED
    BY <1>1, <2>1, Elsewhere
<1>7. QED
  BY <1>3, <1>4, <1>5, <1>6 DEF CatalogInv

LEMMA RemoveStep == ASSUME CatalogInv, NEW m \in Models, Remove(m) PROVE CatalogInv'
<1> DEFINE r == entry[m].run
<1>1. /\ entry[m] # None /\ entry' = [entry EXCEPT ![m] = None]
      /\ run' = IF r # 0 THEN [run EXCEPT ![r].cancelled = TRUE] ELSE run
      /\ Save(mixed) /\ removing' = removing \cup {m} /\ UNCHANGED <<file, part>>
  BY DEF Remove
<1>2. CatalogTypeOK /\ EntriesInv
  BY DEF CatalogInv
<1>3. r # 0 => r \in Downloads /\ run[r] \in Runs /\ run[r].model = m
  <2>1. r \in Downloads \cup {0}
    BY <1>1, <1>2 DEF CatalogTypeOK, Entries
  <2>2. r # 0 => run[r] # None /\ run[r].model = m
    BY <1>1, <1>2 DEF EntriesInv, EntryInv, Of
  <2>3. QED
    BY <1>2, <2>1, <2>2 DEF CatalogTypeOK
<1> HIDE DEF r
<1>4. r # 0 => LET c == [run[r] EXCEPT !.cancelled = TRUE] IN
               c \in Runs /\ c # None /\ c.model = m /\ c.cancelled
  <2> DEFINE c == [run[r] EXCEPT !.cancelled = TRUE]
  <2>1. r # 0 => c \in Runs
    BY <1>3 DEF Runs
  <2>2. r # 0 => c.model = m /\ c.cancelled
    BY <1>3 DEF Runs
  <2>3. QED
    BY <2>1, <2>2, CatalogAssumption
<1>5. /\ run' \in [Downloads -> Runs \cup {None}]
      /\ \A e \in Downloads : e # r => run'[e] = run[e]
      /\ r # 0 => run'[r] # None /\ run'[r].model = m /\ run'[r].cancelled
  <2>1. CASE r = 0
    BY <1>1, <1>2, <2>1 DEF CatalogTypeOK
  <2>2. CASE r # 0
    <3> DEFINE c == [run[r] EXCEPT !.cancelled = TRUE]
    <3>1. run' = [run EXCEPT ![r] = c]
      BY <1>1, <1>2, <1>3, <2>2 DEF CatalogTypeOK
    <3>2. c \in Runs /\ c # None /\ c.model = m /\ c.cancelled
      BY <1>4, <2>2
    <3> HIDE DEF c
    <3>3. QED
      BY <1>2, <1>3, <2>2, <3>1, <3>2 DEF CatalogTypeOK
  <2>3. QED
    BY <2>1, <2>2
<1>6. /\ entry' \in [Models -> Entries \cup {None}] /\ file' \in [Models -> Data \cup {None}]
      /\ part' \in [Models -> Parts \cup {None}] /\ removing' \in SUBSET Models
      /\ entry'[m] = None /\ \A n \in Models \ {m} : entry'[n] = entry[n]
  BY <1>1, <1>2 DEF CatalogTypeOK
<1>7. /\ saved' \in [Models -> Entries \cup {None}] /\ mixed' \in SUBSET Models /\ mixed \subseteq mixed'
      /\ \A n \in Models : saved'[n] # None => saved'[n].run = 0
      /\ \A n \in Models \ mixed' : StoredInv(n)'
  BY <1>1, <1>2, <1>6, SaveFacts DEF CatalogTypeOK, EntriesInv
<1>8. \A e \in Downloads : run[e] # None => run[e].model \in Models
  BY <1>2, DownloadTypes
<1>9. \A e \in Downloads : e # 0
  BY CatalogAssumption
<1>10. EntryInv'
  <2>1. \A n \in Models \ {m} : entry[n] # None =>
          /\ entry[n].status = "downloading" <=> entry[n].run # 0
          /\ entry[n].run # 0 => /\ entry[n].run \in Downloads
                                 /\ run[entry[n].run] # None /\ run[entry[n].run].model = n
                                 /\ ~run[entry[n].run].cancelled /\ run[entry[n].run].src = entry[n].src
    BY <1>2 DEF EntriesInv, EntryInv, Of, CatalogTypeOK, Entries
  <2>2. \A n \in Models \ {m} : entry[n] # None /\ entry[n].run # 0 => entry[n].run # r
    BY <1>3, <2>1
  <2>3. QED
    BY <1>5, <1>6, <2>1, <2>2 DEF EntryInv, Of
<1>11. ASSUME NEW e \in Downloads, run'[e] # None, ~run'[e].cancelled
       PROVE  e # r /\ run'[e] = run[e] /\ run[e].model # m
  <2>1. e # r /\ run'[e] = run[e]
    BY <1>5, <1>9, <1>11
  <2>2. QED
    BY <1>2, <1>11, <2>1 DEF EntriesInv, RunInv, IsCurrent, r
<1>12. RunInv'
  BY <1>2, <1>6, <1>8, <1>11 DEF EntriesInv, RunInv, IsCurrent
<1>13. ASSUME NEW n \in Models \ mixed', n # m PROVE ModelInv(n)'
  <2>1. n \in Models /\ ModelInv(n)
    BY <1>7, <1>13 DEF CatalogInv
  <2>2. \A e \in Downloads : Of(e, n)' => run'[e] = run[e]
    BY <1>5, <1>9, <1>13 DEF Of
  <2>3. QED
    BY <1>1, <1>6, <1>13, <2>1, <2>2, Elsewhere
<1>14. ModelInv(m)'
  <2>1. PartInv(m)' /\ CancelledInv(m)' /\ FileInv(m)'
    BY <1>6 DEF PartInv, CancelledInv, FileInv, Offered
  <2>2. CurrentInv(m)'
    BY <1>11 DEF CurrentInv, Of
  <2>3. QED
    BY <2>1, <2>2 DEF ModelInv
<1>15. \A n \in Models \ mixed' : ModelInv(n)'
  BY <1>13, <1>14
<1>16. QED
  BY <1>5, <1>6, <1>7, <1>10, <1>12, <1>15 DEF CatalogInv, CatalogTypeOK, EntriesInv

\* The files of a model that is in the catalog and not mixed up are never deleted.
LEMMA RemoveFilesStep == ASSUME CatalogInv, NEW m \in Models, RemoveFiles(m) PROVE CatalogInv'
<1>1. /\ m \in removing /\ file' = [file EXCEPT ![m] = None] /\ part' = [part EXCEPT ![m] = None]
      /\ removing' = removing \ {m} /\ UNCHANGED <<entry, saved, run, mixed>>
  BY DEF RemoveFiles
<1>2. CatalogTypeOK /\ EntriesInv
  BY DEF CatalogInv
<1>3. CatalogTypeOK'
  BY <1>1, <1>2 DEF CatalogTypeOK
<1>4. EntriesInv'
  BY <1>1, <1>2 DEF EntriesInv, EntryInv, RunInv, Of, IsCurrent
<1>5. \A n \in Models \ {m} : file'[n] = file[n] /\ part'[n] = part[n]
  BY <1>1, <1>2 DEF CatalogTypeOK
<1>6. ASSUME NEW n \in Models \ mixed' PROVE StoredInv(n)' /\ ModelInv(n)'
  <2>1. n \in Models /\ StoredInv(n) /\ ModelInv(n)
    BY <1>1, <1>6 DEF CatalogInv
  <2>2. StoredInv(n)'
    BY <1>1, <2>1 DEF StoredInv
  <2>3. CASE n # m
    BY <1>1, <1>5, <2>1, <2>2, <2>3, Elsewhere
  <2>4. CASE n = m
    <3>1. entry[n] = None /\ UNCHANGED <<entry, run>>
      BY <1>1, <2>1, <2>4 DEF ModelInv, PartInv
    <3>2. \A e \in Downloads : run[e] # None /\ ~run[e].cancelled => run[e].model # n
      BY <1>2, <3>1 DEF EntriesInv, RunInv, IsCurrent
    <3>3. PartInv(n)' /\ CancelledInv(n)' /\ FileInv(n)' /\ CurrentInv(n)'
      BY <3>1, <3>2 DEF PartInv, CancelledInv, FileInv, CurrentInv, Offered, Of
    <3>4. QED
      BY <2>2, <3>3 DEF ModelInv
  <2>5. QED
    BY <2>3, <2>4
<1>7. QED
  BY <1>3, <1>4, <1>6 DEF CatalogInv

-----------------------------------------------------------------------------
(* Restart *)

Unfinished == {m \in Models : saved[m] # None /\ saved[m].status = "downloading"}

\* What the entry of model m becomes when its download, if it has one, is slot[m].
Restarted(slot, m) ==
    IF m \in Unfinished THEN [saved[m] EXCEPT !.run = slot[m]]
    ELSE IF saved[m] # None /\ saved[m].status = "ready" /\ file[m] # WholeOf(saved[m].src)
         THEN [saved[m] EXCEPT !.status = "error"]
    ELSE saved[m]

LEMMA RestartedFacts ==
    ASSUME CatalogTypeOK, EntriesInv, NEW slot \in [Unfinished -> Downloads], NEW m \in Models
    PROVE  LET e == Restarted(slot, m) IN
           /\ e \in Entries \cup {None} /\ (e # None <=> saved[m] # None)
           /\ e # None => /\ e.src = saved[m].src
                          /\ m \in Unfinished => e.status = "downloading" /\ e.run = slot[m]
                          /\ m \notin Unfinished => e.status # "downloading" /\ e.run = 0
                          /\ e.status = "ready" => file[m] = WholeOf(e.src)
<1>1. saved[m] \in Entries \cup {None} /\ (saved[m] # None => saved[m].run = 0)
  BY DEF CatalogTypeOK, EntriesInv
<1>2. CASE saved[m] = None
  BY <1>2 DEF Restarted, Unfinished
<1>3. CASE m \in Unfinished
  <2> DEFINE e == [saved[m] EXCEPT !.run = slot[m]]
  <2>1. saved[m] \in Entries /\ saved[m].status = "downloading" /\ slot[m] \in Downloads
    BY <1>1, <1>3 DEF Unfinished
  <2>2. e \in Entries
    BY <2>1 DEF Entries
  <2>3. e.src = saved[m].src /\ e.status = "downloading" /\ e.run = slot[m]
    BY <2>1 DEF Entries
  <2>4. Restarted(slot, m) = e /\ saved[m] # None
    BY <1>3 DEF Restarted, Unfinished
  <2> HIDE DEF e
  <2>5. QED
    BY <1>3, <2>2, <2>3, <2>4, CatalogAssumption
<1>4. CASE saved[m] # None /\ saved[m].status = "ready" /\ file[m] # WholeOf(saved[m].src)
  <2> DEFINE e == [saved[m] EXCEPT !.status = "error"]
  <2>1. e \in Entries
    BY <1>1, <1>4 DEF Entries, Statuses
  <2>2. e.src = saved[m].src /\ e.status = "error" /\ e.run = 0
    BY <1>1, <1>4 DEF Entries
  <2>3. Restarted(slot, m) = e /\ m \notin Unfinished
    BY <1>4 DEF Restarted, Unfinished
  <2> HIDE DEF e
  <2>4. QED
    BY <1>4, <2>1, <2>2, <2>3, CatalogAssumption
<1>5. CASE /\ saved[m] # None /\ m \notin Unfinished
           /\ saved[m].status = "ready" => file[m] = WholeOf(saved[m].src)
  <2>1. Restarted(slot, m) = saved[m] /\ saved[m].status # "downloading"
    BY <1>5 DEF Restarted, Unfinished
  <2>2. QED
    BY <1>1, <1>5, <2>1
<1>6. QED
  BY <1>2, <1>3, <1>4, <1>5

\* A model that is not mixed up is in the state file as it is after a restart:
\* the file of one that is ready is there.
LEMMA RestartedIsStored ==
    ASSUME CatalogTypeOK, EntriesInv, NEW slot \in [Unfinished -> Downloads], NEW m \in Models,
           StoredInv(m), FileInv(m), entry'[m] = Restarted(slot, m), UNCHANGED saved
    PROVE  StoredInv(m)' /\ (saved[m] # None => entry[m] # None /\ saved[m].src = entry[m].src)
<1>1. ASSUME saved[m] # None
      PROVE  entry[m] # None /\ saved[m].src = entry[m].src /\ saved[m].status = entry[m].status
  <2>1. entry[m] # None /\ saved[m] = [entry[m] EXCEPT !.run = 0]
    BY <1>1 DEF StoredInv
  <2>2. entry[m] \in Entries
    BY <2>1 DEF CatalogTypeOK
  <2>3. QED
    BY <2>1, <2>2 DEF Entries
<1>2. StoredInv(m)'
  <2> DEFINE e == Restarted(slot, m)
             s == [e EXCEPT !.run = 0]
  <2>1. e \in Entries \cup {None} /\ (e # None <=> saved[m] # None)
    BY RestartedFacts
  <2>2. CASE saved[m] = None
    BY <2>1, <2>2 DEF StoredInv
  <2>3. CASE saved[m] # None
    <3>1. saved[m] \in Entries /\ saved[m].run = 0
      BY <2>3 DEF CatalogTypeOK, EntriesInv
    <3>2. saved[m].status = "ready" => file[m] = WholeOf(saved[m].src)
      BY <1>1, <2>3 DEF FileInv, Offered
    <3>3. e.src = saved[m].src
      BY <2>1, <2>3, RestartedFacts
    <3>4. e.status = saved[m].status
      <4>1. CASE m \in Unfinished
        BY <2>1, <2>3, <4>1, RestartedFacts DEF Unfinished
      <4>2. CASE m \notin Unfinished
        BY <3>2, <4>2 DEF Restarted
      <4>3. QED
        BY <4>1, <4>2
    <3> HIDE DEF e
    <3>5. e \in Entries
      BY <2>1, <2>3
    <3>6. s \in Entries
      BY <3>5 DEF Entries
    <3>7. s.src = e.src /\ s.status = e.status /\ s.run = 0
      BY <3>5 DEF Entries
    <3>8. s = saved[m]
      <4> HIDE DEF s
      <4>1. \A x \in Entries : x = [status |-> x.status, src |-> x.src, run |-> x.run]
        BY DEF Entries
      <4>2. s = [status |-> s.status, src |-> s.src, run |-> s.run]
        BY <3>6, <4>1
      <4>3. saved[m] = [status |-> saved[m].status, src |-> saved[m].src, run |-> saved[m].run]
        BY <3>1, <4>1
      <4>4. QED
        BY <3>1, <3>3, <3>4, <3>7, <4>2, <4>3
    <3>9. e # None /\ entry'[m] = e
      BY <2>1, <2>3 DEF e
    <3>10. QED
      BY <3>8, <3>9 DEF StoredInv
  <2>4. QED
    BY <2>2, <2>3
<1>3. QED
  BY <1>1, <1>2

LEMMA CrashStep == ASSUME CatalogInv, Crash PROVE CatalogInv'
<1>1. PICK slot \in [Unfinished -> Downloads] :
        /\ \A m, n \in Unfinished : slot[m] = slot[n] => m = n
        /\ run' = [d \in Downloads |->
              IF \E m \in Unfinished : slot[m] = d
              THEN LET m == CHOOSE m \in Unfinished : slot[m] = d IN NewRun(m, saved[m].src)
              ELSE None]
        /\ entry' = [m \in Models |-> Restarted(slot, m)]
  BY DEF Crash, Unfinished, Restarted
<1>2. removing' = {} /\ UNCHANGED <<saved, file, part, mixed>>
  BY DEF Crash, disk
<1>3. CatalogTypeOK /\ EntriesInv
  BY DEF CatalogInv
<1>4. ASSUME NEW m \in Unfinished
      PROVE  /\ m \in Models /\ slot[m] \in Downloads /\ slot[m] # 0 /\ saved[m].src \in Sources
             /\ run'[slot[m]] = NewRun(m, saved[m].src)
  <2>1. m \in Models /\ slot[m] \in Downloads /\ slot[m] # 0
    BY CatalogAssumption DEF Unfinished
  <2>2. saved[m].src \in Sources
    BY <1>3 DEF Unfinished, CatalogTypeOK, Entries
  <2>3. (CHOOSE n \in Unfinished : slot[n] = slot[m]) = m
    BY <1>1
  <2>4. QED
    BY <1>1, <2>1, <2>2, <2>3
<1>5. ASSUME NEW d \in Downloads, \A m \in Unfinished : slot[m] # d PROVE run'[d] = None
  BY <1>1, <1>5
<1>6. ASSUME NEW m \in Models, NEW s \in Sources
      PROVE  /\ NewRun(m, s) \in Runs /\ NewRun(m, s) # None /\ NewRun(m, s).model = m /\ NewRun(m, s).src = s
             /\ ~NewRun(m, s).cancelled /\ NewRun(m, s).pc = "open"
  <2>1. 0 \in Inodes
    BY FS_CardinalityType, CatalogAssumption DEF Inodes
  <2>2. NewRun(m, s) \in Runs
    BY <2>1, CatalogAssumption DEF NewRun, Runs
  <2>3. NewRun(m, s) # None
    BY <2>2, CatalogAssumption
  <2>4. QED
    BY <2>2, <2>3 DEF NewRun
<1>7. ASSUME NEW d \in Downloads, run'[d] # None
      PROVE  \E m \in Unfinished : slot[m] = d /\ run'[d] = NewRun(m, saved[m].src)
  BY <1>4, <1>5, <1>7
<1>8. \A m \in Models :
        LET e == entry'[m] IN
        /\ e \in Entries \cup {None} /\ (e # None <=> saved[m] # None)
        /\ e # None => /\ e.src = saved[m].src
                       /\ m \in Unfinished => e.status = "downloading" /\ e.run = slot[m]
                       /\ m \notin Unfinished => e.status # "downloading" /\ e.run = 0
                       /\ e.status = "ready" => file[m] = WholeOf(e.src)
  BY <1>1, <1>3, RestartedFacts
<1>9. CatalogTypeOK'
  <2>1. run' \in [Downloads -> Runs \cup {None}]
    <3>1. \A d \in Downloads : run'[d] \in Runs \cup {None}
      BY <1>4, <1>6, <1>7
    <3>2. QED
      BY <1>1, <3>1
  <2>2. entry' \in [Models -> Entries \cup {None}]
    BY <1>1, <1>8
  <2>3. QED
    BY <1>2, <1>3, <2>1, <2>2 DEF CatalogTypeOK
<1>10. EntriesInv'
  <2>1. EntryInv'
    BY <1>4, <1>6, <1>8 DEF EntryInv, Of
  <2>2. RunInv'
    <3>1. ASSUME NEW d \in Downloads, run'[d] # None PROVE IsCurrent(d)'
      <4>1. PICK m \in Unfinished : slot[m] = d /\ run'[d] = NewRun(m, saved[m].src)
        BY <1>7, <3>1
      <4>2. m \in Models /\ saved[m] # None /\ run'[d].model = m
        BY <1>4, <1>6, <4>1 DEF Unfinished
      <4>3. QED
        BY <1>8, <4>1, <4>2 DEF IsCurrent
    <3>2. QED
      BY <3>1 DEF RunInv
  <2>3. QED
    BY <1>2, <1>3, <2>1, <2>2 DEF EntriesInv
<1>11. ASSUME NEW m \in Models \ mixed' PROVE StoredInv(m)' /\ ModelInv(m)'
  <2>1. m \in Models /\ StoredInv(m) /\ ModelInv(m)
    BY <1>2, <1>11 DEF CatalogInv
  <2>2. entry'[m] = Restarted(slot, m)
    BY <1>1, <2>1
  <2>3. StoredInv(m)' /\ (saved[m] # None => entry[m] # None /\ saved[m].src = entry[m].src)
    BY <1>2, <1>3, <2>1, <2>2, RestartedIsStored DEF ModelInv
  <2>4. PartInv(m)'
    BY <1>2, <1>8, <2>1, <2>3 DEF ModelInv, PartInv
  <2>5. \A d \in Downloads : run'[d] # None => ~run'[d].cancelled /\ run'[d].pc = "open"
    BY <1>4, <1>6, <1>7
  <2>6. CancelledInv(m)' /\ CurrentInv(m)'
    BY <2>5 DEF CancelledInv, CurrentInv, Of, Fetched
  <2>7. FileInv(m)'
    BY <1>2, <1>8, <2>1 DEF FileInv, Offered
  <2>8. QED
    BY <2>3, <2>4, <2>6, <2>7 DEF ModelInv
<1>12. QED
  BY <1>9, <1>10, <1>11 DEF CatalogInv

-----------------------------------------------------------------------------
(* The theorems *)

LEMMA CatalogInitially == CatalogInit => CatalogInv
<1> SUFFICES ASSUME CatalogInit PROVE CatalogInv
  OBVIOUS
<1>1. CatalogTypeOK
  BY DEF CatalogInit, CatalogTypeOK
<1>2. EntriesInv
  BY DEF CatalogInit, EntriesInv, EntryInv, RunInv
<1>3. ASSUME NEW m \in Models PROVE StoredInv(m) /\ ModelInv(m)
  BY DEF CatalogInit, StoredInv, ModelInv, PartInv, CancelledInv, CurrentInv, FileInv, Offered, Of
<1>4. QED
  BY <1>1, <1>2, <1>3 DEF CatalogInv

LEMMA CatalogInductive == CatalogInv /\ [CatalogNext]_catalogVars => CatalogInv'
<1> SUFFICES ASSUME CatalogInv, [CatalogNext]_catalogVars PROVE CatalogInv'
  OBVIOUS
<1>1. ASSUME NEW m \in Models, Admin(m) PROVE CatalogInv'
  BY <1>1, AddStep, UpdateStep, RemoveStep, RemoveFilesStep DEF Admin
<1>2. ASSUME NEW d \in Downloads, Download(d) PROVE CatalogInv'
  BY <1>2, OpenStep, GetStep, CopyStep, AttemptStep, CheckStep, RejectStep, FinishStep DEF Download
<1>3. CASE Crash
  BY <1>3, CrashStep
<1>4. CASE UNCHANGED catalogVars
  <2>1. UNCHANGED <<entry, saved, file, part, run, removing, mixed>>
    BY <1>4 DEF catalogVars
  <2>2. CatalogTypeOK'
    BY <2>1 DEF CatalogInv, CatalogTypeOK
  <2>3. EntriesInv'
    BY <2>1 DEF CatalogInv, EntriesInv, EntryInv, RunInv, Of, IsCurrent
  <2>4. ASSUME NEW m \in Models \ mixed' PROVE StoredInv(m)' /\ ModelInv(m)'
    <3>1. m \in Models /\ StoredInv(m) /\ ModelInv(m)
      BY <2>1, <2>4 DEF CatalogInv
    <3>2. QED
      BY <2>1, <3>1, Elsewhere DEF StoredInv
  <2>5. QED
    BY <2>2, <2>3, <2>4 DEF CatalogInv
<1>5. QED
  BY <1>1, <1>2, <1>3, <1>4 DEF CatalogNext

\* The catalog's entries, files and downloads keep their shapes, in memory and
\* in the state file, and there is always a fresh file for a download that has
\* none (Catalog.Add, run, Remove, NewCatalog).
THEOREM CatalogTypeCorrect == CatalogSpec => []CatalogTypeOK
<1>1. CatalogInv => CatalogTypeOK
  BY DEF CatalogInv
<1>2. QED
  BY <1>1, CatalogInitially, CatalogInductive, PTL DEF CatalogSpec

\* A model that is ready has its own source's file, complete: however many
\* downloads are under way, whatever they resume, and wherever the controller
\* dies. Excepted are the models that are mixed up: they were added again while
\* their removal or a cancelled download could still touch the new files, or the
\* state file did not have them as they were; until they are added anew when all
\* is quiet (Catalog.run, fetch, Add, Remove, NewCatalog).
THEOREM ReadyModelsAreWhole == CatalogSpec => []ReadyIsWhole
<1>1. CatalogInv => ReadyIsWhole
  BY DEF CatalogInv, ModelInv, FileInv, ReadyIsWhole
<1>2. QED
  BY <1>1, CatalogInitially, CatalogInductive, PTL DEF CatalogSpec
=============================================================================
