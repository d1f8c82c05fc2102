----------------------------- MODULE JobsProofs -----------------------------
(* The safety of the job runner and of the job files, for any number of     *)
(* jobs, documents, messages, steps and restarts.                            *)
EXTENDS Jobs, TLAPS

(***************************************************************************)
(* The data part of the type invariant, and what is known of jobs that do  *)
(* not exist yet.                                                          *)
(***************************************************************************)
JobTyped ==
    /\ created \in 0..MaxJobs
    /\ present \in SUBSET (1..created)
    /\ status \in [JobIds -> Statuses]
    /\ work \in [JobIds -> Work]
    /\ disk \in [JobIds -> Files]
    /\ pc \in Outside \cup Inside
    /\ cur \in JobIds \cup {NoJob}
    /\ pc \in Inside \cup {"claim"} => cur \in 1..created

Unborn ==
    \A j \in JobIds : j > created =>
        status[j] = "queued" /\ work[j] = NewWork /\ disk[j] = NoFile

\* The runner's job is a job.
LEMMA CurIsJob ==
    ASSUME JobTyped, pc \in Inside \cup {"claim"}
    PROVE  cur \in JobIds /\ work[cur] \in Work
<1>1. cur \in JobIds
  BY JobsAssumption DEF JobTyped, JobIds
<1>2. QED
  BY <1>1 DEF JobTyped

\* The tools that change only a job's work, and their results.
LEMMA PutDocTyped ==
    ASSUME NEW w \in Work, NEW d \in Docs
    PROVE  PutDoc(w, d) \in Work
BY DEF PutDoc, Work

\* What a tool step does: the work stays typed, the runner goes on
\* to "more" or "workers" or stays with its workers, and the status of the
\* job changes at most to "waiting" or "done".
LEMMA ToolStep ==
    ASSUME JobTyped, Tool
    PROVE  /\ pc \in {"tools", "workers"} /\ pc' \in {"more", "workers"}
           /\ UNCHANGED <<created, present, files, cur, stopped>>
           /\ \E w \in Work : work' = [work EXCEPT ![cur] = w]
           /\ \/ UNCHANGED status
              \/ status' = [status EXCEPT ![cur] = "waiting"]
              \/ status' = [status EXCEPT ![cur] = "done"]
           /\ pc' = "workers" => UNCHANGED status
<1> DEFINE W == work[cur]
<1> DEFINE Goal ==
           /\ pc \in {"tools", "workers"} /\ pc' \in {"more", "workers"}
           /\ UNCHANGED <<created, present, files, cur, stopped>>
           /\ \E w \in Work : work' = [work EXCEPT ![cur] = w]
           /\ \/ UNCHANGED status
              \/ status' = [status EXCEPT ![cur] = "waiting"]
              \/ status' = [status EXCEPT ![cur] = "done"]
           /\ pc' = "workers" => UNCHANGED status
<1>1. CASE pc = "tools" /\ (PlanTasks \/ WriteDoc \/ NoEffect \/ AskUser \/ AskFinish \/ Finish)
  <2>1. W \in Work
    BY <1>1, CurIsJob DEF Inside
  <2>2. ASSUME NEW w \in Work, ToolDoes(w),
               \/ UNCHANGED status
               \/ status' = [status EXCEPT ![cur] = "waiting"]
               \/ status' = [status EXCEPT ![cur] = "done"]
        PROVE  Goal
    BY <1>1, <2>2 DEF ToolDoes, runVars
  <2>3. CASE PlanTasks
    <3>1. PICK tasks \in SUBSET Docs :
             ToolDoes([W EXCEPT !.todo = tasks \ W.done, !.plannedAt = W.msgs])
      BY <2>3 DEF PlanTasks
    <3>2. [W EXCEPT !.todo = tasks \ W.done, !.plannedAt = W.msgs] \in Work
      BY <2>1 DEF Work
    <3>3. QED
      BY <2>2, <2>3, <3>1, <3>2 DEF PlanTasks
  <2>4. CASE WriteDoc
    BY <2>1, <2>2, <2>4, PutDocTyped DEF WriteDoc
  <2>5. CASE NoEffect \/ AskUser
    BY <2>1, <2>2, <2>5 DEF NoEffect, AskUser, SetStatus
  <2>6. CASE AskFinish
    <3>1. [W EXCEPT !.asked = TRUE] \in Work
      BY <2>1 DEF Work
    <3>2. QED
      BY <2>2, <2>6, <3>1 DEF AskFinish
  <2>7. CASE Finish
    <3>1. PICK names \in SUBSET W.docs : ToolDoes([W EXCEPT !.result = names])
      BY <2>7 DEF Finish
    <3>2. [W EXCEPT !.result = names] \in Work
      BY <2>1 DEF Work
    <3>3. QED
      BY <2>2, <2>7, <3>1, <3>2 DEF Finish, SetStatus
  <2>8. QED
    BY <1>1, <2>3, <2>4, <2>5, <2>6, <2>7
<1>2. ASSUME pc \in {"tools", "workers"}, pc' \in {"more", "workers"}, UNCHANGED work,
             UNCHANGED <<created, present, status, files, cur, stopped>>
      PROVE  Goal
  <2>1. work[cur] \in Work /\ work' = [work EXCEPT ![cur] = work[cur]]
    BY <1>2, CurIsJob DEF JobTyped, Inside
  <2>2. QED
    BY <1>2, <2>1
<1>3. CASE pc = "tools" /\ Delegate
  BY <1>2, <1>3 DEF Delegate
<1>4. ASSUME NEW d \in Docs, Worker(d) PROVE Goal
  <2>1. CASE UNCHANGED work
    BY <1>2, <1>4, <2>1 DEF Worker
  <2>2. CASE work' = [work EXCEPT ![cur] = PutDoc(@, d)]
    <3>1. W \in Work
      BY <1>4, CurIsJob DEF Worker, Inside
    <3>2. QED
      BY <1>4, <2>2, <3>1, PutDocTyped DEF Worker
  <2>3. QED
    BY <1>4, <2>1, <2>2 DEF Worker
<1>5. CASE WorkersDone
  BY <1>2, <1>5 DEF WorkersDone, runVars
<1>6. QED
  BY <1>1, <1>3, <1>4, <1>5 DEF Tool

\* What writing or removing a file leaves on disk.
LEMMA StoreStores ==
    ASSUME JobTyped, NEW j \in JobIds, NEW f \in Files, Store(j, f)
    PROVE  /\ disk' \in [JobIds -> Files]
           /\ \A k \in JobIds \ {j} : disk'[k] = disk[k] /\ (k \in stale' <=> k \in stale)
           /\ \/ disk'[j] = disk[j] /\ j \in stale'
              \/ disk'[j] = f
BY DEF Store, JobTyped

\* What saveLocked leaves on disk.
LEMMA SaveStores ==
    ASSUME JobTyped, NEW j \in JobIds, SaveLocked(j),
           status' \in [JobIds -> Statuses], work' \in [JobIds -> Work]
    PROVE  /\ disk' \in [JobIds -> Files]
           /\ \A k \in JobIds \ {j} : disk'[k] = disk[k] /\ (k \in stale' <=> k \in stale)
           /\ \/ disk'[j] = disk[j] /\ j \in stale'
              \/ UNCHANGED files /\ j \notin present'
              \/ j \in present' /\ disk'[j] = [status |-> status'[j], work |-> work'[j]]
<1>1. [status |-> status'[j], work |-> work'[j]] \in Files
  BY DEF Files
<1>2. CASE j \in present' /\ Store(j, [status |-> status'[j], work |-> work'[j]])
  BY <1>1, <1>2, StoreStores
<1>3. CASE j \notin present' /\ UNCHANGED files
  BY <1>3 DEF JobTyped, files
<1>4. QED
  BY <1>2, <1>3 DEF SaveLocked

\* A stored job that is loaded again is typed, and not running.
LEMMA LoadedTyped ==
    ASSUME NEW f \in Files, f # NoFile
    PROVE  /\ Loaded(f) = [status |-> Loaded(f).status, work |-> f.work]
           /\ Loaded(f).status \in Statuses \ {"running"}
           /\ f.work \in Work
           /\ f.status # "running" => Loaded(f) = f
<1>1. PICK s \in Statuses, w \in Work : f = [status |-> s, work |-> w]
  BY DEF Files
<1>2. CASE s = "running"
  <2>1. Loaded(f) = [status |-> "queued", work |-> w]
    BY <1>1, <1>2 DEF Loaded
  <2>2. QED
    BY <1>1, <1>2, <2>1 DEF Statuses
<1>3. CASE s # "running"
  BY <1>1, <1>3 DEF Loaded
<1>4. QED
  BY <1>2, <1>3

\* The steps of the runner that change no job and no file.
Quiet ==
    \/ Look \/ WakeUp \/ Prompt \/ StepFails \/ ToolCall \/ NextCall \/ EndStep \/ Error

\* Every step keeps the data typed.
LEMMA StepJobTyped ==
    JobTyped /\ Unborn /\ [JobsNext]_vars => JobTyped' /\ Unborn'
<1> SUFFICES ASSUME JobTyped, Unborn, [JobsNext]_vars PROVE JobTyped' /\ Unborn'
  OBVIOUS
<1>0. 1..created \subseteq JobIds /\ created \in Nat /\ MaxJobs \in Nat
  BY JobsAssumption DEF JobTyped, JobIds
<1>1. ASSUME NEW j \in 1..created, SaveLocked(j), UNCHANGED <<created, present>>,
             status' \in [JobIds -> Statuses], work' \in [JobIds -> Work],
             \A k \in JobIds : k > created => status'[k] = status[k] /\ work'[k] = work[k],
             pc' \in Outside \cup Inside, cur' = cur,
             pc' \in Inside \cup {"claim"} => pc \in Inside \cup {"claim"}
      PROVE  JobTyped' /\ Unborn'
  <2>1. /\ disk' \in [JobIds -> Files]
        /\ \A k \in JobIds \ {j} : disk'[k] = disk[k]
    BY <1>0, <1>1, SaveStores
  <2>2. JobTyped'
    BY <1>1, <2>1 DEF JobTyped
  <2>3. Unborn'
    BY <1>0, <1>1, <2>1 DEF Unborn
  <2>4. QED
    BY <2>2, <2>3
<1>2. CASE Quiet
  <2>1. UNCHANGED <<created, present, status, work, disk>>
    BY <1>2 DEF Quiet, Look, WakeUp, Prompt, StepFails, ToolCall, NextCall, EndStep, Error, files
  <2>2. /\ pc' \in Outside \cup Inside
        /\ cur' \in JobIds \cup {NoJob}
        /\ pc' \in Inside \cup {"claim"} => cur' \in 1..created
    BY <1>0, <1>2 DEF Quiet, Look, WakeUp, Prompt, StepFails, ToolCall, NextCall, EndStep,
                      Error, JobTyped, Outside, Inside, Queued
  <2>3. QED
    BY <2>1, <2>2 DEF JobTyped, Unborn
<1>3. CASE Tool
  <2>1. PICK w \in Work : work' = [work EXCEPT ![cur] = w]
    BY <1>3, ToolStep
  <2>2. /\ pc \in Inside /\ pc' \in Inside /\ cur \in 1..created
        /\ UNCHANGED <<created, present, disk, cur>>
        /\ status' \in [JobIds -> Statuses]
        /\ \A k \in JobIds \ {cur} : status'[k] = status[k]
    BY <1>3, ToolStep DEF JobTyped, Inside, Statuses, files
  <2>3. work' \in [JobIds -> Work] /\ \A k \in JobIds \ {cur} : work'[k] = work[k]
    BY <2>1 DEF JobTyped
  <2>4. JobTyped'
    BY <2>2, <2>3 DEF JobTyped
  <2>5. Unborn'
    BY <1>0, <2>2, <2>3 DEF Unborn
  <2>6. QED
    BY <2>4, <2>5
<1>4. CASE Claim
  <2>1. CASE cur \in Queued
    BY <1>1, <1>4, <2>1 DEF Claim, JobTyped, Statuses, Inside, Queued
  <2>2. CASE cur \notin Queued
    BY <1>4, <2>2 DEF Claim, JobTyped, Unborn, Outside, Inside, files
  <2>3. QED
    BY <2>1, <2>2
<1>5. CASE Head
  <2>1. CASE UNCHANGED <<status, disk>>
    BY <1>5, <2>1 DEF Head, JobTyped, Unborn, Outside, Inside
  <2>2. CASE SetStatus("waiting") /\ SaveLocked(cur) /\ pc' = "look"
    <3>1. /\ cur \in 1..created /\ pc' \in Outside \cup Inside /\ cur' = cur
          /\ pc' \notin Inside \cup {"claim"}
          /\ status' \in [JobIds -> Statuses] /\ work' \in [JobIds -> Work]
          /\ \A k \in JobIds : k > created => status'[k] = status[k] /\ work'[k] = work[k]
      BY <1>0, <1>5, <2>2 DEF Head, JobTyped, SetStatus, Statuses, Outside, Inside
    <3>2. QED
      BY <1>1, <1>5, <2>2, <3>1 DEF Head
  <2>3. QED
    BY <1>5, <2>1, <2>2 DEF Head, files
<1>6. CASE NoToolCall
  BY <1>0, <1>6 DEF NoToolCall, SetStatus, JobTyped, Unborn, Statuses, Inside, files
<1>7. CASE SaveStep
  <2>1. /\ cur \in 1..created /\ cur' = cur /\ pc \in Inside /\ pc' \in Inside
        /\ status' \in [JobIds -> Statuses] /\ work' \in [JobIds -> Work]
        /\ UNCHANGED <<status, work, created, present>>
    BY <1>7 DEF SaveStep, JobTyped, Inside
  <2>2. QED
    BY <1>1, <1>7, <2>1 DEF SaveStep
<1>8. CASE Fail
  <2>1. /\ cur \in 1..created /\ cur' = cur /\ pc \in Inside /\ pc' \in Inside \cup Outside
        /\ UNCHANGED <<work, created, present>>
    BY <1>8 DEF Fail, JobTyped, Inside, Outside
  <2>2. /\ status' \in [JobIds -> Statuses]
        /\ \A k \in JobIds \ {cur} : status'[k] = status[k]
    BY <1>8, <2>1 DEF Fail, SetStatus, JobTyped, Statuses
  <2>3. QED
    BY <1>0, <1>1, <1>8, <2>1, <2>2 DEF Fail, JobTyped
<1>9. CASE Create
  <2>1. created + 1 \in JobIds
    BY <1>0, <1>9 DEF Create, JobIds
  <2>2. UNCHANGED <<status, work, pc, cur>> /\ created' = created + 1
        /\ present' = present \cup {created + 1}
    BY <1>9 DEF Create
  <2>3. /\ disk' \in [JobIds -> Files]
        /\ \A k \in JobIds \ {created + 1} : disk'[k] = disk[k]
    BY <1>9, <2>1, <2>2, SaveStores DEF Create, JobTyped
  <2>4. JobTyped'
    BY <1>0, <1>9, <2>1, <2>2, <2>3 DEF JobTyped, JobIds
  <2>5. Unborn'
    BY <1>0, <2>1, <2>2, <2>3 DEF Unborn, JobIds
  <2>6. QED
    BY <2>4, <2>5
<1>10. ASSUME NEW j \in JobIds, Say(j) PROVE JobTyped' /\ Unborn'
  <2>1. j \in 1..created /\ UNCHANGED <<created, present, pc, cur>>
    BY <1>10 DEF Say, JobTyped
  <2>2. work' \in [JobIds -> Work] /\ \A k \in JobIds \ {j} : work'[k] = work[k]
    <3>1. work[j] \in Work /\ work[j].msgs < MaxMessages
      BY <1>10 DEF Say, JobTyped
    <3>2. [work[j] EXCEPT !.msgs = @ + 1] \in Work
      BY <3>1, JobsAssumption DEF Work
    <3>3. work' = [work EXCEPT ![j] = [work[j] EXCEPT !.msgs = @ + 1]]
      BY <1>10 DEF Say, JobTyped
    <3>4. QED
      BY <3>2, <3>3 DEF JobTyped
  <2>3. status' \in [JobIds -> Statuses] /\ \A k \in JobIds \ {j} : status'[k] = status[k]
    BY <1>10 DEF Say, JobTyped, Statuses
  <2>4. QED
    BY <1>0, <1>1, <1>10, <2>1, <2>2, <2>3 DEF Say, JobTyped
<1>11. ASSUME NEW j \in JobIds, Cancel(j) PROVE JobTyped' /\ Unborn'
  <2>1. j \in 1..created /\ UNCHANGED <<created, present, pc, cur, work>>
    BY <1>11 DEF Cancel, JobTyped
  <2>2. status' \in [JobIds -> Statuses] /\ \A k \in JobIds \ {j} : status'[k] = status[k]
    BY <1>11 DEF Cancel, JobTyped, Statuses
  <2>3. QED
    BY <1>0, <1>1, <1>11, <2>1, <2>2 DEF Cancel, JobTyped
<1>12. ASSUME NEW j \in JobIds, Delete(j) PROVE JobTyped' /\ Unborn'
  <2>1. j \in 1..created /\ UNCHANGED <<created, status, work, pc, cur>>
        /\ present' \subseteq present
    BY <1>12 DEF Delete, JobTyped
  <2>2. disk' \in [JobIds -> Files] /\ \A k \in JobIds \ {j} : disk'[k] = disk[k]
    BY <1>12, StoreStores DEF Delete, Files
  <2>3. QED
    BY <1>0, <2>1, <2>2 DEF JobTyped, Unborn
<1>13. CASE Restart
  <2>1. UNCHANGED <<created, disk>> /\ pc' = "look" /\ cur' = NoJob
        /\ present' = {j \in JobIds : disk[j] # NoFile}
    BY <1>13 DEF Restart
  <2>2. status' \in [JobIds -> Statuses]
    BY <1>13, LoadedTyped DEF Restart, JobTyped
  <2>3. work' \in [JobIds -> Work]
    BY <1>13, LoadedTyped DEF Restart, JobTyped
  <2>4. present' \subseteq 1..created
    BY <1>0, <2>1 DEF Unborn, JobIds
  <2>5. \A j \in JobIds : j > created => status'[j] = status[j] /\ work'[j] = work[j]
    BY <1>13 DEF Restart, Unborn
  <2>6. QED
    BY <2>1, <2>2, <2>3, <2>4, <2>5 DEF JobTyped, Unborn, Outside, Inside
<1>14. CASE UNCHANGED vars
  BY <1>14 DEF vars, JobTyped, Unborn
<1>15. QED
  BY <1>2, <1>3, <1>4, <1>5, <1>6, <1>7, <1>8, <1>9, <1>10, <1>11, <1>12, <1>13, <1>14
     DEF JobsNext, Runner, User, Quiet

-----------------------------------------------------------------------------
(* A job is running only while it is run *)

\* Every step keeps the connection between status, runner and context.
LEMMA StepRunning ==
    JobTyped /\ Unborn /\ RunningIsRun /\ [JobsNext]_vars => RunningIsRun'
<1> SUFFICES ASSUME JobTyped, Unborn, RunningIsRun, [JobsNext]_vars PROVE RunningIsRun'
  OBVIOUS
<1>0. present \subseteq JobIds
  BY JobsAssumption DEF JobTyped, JobIds
<1>1. CASE Quiet
  BY <1>1 DEF Quiet, Look, WakeUp, Prompt, StepFails, ToolCall, NextCall, EndStep, Error,
              RunningIsRun, Working, Inside, runVars
<1>2. CASE Tool
  <2>1. /\ pc \in Inside /\ pc' \in Inside
        /\ UNCHANGED <<present, cur, stopped>>
        /\ \A j \in JobIds : status'[j] = "running" => status[j] = "running"
    BY <1>2, ToolStep DEF JobTyped, Inside
  <2>2. QED
    BY <1>0, <2>1 DEF RunningIsRun, Working
<1>3. CASE Claim
  BY <1>0, <1>3 DEF Claim, Queued, RunningIsRun, Working, Inside, JobTyped
<1>4. CASE Head
  BY <1>0, <1>4 DEF Head, SetStatus, RunningIsRun, Working, Inside, JobTyped, runVars
<1>5. CASE NoToolCall \/ SaveStep
  BY <1>0, <1>5 DEF NoToolCall, SaveStep, SetStatus, RunningIsRun, Working, Inside, JobTyped,
                    runVars
<1>6. CASE Fail
  <2>1. /\ UNCHANGED <<present, cur, stopped>> /\ pc \in Inside
        /\ \A j \in JobIds : status'[j] = "running" => status[j] = "running"
        /\ \/ pc' \in Inside
           \/ pc' = "look" /\ status' = [status EXCEPT ![cur] = "waiting"]
    BY <1>6 DEF Fail, SetStatus, JobTyped, Inside
  <2>2. QED
    BY <1>0, <2>1 DEF RunningIsRun, Working, JobTyped
<1>7. CASE Create
  <2>1. created + 1 \in JobIds /\ status[created + 1] = "queued"
    BY <1>7, JobsAssumption DEF Create, JobIds, JobTyped, Unborn
  <2>2. QED
    BY <1>7, <2>1 DEF Create, RunningIsRun, Working, runVars
<1>8. ASSUME NEW j \in JobIds, Say(j) \/ Cancel(j) \/ Delete(j) PROVE RunningIsRun'
  <2>1. CASE Say(j)
    BY <1>0, <2>1 DEF Say, RunningIsRun, Working, JobTyped, runVars
  <2>2. CASE Cancel(j) \/ Delete(j)
    <3>1. /\ UNCHANGED <<pc, cur>> /\ j \in present /\ (present' \subseteq present)
          /\ stopped' => stopped \/ status[j] = "running"
          /\ \A k \in JobIds \ {j} : status'[k] = status[k]
          /\ j \in present' => status'[j] = "cancelled"
      BY <2>2 DEF Cancel, Delete, StopRun, JobTyped
    <3>2. QED
      BY <1>0, <3>1 DEF RunningIsRun, Working
  <2>3. QED
    BY <1>8, <2>1, <2>2
<1>9. CASE Restart
  BY <1>9, LoadedTyped DEF Restart, JobTyped, RunningIsRun
<1>10. CASE UNCHANGED vars
  BY <1>10 DEF vars, RunningIsRun, Working
<1>11. QED
  BY <1>1, <1>2, <1>3, <1>4, <1>5, <1>6, <1>7, <1>8, <1>9, <1>10
     DEF JobsNext, Runner, User, Quiet

-----------------------------------------------------------------------------
(* Storage *)

\* Where the runner has saved every change it made to its job.
Clean == {"head", "step", "call", "error", "fail"}

\* The invariant: besides the two properties, the job the runner executes
\* is stored as it is at these places. From there a stopped run may return.
Stored ==
    /\ IdleJobsAreStored
    /\ DeletedStaysDeleted
    /\ pc \in Clean /\ cur \in present \ stale => disk[cur] = Snapshot(cur)

\* Every step keeps the files in line with the jobs.
LEMMA StepStored ==
    JobTyped /\ Unborn /\ RunningIsRun /\ Stored /\ [JobsNext]_vars => Stored'
<1> SUFFICES ASSUME JobTyped, Unborn, RunningIsRun, Stored, [JobsNext]_vars PROVE Stored'
  OBVIOUS
<1>0. /\ JobTyped' /\ (present \subseteq JobIds) /\ (present' \subseteq JobIds)
      /\ pc \in Inside \cup {"claim"} => cur \in JobIds
      /\ RunningIsRun'
  BY StepJobTyped, StepRunning, JobsAssumption DEF JobTyped, JobIds
\* A job that is stored as it is and not running is stored.
<1>1. ASSUME NEW j \in present', disk'[j] = Snapshot(j)', status'[j] # "running"
      PROVE  disk'[j] # NoFile /\ Loaded(disk'[j]) = Snapshot(j)'
  <2>1. Snapshot(j)' # NoFile
    BY <1>0, <1>1 DEF Snapshot, NoFile, JobTyped
  <2>2. Loaded(Snapshot(j)') = Snapshot(j)'
    BY <1>1 DEF Snapshot, Loaded
  <2>3. QED
    BY <1>1, <2>1, <2>2
\* A step that saves job j, and leaves the other jobs alone.
<1>2. ASSUME NEW j \in JobIds, SaveLocked(j),
             present' \in {present, present \cup {j}},
             \A k \in JobIds \ {j} : status'[k] = status[k] /\ work'[k] = work[k],
             \A k \in JobIds \ {j} : Working(k) => Working(k)',
             pc' \in Clean => cur' = j \/ (pc \in Clean /\ cur' = cur)
      PROVE  Stored'
  <2>1. /\ \A k \in JobIds \ {j} : disk'[k] = disk[k] /\ (k \in stale' <=> k \in stale)
        /\ j \notin present' \cup stale' => disk'[j] = disk[j] /\ j \notin stale
        /\ j \in present' \ stale' => disk'[j] = Snapshot(j)'
    BY <1>0, <1>2, SaveStores DEF JobTyped, Snapshot, files
  <2>2. \A k \in JobIds \ {j} : Snapshot(k)' = Snapshot(k)
    BY <1>2 DEF Snapshot
  <2>3. DeletedStaysDeleted'
    BY <1>2, <2>1 DEF Stored, DeletedStaysDeleted
  <2>4. IdleJobsAreStored'
    <3>1. SUFFICES ASSUME NEW k \in present' \ stale', ~Working(k)'
                   PROVE  disk'[k] # NoFile /\ Loaded(disk'[k]) = Snapshot(k)'
      BY DEF IdleJobsAreStored
    <3>2. CASE k = j
      BY <1>0, <1>1, <2>1, <3>1, <3>2 DEF RunningIsRun
    <3>3. CASE k # j
      BY <1>0, <1>2, <2>1, <2>2, <3>1, <3>3 DEF Stored, IdleJobsAreStored
    <3>4. QED
      BY <3>2, <3>3
  <2>5. pc' \in Clean /\ cur' \in present' \ stale' => disk'[cur'] = Snapshot(cur)'
    <3>1. SUFFICES ASSUME pc' \in Clean, cur' \in present' \ stale'
                   PROVE  disk'[cur'] = Snapshot(cur)'
      OBVIOUS
    <3>2. CASE cur' = j
      BY <2>1, <3>1, <3>2 DEF Snapshot
    <3>3. CASE cur' # j
      <4>1. pc \in Clean /\ cur' = cur /\ cur \in present \ stale /\ cur \in JobIds
        BY <1>0, <1>2, <2>1, <3>1, <3>3
      <4>2. QED
        BY <2>1, <2>2, <3>3, <4>1 DEF Stored, Snapshot
    <3>4. QED
      BY <3>2, <3>3
  <2>6. QED
    BY <2>3, <2>4, <2>5 DEF Stored
\* A step that changes no job and no file and does not end a run.
<1>3. ASSUME UNCHANGED <<present, status, work, disk, stale>>,
             \A k \in JobIds : Working(k) => Working(k)',
             pc' \in Clean => pc \in Clean /\ cur' = cur
      PROVE  Stored'
  <2>1. \A k \in JobIds : Snapshot(k)' = Snapshot(k)
    BY <1>3 DEF Snapshot
  <2>2. QED
    BY <1>0, <1>3, <2>1 DEF Stored, IdleJobsAreStored, DeletedStaysDeleted, Snapshot
\* A run that ends while its job is stored.
<1>4. ASSUME UNCHANGED <<present, status, work, disk, stale, cur>>,
             pc \in Clean, pc' = "look",
             stopped \/ status[cur] # "running"
      PROVE  Stored'
  <2>1. \A k \in JobIds : Snapshot(k)' = Snapshot(k)
    BY <1>4 DEF Snapshot
  <2>2. cur \in present \ stale => disk'[cur] = Snapshot(cur)' /\ status'[cur] # "running"
    BY <1>0, <1>4, <2>1 DEF Stored, RunningIsRun
  <2>3. IdleJobsAreStored'
    <3>1. SUFFICES ASSUME NEW k \in present' \ stale'
                   PROVE  disk'[k] # NoFile /\ Loaded(disk'[k]) = Snapshot(k)'
      BY DEF IdleJobsAreStored
    <3>2. CASE k = cur
      BY <1>1, <1>4, <2>2, <3>1, <3>2
    <3>3. CASE k # cur
      BY <1>0, <1>4, <2>1, <3>1, <3>3 DEF Stored, IdleJobsAreStored, Working
    <3>4. QED
      BY <3>2, <3>3
  <2>4. DeletedStaysDeleted'
    BY <1>4 DEF Stored, DeletedStaysDeleted
  <2>5. QED
    BY <1>4, <2>3, <2>4 DEF Stored, Clean
\* A step that changes the runner's own job without saving it.
<1>5. ASSUME UNCHANGED <<present, disk, stale, cur>>, cur \in JobIds,
             pc \in Inside, pc' \in Inside \ Clean,
             \A k \in JobIds \ {cur} : status'[k] = status[k] /\ work'[k] = work[k]
      PROVE  Stored'
  <2>1. \A k \in JobIds \ {cur} : Snapshot(k)' = Snapshot(k)
    BY <1>5 DEF Snapshot
  <2>2. \A k \in JobIds \ {cur} : ~Working(k)
    BY <1>5 DEF Working
  <2>3. IdleJobsAreStored'
    BY <1>0, <1>5, <2>1, <2>2 DEF Stored, IdleJobsAreStored, Working
  <2>4. DeletedStaysDeleted'
    BY <1>5 DEF Stored, DeletedStaysDeleted
  <2>5. QED
    BY <1>5, <2>3, <2>4 DEF Stored
<1>6. CASE Look \/ WakeUp
  BY <1>3, <1>6 DEF Look, WakeUp, Working, Inside, Clean, files
<1>7. CASE Prompt \/ StepFails
  BY <1>3, <1>7 DEF Prompt, StepFails, Working, Inside, Clean, files
<1>8. CASE ToolCall \/ NextCall \/ EndStep
  BY <1>3, <1>8 DEF ToolCall, NextCall, EndStep, Working, Inside, Clean, files
<1>9. CASE Error
  <2>1. CASE stopped
    BY <1>4, <1>9, <2>1 DEF Error, Clean, files
  <2>2. CASE ~stopped
    BY <1>3, <1>9, <2>2 DEF Error, Working, Inside, Clean, files
  <2>3. QED
    BY <2>1, <2>2
<1>10. CASE Tool
  <2>1. PICK w \in Work : work' = [work EXCEPT ![cur] = w]
    BY <1>10, ToolStep
  <2>2. /\ pc \in Inside /\ pc' \in Inside \ Clean /\ cur \in JobIds
        /\ UNCHANGED <<present, disk, stale, cur>>
        /\ \A k \in JobIds \ {cur} : status'[k] = status[k]
    BY <1>0, <1>10, ToolStep DEF JobTyped, Inside, Clean, files
  <2>3. QED
    BY <1>5, <2>1, <2>2 DEF JobTyped
<1>11. CASE NoToolCall
  BY <1>0, <1>5, <1>11 DEF NoToolCall, SetStatus, Inside, Clean, JobTyped, files
<1>12. CASE Claim
  <2>1. CASE cur \in Queued
    <3>1. /\ cur \in JobIds /\ SaveLocked(cur) /\ cur' = cur /\ present' = present
          /\ \A k \in JobIds \ {cur} : status'[k] = status[k] /\ work'[k] = work[k]
          /\ \A k \in JobIds : ~Working(k)
      BY <1>0, <1>12, <2>1 DEF Claim, Working, Inside, JobTyped
    <3>2. QED
      BY <1>2, <3>1
  <2>2. CASE cur \notin Queued
    BY <1>3, <1>12, <2>2 DEF Claim, Working, Inside, Clean, files
  <2>3. QED
    BY <2>1, <2>2
<1>13. CASE Head
  <2>1. CASE (stopped \/ status[cur] # "running") /\ pc' = "look" /\ UNCHANGED <<status, disk>>
    BY <1>4, <1>13, <2>1 DEF Head, Clean, files
  <2>2. CASE SetStatus("waiting") /\ SaveLocked(cur) /\ pc' = "look"
    <3>1. /\ cur \in JobIds /\ cur' = cur /\ present' = present
          /\ \A k \in JobIds \ {cur} : status'[k] = status[k] /\ work'[k] = work[k]
          /\ \A k \in JobIds \ {cur} : ~Working(k)
          /\ pc' \notin Clean
      BY <1>0, <1>13, <2>2 DEF Head, SetStatus, Working, Inside, Clean, JobTyped
    <3>2. QED
      BY <1>2, <2>2, <3>1
  <2>3. CASE pc' = "step" /\ UNCHANGED <<status, disk>>
    BY <1>3, <1>13, <2>3 DEF Head, Working, Inside, Clean, files
  <2>4. QED
    BY <1>13, <2>1, <2>2, <2>3 DEF Head, files
<1>14. CASE SaveStep \/ Fail
  <2>1. /\ cur \in JobIds /\ cur' = cur /\ present' = present /\ SaveLocked(cur)
        /\ work' = work
        /\ \A k \in JobIds \ {cur} : ~Working(k)
    BY <1>0, <1>14 DEF SaveStep, Fail, Working, Inside
  <2>2. \A k \in JobIds \ {cur} : status'[k] = status[k]
    BY <1>14, <2>1 DEF SaveStep, Fail, SetStatus, JobTyped
  <2>3. QED
    BY <1>2, <2>1, <2>2
<1>15. CASE Create
  <2>1. created + 1 \in JobIds
    BY <1>15, JobsAssumption DEF Create, JobIds, JobTyped
  <2>2. /\ UNCHANGED <<status, work, pc, cur>> /\ SaveLocked(created + 1)
        /\ present' = present \cup {created + 1}
    BY <1>15 DEF Create
  <2>3. QED
    BY <1>2, <2>1, <2>2 DEF Working
<1>16. ASSUME NEW j \in JobIds, Say(j) \/ Cancel(j) PROVE Stored'
  <2>1. /\ UNCHANGED <<pc, cur, present>> /\ SaveLocked(j)
        /\ \A k \in JobIds \ {j} : status'[k] = status[k] /\ work'[k] = work[k]
    BY <1>16 DEF Say, Cancel, JobTyped
  <2>2. QED
    BY <1>2, <2>1 DEF Working
<1>17. ASSUME NEW j \in JobIds, Delete(j) PROVE Stored'
  <2>1. /\ UNCHANGED <<pc, cur, status, work>> /\ present' = present \ {j}
        /\ Store(j, NoFile)
    BY <1>17 DEF Delete
  <2>2. \A k \in JobIds : Snapshot(k)' = Snapshot(k) /\ Working(k)' = Working(k)
    BY <2>1 DEF Snapshot, Working
  <2>3. /\ disk'[j] = NoFile \/ j \in stale'
        /\ \A k \in JobIds \ {j} : disk'[k] = disk[k] /\ (k \in stale' <=> k \in stale)
    BY <2>1, StoreStores DEF Files
  <2>4. DeletedStaysDeleted'
    BY <2>1, <2>3 DEF Stored, DeletedStaysDeleted
  <2>5. IdleJobsAreStored'
    BY <1>0, <2>1, <2>2, <2>3 DEF Stored, IdleJobsAreStored
  <2>6. pc' \in Clean /\ cur' \in present' \ stale' => disk'[cur'] = Snapshot(cur)'
    <3>1. SUFFICES ASSUME pc' \in Clean, cur' \in present' \ stale' PROVE disk'[cur'] = Snapshot(cur)'
      OBVIOUS
    <3>2. cur' = cur /\ cur \in JobIds \ {j} /\ disk[cur] = Snapshot(cur)
      BY <1>0, <2>1, <2>3, <3>1 DEF Stored
    <3>3. QED
      BY <2>2, <2>3, <3>2 DEF Snapshot
  <2>7. QED
    BY <2>4, <2>5, <2>6 DEF Stored
<1>18. CASE Restart
  <2>1. disk' = disk /\ present' = {j \in JobIds : disk[j] # NoFile} /\ pc' = "look"
    BY <1>18 DEF Restart
  <2>2. ASSUME NEW j \in present' PROVE Loaded(disk'[j]) = Snapshot(j)'
    <3>1. disk[j] \in Files /\ disk[j] # NoFile /\ j \in JobIds
      BY <2>1 DEF JobTyped
    <3>2. status'[j] = Loaded(disk[j]).status /\ work'[j] = disk[j].work
      BY <1>18, <3>1 DEF Restart
    <3>3. QED
      BY <2>1, <3>1, <3>2, LoadedTyped DEF Snapshot
  <2>3. QED
    BY <2>1, <2>2 DEF Stored, IdleJobsAreStored, DeletedStaysDeleted, Clean
<1>19. CASE UNCHANGED vars
  BY <1>3, <1>19 DEF vars, Working
<1>20. QED
  BY <1>6, <1>7, <1>8, <1>9, <1>10, <1>11, <1>12, <1>13, <1>14, <1>15, <1>16, <1>17, <1>18, <1>19
     DEF JobsNext, Runner, User

-----------------------------------------------------------------------------
(* A cancelled job stays cancelled *)

\* Where the runner may still give its job a status.
Deciding == {"step", "call", "tools", "workers", "error", "fail"}

\* There a run that is not stopped is that of a running job, and whoever
\* cancels it stops it.
DecidesRunning ==
    pc \in Deciding /\ ~stopped /\ cur \in present => status[cur] = "running"

\* A cancellation that could be written is what a restart finds.
CancelIsStored ==
    \A j \in present \ stale :
        status[j] = "cancelled" => disk[j] # NoFile /\ disk[j].status = "cancelled"

LEMMA StepDecides ==
    JobTyped /\ Unborn /\ RunningIsRun /\ DecidesRunning /\ [JobsNext]_vars => DecidesRunning'
<1> SUFFICES ASSUME JobTyped, Unborn, RunningIsRun, DecidesRunning, [JobsNext]_vars
             PROVE  DecidesRunning'
  OBVIOUS
<1>0. pc \in Inside \cup {"claim"} => cur \in JobIds /\ cur \in 1..created
  BY JobsAssumption DEF JobTyped, JobIds
<1>1. CASE Look \/ WakeUp \/ Claim \/ Head \/ NoToolCall \/ EndStep \/ SaveStep \/ Fail
  BY <1>1 DEF Look, WakeUp, Claim, Head, NoToolCall, EndStep, SaveStep, Fail, DecidesRunning,
              Deciding, runVars
<1>2. CASE Prompt \/ StepFails \/ ToolCall \/ NextCall \/ Error
  BY <1>2 DEF Prompt, StepFails, ToolCall, NextCall, Error, DecidesRunning, Deciding, runVars
<1>3. CASE Tool
  <2>1. /\ pc \in {"tools", "workers"} /\ pc' \in {"more", "workers"}
        /\ UNCHANGED <<present, cur, stopped>>
        /\ pc' = "workers" => UNCHANGED status
    BY <1>3, ToolStep
  <2>2. QED
    BY <2>1 DEF DecidesRunning, Deciding
<1>4. CASE Create
  BY <1>0, <1>4, JobsAssumption DEF Create, DecidesRunning, Deciding, Inside, JobTyped, runVars
<1>5. ASSUME NEW j \in JobIds, Say(j) PROVE DecidesRunning'
  BY <1>0, <1>5 DEF Say, DecidesRunning, Deciding, Inside, JobTyped, runVars
<1>6. ASSUME NEW j \in JobIds, Cancel(j) \/ Delete(j) PROVE DecidesRunning'
  <2>1. /\ UNCHANGED <<pc, cur>> /\ (present' \subseteq present)
        /\ ~stopped' => ~stopped /\ status[j] # "running"
        /\ \A k \in JobIds \ {j} : status'[k] = status[k]
    BY <1>6 DEF Cancel, Delete, StopRun, JobTyped
  <2>2. SUFFICES ASSUME pc \in Deciding, ~stopped', cur \in present' PROVE status'[cur] = "running"
    BY <2>1 DEF DecidesRunning
  <2>3. cur \in JobIds /\ status[cur] = "running"
    BY <1>0, <2>1, <2>2 DEF DecidesRunning, Deciding, Inside
  <2>4. cur # j
    BY <2>1, <2>2, <2>3
  <2>5. QED
    BY <2>1, <2>3, <2>4
<1>7. CASE Restart
  BY <1>7 DEF Restart, DecidesRunning, Deciding
<1>8. CASE UNCHANGED vars
  BY <1>8 DEF vars, DecidesRunning
<1>9. QED
  BY <1>1, <1>2, <1>3, <1>4, <1>5, <1>6, <1>7, <1>8 DEF JobsNext, Runner, User

LEMMA StepCancelStored ==
    JobTyped /\ Unborn /\ CancelIsStored /\ [JobsNext]_vars => CancelIsStored'
<1> SUFFICES ASSUME JobTyped, Unborn, CancelIsStored, [JobsNext]_vars PROVE CancelIsStored'
  OBVIOUS
<1>0. /\ JobTyped' /\ (present \subseteq JobIds) /\ (present' \subseteq JobIds)
      /\ pc \in Inside \cup {"claim"} => cur \in JobIds
  BY StepJobTyped, JobsAssumption DEF JobTyped, JobIds
\* A step that saves job j, and leaves the other jobs alone.
<1>1. ASSUME NEW j \in JobIds, SaveLocked(j),
             present' \in {present, present \cup {j}},
             \A k \in JobIds \ {j} : status'[k] = status[k]
      PROVE  CancelIsStored'
  <2>1. /\ \A k \in JobIds \ {j} : disk'[k] = disk[k] /\ (k \in stale' <=> k \in stale)
        /\ j \in present' \ stale' => disk'[j] = [status |-> status'[j], work |-> work'[j]]
    BY <1>0, <1>1, SaveStores DEF JobTyped
  <2>2. SUFFICES ASSUME NEW k \in present' \ stale', status'[k] = "cancelled"
                 PROVE  disk'[k] # NoFile /\ disk'[k].status = "cancelled"
    BY DEF CancelIsStored
  <2>3. CASE k = j
    <3>1. disk'[k] = [status |-> "cancelled", work |-> work'[k]]
      BY <2>1, <2>2, <2>3
    <3>2. disk'[k].status = "cancelled" /\ NoFile.status = "no file"
      BY <3>1 DEF NoFile
    <3>3. QED
      BY <3>2
  <2>4. CASE k # j
    BY <1>0, <1>1, <2>1, <2>2, <2>4 DEF CancelIsStored
  <2>5. QED
    BY <2>3, <2>4
\* A step that saves nothing, and cancels nothing.
<1>2. ASSUME UNCHANGED <<present, disk, stale>>,
             \A k \in JobIds : status'[k] = "cancelled" => status[k] = "cancelled"
      PROVE  CancelIsStored'
  BY <1>0, <1>2 DEF CancelIsStored
<1>3. CASE Quiet
  BY <1>2, <1>3 DEF Quiet, Look, WakeUp, Prompt, StepFails, ToolCall, NextCall, EndStep, Error,
                    files
<1>4. CASE Tool
  BY <1>2, <1>4, ToolStep DEF JobTyped, files
<1>5. CASE NoToolCall
  BY <1>2, <1>5 DEF NoToolCall, SetStatus, JobTyped, files
<1>6. CASE Claim \/ Head
  <2>1. CASE UNCHANGED <<status, disk, stale>>
    BY <1>2, <1>6, <2>1 DEF Claim, Head
  <2>2. CASE SaveLocked(cur) /\ status' \in {[status EXCEPT ![cur] = s] : s \in Statuses}
    <3>1. cur \in JobIds /\ present' = present
      BY <1>0, <1>6 DEF Claim, Head, Inside
    <3>2. QED
      BY <1>1, <2>2, <3>1 DEF JobTyped
  <2>3. QED
    BY <1>6, <2>1, <2>2 DEF Claim, Head, SetStatus, Statuses, files
<1>7. CASE SaveStep \/ Fail
  <2>1. cur \in JobIds /\ present' = present /\ SaveLocked(cur)
    BY <1>0, <1>7 DEF SaveStep, Fail, Inside
  <2>2. \A k \in JobIds \ {cur} : status'[k] = status[k]
    BY <1>7, <2>1 DEF SaveStep, Fail, SetStatus, JobTyped
  <2>3. QED
    BY <1>1, <2>1, <2>2
<1>8. CASE Create
  <2>1. created + 1 \in JobIds
    BY <1>8, JobsAssumption DEF Create, JobIds, JobTyped
  <2>2. QED
    BY <1>1, <1>8, <2>1 DEF Create
<1>9. ASSUME NEW j \in JobIds, Say(j) \/ Cancel(j) PROVE CancelIsStored'
  <2>1. /\ present' = present /\ SaveLocked(j)
        /\ \A k \in JobIds \ {j} : status'[k] = status[k]
    BY <1>9 DEF Say, Cancel, JobTyped
  <2>2. QED
    BY <1>1, <2>1
<1>10. ASSUME NEW j \in JobIds, Delete(j) PROVE CancelIsStored'
  <2>1. /\ present' = present \ {j} /\ status' = status
        /\ \A k \in JobIds \ {j} : disk'[k] = disk[k] /\ (k \in stale' <=> k \in stale)
    BY <1>10, StoreStores DEF Delete, Files
  <2>2. QED
    BY <1>0, <2>1 DEF CancelIsStored
<1>11. CASE Restart
  <2>1. SUFFICES ASSUME NEW j \in present', status'[j] = "cancelled"
                 PROVE  disk'[j] # NoFile /\ disk'[j].status = "cancelled"
    BY DEF CancelIsStored
  <2>2. /\ disk' = disk /\ j \in JobIds /\ disk[j] # NoFile
        /\ Loaded(disk[j]).status = "cancelled"
    BY <1>11, <2>1 DEF Restart
  <2>3. disk[j] \in Files
    BY <2>2 DEF JobTyped
  <2>4. QED
    BY <2>2, <2>3 DEF Loaded, Files
<1>12. CASE UNCHANGED vars
  BY <1>2, <1>12 DEF vars
<1>13. QED
  BY <1>3, <1>4, <1>5, <1>6, <1>7, <1>8, <1>9, <1>10, <1>11, <1>12
     DEF JobsNext, Runner, User, Quiet

-----------------------------------------------------------------------------
(* The theorems *)

\* The inductive invariant, without the files.
JobInv == JobTyped /\ Unborn /\ RunningIsRun

\* It holds of every reachable state of the runner (Jobs.Run and the users'
\* operations, in any order and over any number of restarts).
THEOREM JobsInvariant == JobsSpec => []JobInv
<1>1. JobsInit => JobInv
  <2> SUFFICES ASSUME JobsInit PROVE JobInv
    OBVIOUS
  <2>1. NewWork \in Work
    BY JobsAssumption DEF NewWork, Work
  <2>2. JobTyped
    BY <2>1, JobsAssumption DEF JobsInit, JobTyped, Statuses, Files, Outside, Inside
  <2>3. Unborn /\ RunningIsRun
    BY DEF JobsInit, Unborn, RunningIsRun
  <2>4. QED
    BY <2>2, <2>3 DEF JobInv
<1>2. JobInv /\ [JobsNext]_vars => JobInv'
  BY StepJobTyped, StepRunning DEF JobInv
<1>3. QED
  BY <1>1, <1>2, PTL DEF JobsSpec

\* A job has the status "running" only while the runner executes it under a
\* context that is not cancelled (Jobs.Cancel, Jobs.Say, Jobs.Delete,
\* Jobs.run, LoadJobs).
THEOREM NobodyRunsAlone == JobsSpec => []RunningIsRun
<1>1. JobInv => RunningIsRun
  BY DEF JobInv
<1>2. QED
  BY <1>1, JobsInvariant, PTL

\* The files follow the jobs, whatever writes fail (Jobs.saveLocked).
THEOREM FilesAreKept == JobsSpec => []Stored
<1>1. JobsInit => Stored
  BY DEF JobsInit, Stored, IdleJobsAreStored, DeletedStaysDeleted
<1>2. JobInv /\ Stored /\ [JobsNext]_vars => Stored'
  BY StepStored DEF JobInv
<1>3. QED
  BY <1>1, <1>2, JobsInvariant, PTL DEF JobsSpec

\* A crash loses nothing of a job that the runner does not execute and whose
\* last write succeeded (Jobs.saveLocked, Jobs.run, LoadJobs).
THEOREM CrashLosesNoIdleJob == JobsSpec => []IdleJobsAreStored
<1>1. Stored => IdleJobsAreStored
  BY DEF Stored
<1>2. QED
  BY <1>1, FilesAreKept, PTL

\* A deleted job whose file was removed never comes back, although the
\* runner may still execute it and save it (Jobs.Delete, Jobs.saveLocked).
THEOREM DeletionIsFinal == JobsSpec => []DeletedStaysDeleted
<1>1. Stored => DeletedStaysDeleted
  BY DEF Stored
<1>2. QED
  BY <1>1, FilesAreKept, PTL

\* The runner gives a status only to a job that it still runs, or whose run
\* was stopped, and the files know every cancellation that could be written.
THEOREM CancelsAreKnown == JobsSpec => [](DecidesRunning /\ CancelIsStored)
<1>1. JobsInit => DecidesRunning /\ CancelIsStored
  BY DEF JobsInit, DecidesRunning, Deciding, CancelIsStored
<1>2. JobInv /\ DecidesRunning /\ CancelIsStored /\ [JobsNext]_vars
          => DecidesRunning' /\ CancelIsStored'
  BY StepDecides, StepCancelStored DEF JobInv
<1>3. QED
  BY <1>1, <1>2, JobsInvariant, PTL DEF JobsSpec

\* A cancelled job is not run again until the user speaks, even when it was
\* chosen before and whatever crashes. Excepted are a step still under way and
\* a cancellation that could not be written (Jobs.Cancel, Jobs.next, Jobs.run,
\* LoadJobs).
THEOREM CancelledStaysCancelled == JobsSpec => CancelLasts
<1> DEFINE Keeps == \A j \in present \ stale :
          status[j] = "cancelled" /\ ~Interrupted(j)
              => j \notin present' \/ status'[j] = "cancelled" \/ Say(j)
<1>1. JobInv /\ DecidesRunning /\ CancelIsStored /\ [JobsNext]_vars => [Keeps]_vars
  <2> SUFFICES ASSUME JobInv, DecidesRunning, CancelIsStored, JobsNext,
                      NEW j \in present \ stale, status[j] = "cancelled", ~Interrupted(j),
                      ~Say(j)
               PROVE  j \notin present' \/ status'[j] = "cancelled"
    OBVIOUS
  <2>0. /\ JobTyped /\ j \in JobIds
        /\ pc \in Inside \cup {"claim"} => cur \in JobIds
        /\ pc \in Deciding => cur # j
    BY JobsAssumption DEF JobInv, JobTyped, JobIds, DecidesRunning, Interrupted, Working,
                          Deciding, Inside
  <2>1. CASE Quiet \/ SaveStep \/ Create
    BY <2>1 DEF Quiet, Look, WakeUp, Prompt, StepFails, ToolCall, NextCall, EndStep, Error,
                SaveStep, Create
  <2>2. CASE Claim
    BY <2>0, <2>2 DEF Claim, Queued, JobTyped
  <2>3. CASE Head
    BY <2>0, <2>3 DEF Head, SetStatus, JobTyped
  <2>4. CASE NoToolCall \/ Fail
    BY <2>0, <2>4 DEF NoToolCall, Fail, SetStatus, JobTyped, Deciding
  <2>5. CASE Tool
    BY <2>0, <2>5, ToolStep DEF JobTyped, Deciding
  <2>6. ASSUME NEW k \in JobIds, Say(k) \/ Cancel(k) \/ Delete(k)
        PROVE  j \notin present' \/ status'[j] = "cancelled"
    BY <2>0, <2>6 DEF Say, Cancel, Delete, JobTyped
  <2>7. CASE Restart
    <3>1. disk[j] # NoFile /\ disk[j].status = "cancelled"
      BY DEF CancelIsStored
    <3>2. QED
      BY <2>0, <2>7, <3>1 DEF Restart, Loaded
  <2>8. QED
    BY <2>1, <2>2, <2>3, <2>4, <2>5, <2>6, <2>7 DEF JobsNext, Runner, User, Quiet
<1>2. QED
  BY <1>1, JobsInvariant, CancelsAreKnown, PTL DEF JobsSpec, CancelLasts
=============================================================================
