------------------------------- MODULE Jobs -------------------------------
(***************************************************************************)
(* Super Borg jobs: long tasks that one runner goroutine executes one at a *)
(* time, step by step, while users create, talk to, cancel and delete      *)
(* them. A step asks an orchestrator model what to do and executes its     *)
(* tool calls; the delegate tool lets worker models write documents in     *)
(* parallel. Jobs.mu is held only for the short accesses in between, and   *)
(* never while a model is asked. Jobs are stored one file each and loaded  *)
(* again after a restart.                                                  *)
(*                                                                         *)
(* Left out are texts, events and the step log. A task is the document it  *)
(* produces. Which tool a model calls is open, so a refused call (bad      *)
(* arguments, a repetition, a missing context document) and read_doc are   *)
(* one action without effect; so are the first of several answers without  *)
(* a tool call.                                                            *)
(***************************************************************************)
EXTENDS Naturals

CONSTANTS
    MaxJobs,        \* bound on jobs; their ids are their order of creation
    Docs,           \* document names
    MaxMessages,    \* bound on the user messages of a job
    MaxSteps,       \* jobMaxStepsPerRun
    MaxErrors,      \* jobMaxErrors
    MaxCrashes,     \* bound on controller restarts
    DiskMayFail     \* whether writing or removing a job file may fail

ASSUME JobsAssumption ==
    /\ MaxJobs \in Nat /\ MaxMessages \in Nat /\ MaxCrashes \in Nat
    /\ MaxSteps \in Nat \ {0} /\ MaxErrors \in Nat \ {0}
    /\ DiskMayFail \in BOOLEAN

VARIABLES
    created,    \* jobs created so far
    present,    \* the jobs in Jobs.jobs
    status,     \* Job.Status; a deleted job keeps it while the runner holds it
    work,       \* the rest of a Job
    disk,       \* the job files
    stale,      \* history: jobs whose last write or removal of the file failed
    pc,         \* where the runner is
    cur,        \* the job the runner has chosen or executes
    stopped,    \* the context of the run was cancelled
    steps,      \* steps of this run
    failures,   \* errors in a row
    canPlan,    \* whether this step may plan
    pending,    \* documents workers are writing
    wake,       \* the wake channel holds a token
    crashes     \* restarts so far

vars == <<created, present, status, work, disk, stale, pc, cur, stopped, steps, failures,
          canPlan, pending, wake, crashes>>
runVars == <<stopped, steps, failures, canPlan, pending>>
files == <<disk, stale>>

JobIds == 1..MaxJobs
NoJob == 0
NoFile == [status |-> "no file"]

Statuses == {"queued", "running", "waiting", "done", "failed", "cancelled"}
Work == [msgs : 0..MaxMessages, docs : SUBSET Docs, todo : SUBSET Docs, done : SUBSET Docs,
         asked : BOOLEAN, plannedAt : 0..MaxMessages, result : SUBSET Docs]
NewWork == [msgs |-> 0, docs |-> {}, todo |-> {}, done |-> {}, asked |-> FALSE,
            plannedAt |-> 0, result |-> {}]
Files == [status : Statuses, work : Work] \cup {NoFile}

\* The runner outside and inside run; inside, it holds a pointer to job cur.
Outside == {"look", "sleep", "claim"}
Inside == {"head", "step", "call", "tools", "workers", "more", "save", "error", "fail"}
Working(j) == pc \in Inside /\ cur = j

JobsTypeOK ==
    /\ created \in 0..MaxJobs
    /\ present \in SUBSET JobIds
    /\ status \in [JobIds -> Statuses]
    /\ work \in [JobIds -> Work]
    /\ disk \in [JobIds -> Files]
    /\ stale \in SUBSET JobIds
    /\ pc \in Outside \cup Inside
    /\ cur \in JobIds \cup {NoJob}
    /\ stopped \in BOOLEAN /\ canPlan \in BOOLEAN /\ wake \in BOOLEAN
    /\ steps \in 0..MaxSteps
    /\ failures \in 0..MaxErrors
    /\ pending \in SUBSET Docs
    /\ crashes \in 0..MaxCrashes

JobsInit ==
    /\ created = 0 /\ present = {}
    /\ status = [j \in JobIds |-> "queued"]
    /\ work = [j \in JobIds |-> NewWork]
    /\ disk = [j \in JobIds |-> NoFile] /\ stale = {}
    /\ pc = "look" /\ cur = NoJob
    /\ stopped = FALSE /\ steps = 0 /\ failures = 0 /\ canPlan = FALSE /\ pending = {}
    /\ wake = FALSE
    /\ crashes = 0

-----------------------------------------------------------------------------
(* Storage *)

Snapshot(j) == [status |-> status[j], work |-> work[j]]

\* The file of job j becomes f, unless the disk fails.
Store(j, f) ==
    \/ disk' = [disk EXCEPT ![j] = f] /\ stale' = stale \ {j}
    \/ DiskMayFail /\ UNCHANGED disk /\ stale' = stale \cup {j}

\* Mutant: a job deleted meanwhile is written again.
SaveLockedAlways(j) == Store(j, [status |-> status'[j], work |-> work'[j]])

\* Errors are logged. A job deleted meanwhile is not written.
SaveLocked(j) ==
    \/ j \in present' /\ Store(j, [status |-> status'[j], work |-> work'[j]])
    \/ j \notin present' /\ UNCHANGED files

\* Mutant: a job is loaded as it was stored.
LoadedAsStored(f) == f

\* A job that was running is queued again.
Loaded(f) == IF f.status = "running" THEN [f EXCEPT !.status = "queued"] ELSE f

Restart ==
    /\ crashes < MaxCrashes
    /\ crashes' = crashes + 1
    /\ present' = {j \in JobIds : disk[j] # NoFile}
    /\ status' = [j \in JobIds |-> IF disk[j] = NoFile THEN status[j] ELSE Loaded(disk[j]).status]
    /\ work' = [j \in JobIds |-> IF disk[j] = NoFile THEN work[j] ELSE disk[j].work]
    /\ pc' = "look" /\ cur' = NoJob
    /\ stopped' = FALSE /\ steps' = 0 /\ failures' = 0 /\ canPlan' = FALSE /\ pending' = {}
    /\ wake' = FALSE /\ stale' = {}
    /\ UNCHANGED <<created, disk>>

-----------------------------------------------------------------------------
(* The users' operations *)

Create ==
    /\ created < MaxJobs
    /\ created' = created + 1
    /\ present' = present \cup {created + 1}
    /\ wake' = TRUE
    /\ UNCHANGED <<status, work, pc, cur, runVars, crashes>>
    /\ SaveLocked(created + 1)

\* Mutant: the runner is not woken.
SayWithoutPoke(j) ==
    /\ j \in present
    /\ work[j].msgs < MaxMessages
    /\ work' = [work EXCEPT ![j].msgs = @ + 1]
    /\ status' = [status EXCEPT ![j] = IF @ = "running" THEN @ ELSE "queued"]
    /\ UNCHANGED <<created, present, pc, cur, runVars, wake, crashes>>
    /\ SaveLocked(j)

Say(j) ==
    /\ j \in present
    /\ work[j].msgs < MaxMessages
    /\ work' = [work EXCEPT ![j].msgs = @ + 1]
    /\ status' = [status EXCEPT ![j] = IF @ = "running" THEN @ ELSE "queued"]
    /\ wake' = TRUE
    /\ UNCHANGED <<created, present, pc, cur, runVars, crashes>>
    /\ SaveLocked(j)

\* A running job's context is cancelled; there is one such context.
StopRun(j) == stopped' = (stopped \/ status[j] = "running")

Cancel(j) ==
    /\ j \in present
    /\ StopRun(j)
    /\ status' = [status EXCEPT ![j] = "cancelled"]
    /\ UNCHANGED <<created, present, work, pc, cur, steps, failures, canPlan, pending, wake,
                   crashes>>
    /\ SaveLocked(j)

Delete(j) ==
    /\ j \in present
    /\ StopRun(j)
    /\ present' = present \ {j}
    /\ Store(j, NoFile)
    /\ UNCHANGED <<created, status, work, pc, cur, steps, failures, canPlan, pending, wake,
                   crashes>>

-----------------------------------------------------------------------------
(* The runner: choosing a job *)

Queued == {j \in present : status[j] = "queued"}

\* The oldest queued job, or a wait for the wake channel.
Look ==
    /\ pc = "look"
    /\ \/ /\ \E j \in Queued : (\A k \in Queued : j <= k) /\ cur' = j
          /\ pc' = "claim"
       \/ /\ Queued = {}
          /\ pc' = "sleep" /\ UNCHANGED cur
    /\ UNCHANGED <<created, present, status, work, files, runVars, wake, crashes>>

WakeUp ==
    /\ pc = "sleep" /\ wake
    /\ wake' = FALSE
    /\ pc' = "look"
    /\ UNCHANGED <<created, present, status, work, files, cur, runVars, crashes>>

\* Mutant: the status is not looked at again.
ClaimUnchecked ==
    /\ pc = "claim"
    /\ UNCHANGED <<created, present, work, cur, canPlan, pending, wake, crashes>>
    /\ \/ /\ cur \in present
          /\ status' = [status EXCEPT ![cur] = "running"]
          /\ stopped' = FALSE /\ steps' = 0 /\ failures' = 0
          /\ pc' = "head"
          /\ SaveLocked(cur)
       \/ /\ cur \notin present
          /\ pc' = "look"
          /\ UNCHANGED <<status, stopped, steps, failures, files>>

\* The job may have been cancelled or deleted since it was chosen.
Claim ==
    /\ pc = "claim"
    /\ UNCHANGED <<created, present, work, cur, canPlan, pending, wake, crashes>>
    /\ \/ /\ cur \in Queued
          /\ status' = [status EXCEPT ![cur] = "running"]
          /\ stopped' = FALSE /\ steps' = 0 /\ failures' = 0
          /\ pc' = "head"
          /\ SaveLocked(cur)
       \/ /\ cur \notin Queued
          /\ pc' = "look"
          /\ UNCHANGED <<status, stopped, steps, failures, files>>

-----------------------------------------------------------------------------
(* The runner: executing a job *)

\* The runner sets the job's status to s, whatever it is now.
SetStatus(s) == status' = [status EXCEPT ![cur] = s]

Head ==
    /\ pc = "head"
    /\ UNCHANGED <<created, present, work, cur, runVars, wake, crashes>>
    /\ \/ /\ stopped \/ status[cur] # "running"
          /\ pc' = "look"
          /\ UNCHANGED <<status, files>>
       \/ /\ ~stopped /\ status[cur] = "running" /\ steps = MaxSteps
          /\ SetStatus("waiting") /\ SaveLocked(cur)
          /\ pc' = "look"
       \/ /\ ~stopped /\ status[cur] = "running" /\ steps < MaxSteps
          /\ pc' = "step"
          /\ UNCHANGED <<status, files>>

\* The prompt is made, with every message of the user so far.
Prompt ==
    /\ pc = "step"
    /\ canPlan' = (work[cur].todo = {} \/ work[cur].msgs > work[cur].plannedAt)
    /\ pc' = "call"
    /\ UNCHANGED <<created, present, status, work, files, cur, stopped, steps, failures, pending,
                   wake, crashes>>

\* The pool is no Super Borg pool, no node is ready, or the model call failed.
StepFails ==
    /\ pc \in {"step", "call"}
    /\ pc' = "error"
    /\ UNCHANGED <<created, present, status, work, files, cur, runVars, wake, crashes>>

\* The model makes no tool call, possibly once too often.
NoToolCall ==
    /\ pc = "call"
    /\ SetStatus("waiting") \/ UNCHANGED status
    /\ pc' = "save"
    /\ UNCHANGED <<created, present, work, files, cur, runVars, wake, crashes>>

ToolCall ==
    /\ pc = "call"
    /\ pc' = "tools"
    /\ UNCHANGED <<created, present, status, work, files, cur, runVars, wake, crashes>>

\* After a tool call, the next one unless the job is no longer running.
NextCall ==
    /\ pc = "more" /\ status[cur] = "running"
    /\ pc' = "tools"
    /\ UNCHANGED <<created, present, status, work, files, cur, runVars, wake, crashes>>

EndStep ==
    /\ pc = "more"
    /\ pc' = "save"
    /\ UNCHANGED <<created, present, status, work, files, cur, runVars, wake, crashes>>

\* Mutant: only the end of a run is saved, not every step.
StepUnsaved ==
    /\ pc = "save"
    /\ failures' = 0 /\ steps' = steps + 1
    /\ pc' = "head"
    /\ UNCHANGED <<created, present, status, work, files, cur, stopped, canPlan, pending, wake,
                   crashes>>

SaveStep ==
    /\ pc = "save"
    /\ failures' = 0 /\ steps' = steps + 1
    /\ pc' = "head"
    /\ UNCHANGED <<created, present, status, work, cur, stopped, canPlan, pending, wake, crashes>>
    /\ SaveLocked(cur)

\* A step that failed because the run was stopped ends the run.
Error ==
    /\ pc = "error"
    /\ pc' = IF stopped THEN "look" ELSE "fail"
    /\ UNCHANGED <<created, present, status, work, files, cur, runVars, wake, crashes>>

\* A wrong pool is the user's to correct; a missing node is waited for; any
\* other error counts.
Fail ==
    /\ pc = "fail"
    /\ \/ /\ SetStatus("waiting")
          /\ pc' = "look"
          /\ UNCHANGED <<steps, failures>>
       \/ /\ pc' = "head" /\ steps' = steps + 1
          /\ UNCHANGED <<status, failures>>
       \/ /\ pc' = "head" /\ steps' = steps + 1
          /\ failures' = failures + 1
          /\ IF failures' >= MaxErrors THEN SetStatus("failed") ELSE UNCHANGED status
    /\ UNCHANGED <<created, present, work, cur, stopped, canPlan, pending, wake, crashes>>
    /\ SaveLocked(cur)

-----------------------------------------------------------------------------
(* The tools *)

\* A document is written: its task is done, and a finish is to be checked
\* against the goal again.
PutDoc(w, d) ==
    [w EXCEPT !.docs = @ \cup {d}, !.todo = @ \ {d}, !.asked = FALSE,
              !.done = IF d \in w.todo THEN @ \cup {d} ELSE @]

\* A tool that changes the job's work to w.
ToolDoes(w) ==
    /\ work' = [work EXCEPT ![cur] = w]
    /\ pc' = "more"
    /\ UNCHANGED <<created, present, files, cur, runVars, wake, crashes>>

\* A new plan replaces the tasks not done yet.
PlanTasks ==
    /\ canPlan
    /\ \E tasks \in SUBSET Docs \ {{}} :
          ToolDoes([work[cur] EXCEPT !.todo = tasks \ work[cur].done,
                                     !.plannedAt = work[cur].msgs])
    /\ UNCHANGED status

WriteDoc ==
    /\ \E d \in Docs : ToolDoes(PutDoc(work[cur], d))
    /\ UNCHANGED status

NoEffect == ToolDoes(work[cur]) /\ UNCHANGED status

AskUser == ToolDoes(work[cur]) /\ SetStatus("waiting")

\* The first finish is sent back once, to check the goal.
AskFinish ==
    /\ ~work[cur].asked
    /\ ToolDoes([work[cur] EXCEPT !.asked = TRUE])
    /\ UNCHANGED status

Finish ==
    /\ work[cur].asked
    /\ \E names \in SUBSET work[cur].docs : ToolDoes([work[cur] EXCEPT !.result = names])
    /\ SetStatus("done")

\* Subtasks write different documents. Nothing is locked while they run.
Delegate ==
    /\ pending' \in SUBSET Docs \ {{}}
    /\ pc' = "workers"
    /\ UNCHANGED <<created, present, status, work, files, cur, stopped, steps, failures, canPlan,
                   wake, crashes>>

\* One worker answers, or fails.
Worker(d) ==
    /\ pc = "workers" /\ d \in pending
    /\ pending' = pending \ {d}
    /\ \/ work' = [work EXCEPT ![cur] = PutDoc(@, d)]
       \/ UNCHANGED work
    /\ UNCHANGED <<created, present, status, files, pc, cur, stopped, steps, failures, canPlan,
                   wake, crashes>>

WorkersDone ==
    /\ pc = "workers" /\ pending = {}
    /\ pc' = "more"
    /\ UNCHANGED <<created, present, status, work, files, cur, runVars, wake, crashes>>

-----------------------------------------------------------------------------
Tool ==
    \/ /\ pc = "tools"
       /\ PlanTasks \/ WriteDoc \/ NoEffect \/ AskUser \/ AskFinish \/ Finish \/ Delegate
    \/ \E d \in Docs : Worker(d)
    \/ WorkersDone

Runner ==
    \/ Look \/ WakeUp \/ Claim \/ Head \/ Prompt \/ StepFails \/ NoToolCall \/ ToolCall
    \/ NextCall \/ EndStep \/ SaveStep \/ Error \/ Fail
    \/ Tool

User ==
    \/ Create
    \/ \E j \in JobIds : Say(j) \/ Cancel(j) \/ Delete(j)

JobsNext == Runner \/ User \/ Restart

JobsSpec == JobsInit /\ [][JobsNext]_vars

\* The runner's loop goes on; a step makes finitely many tool calls.
JobsFairSpec == JobsSpec /\ WF_vars(Runner) /\ SF_vars(EndStep)

-----------------------------------------------------------------------------
(* Properties *)

\* A job is "running" exactly while the runner executes it under a context
\* that is not cancelled: no order of Cancel, Say, Delete and Restart leaves
\* a job running that nobody runs, and Cancel always stops the right run
\* (Jobs.Cancel, Jobs.Say, Jobs.run).
RunningIsRun ==
    \A j \in present : status[j] = "running" => Working(j) /\ ~stopped

\* A restart at any time loses nothing of a job that the runner does not
\* execute and whose last write did not fail: its file is current, although
\* steps change jobs without saving them and a stopped run returns early
\* (Jobs.run, Jobs.saveLocked, LoadJobs).
IdleJobsAreStored ==
    \A j \in present \ stale : ~Working(j) => disk[j] # NoFile /\ Loaded(disk[j]) = Snapshot(j)

\* A deleted job leaves no file unless its removal failed: the runner, which
\* may still execute it, does not write it again (Jobs.Delete,
\* Jobs.saveLocked).
DeletedStaysDeleted ==
    \A j \in JobIds \ (present \cup stale) : disk[j] = NoFile

\* The run of job j was cancelled, and its step is still under way: whatever
\* the user does meanwhile, the step may set the status once more.
Interrupted(j) == Working(j) /\ stopped

\* A job that was cancelled is not run again until the user speaks, although it
\* may have been chosen before and although the controller restarts. Excepted
\* are a step that is still under way and a cancellation that could not be
\* written (Jobs.Cancel, Jobs.next, Jobs.run, LoadJobs).
CancelLasts ==
    [][\A j \in present \ stale :
          status[j] = "cancelled" /\ ~Interrupted(j)
              => j \notin present' \/ status'[j] = "cancelled" \/ Say(j)]_vars

\* A queued job is run, unless it is cancelled or deleted: no wake-up is lost
\* between the look at the queue and the wait for one. Excepted is a job that
\* was cancelled and queued again while its step is under way, which may end
\* it without having seen the message (Jobs.Run, Jobs.poke, Jobs.next).
QueuedJobsRun ==
    \A j \in JobIds :
        (j \in present /\ status[j] = "queued" /\ ~Interrupted(j))
            ~> (j \notin present \/ status[j] \in {"running", "cancelled"})

=============================================================================
