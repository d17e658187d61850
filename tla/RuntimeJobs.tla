---------------------------- MODULE RuntimeJobs ----------------------------
(***************************************************************************)
(* Runtime jobs: the job table (core/job_store.py), the pipeline that      *)
(* executes a job in a background thread (core/job_executor.py), the       *)
(* workspace it edits in (core/job_workspace.py, core/backup_engine.py)    *)
(* and the owner's routes (api/v1.py, core/agent_fabric.py).               *)
(*                                                                         *)
(* Every write of the table is unconditional and the worker never reads    *)
(* the status back, so what keeps a job's states in order is who may run   *)
(* it and when.  Each step is one table write with the stage before it;    *)
(* what a stage computes is a choice among its outcomes.  The heartbeat    *)
(* column is abstracted to absent, fresh or stale (older than              *)
(* _HEARTBEAT_STALE_SECS), and a tree to the set of changes present in it. *)
(***************************************************************************)
EXTENDS Integers, FiniteSets

CONSTANTS
    Jobs,         \* job ids
    Wishes,       \* the options a job may be created with
    Workers,      \* threads started by execute_async; each runs once
    Approvable,   \* statuses in which the owner approves a job
    IsRepo,       \* the project is a git repository
    Layouts,      \* the values of _isolated_workspaces() to look at
    PulseFails,   \* a heartbeat write can raise and end the pulse thread
    SlowSweeps,   \* a sweep of another process can be held up between its read and its write
    MaxRepairs,   \* _MAX_REPAIRS
    None          \* no worker, no job

ASSUME RuntimeAssumption ==
    /\ {IsRepo, PulseFails, SlowSweeps} \cup Layouts \subseteq BOOLEAN
    /\ MaxRepairs \in Nat
    /\ Wishes \subseteq SUBSET {"planOnly", "gated", "commits", "pushes"}
    /\ None \notin Jobs \cup Workers

VARIABLES
    job,       \* the jobs table
    beat,      \* jobs.heartbeat_at
    service,   \* the service process: it runs, and what _isolated_workspaces() says in it
    pending,   \* the jobs that agent_fabric.stop() or a sweep has read and not yet written
    worker,    \* the worker threads
    worktree,  \* who created the worktree directory of a job, if it exists
    primary    \* changes present in the project tree

vars == <<job, beat, service, pending, worker, worktree, primary>>

----------------------------------------------------------------------------
(* State *)

Interruptible == {"planning", "backing_up", "branching", "editing", "testing",
                  "committing", "pushing"}
Terminal == {"completed", "failed", "cancelled", "blocked", "fallback_plan_only"}
Status == {"none", "waiting_approval", "queued"} \cup Interruptible \cup Terminal

\* "success": the outcome of the kind of job (job_kinds.success_outcome_for).
Outcome == {"none", "success", "fallback_plan_only", "failed"}

\* planOnly: autonomy observe or suggest.  gated: validated by the repository
\* suite, with repairs.  commits: auto_commit.  pushes: auto_push at
\* execute_safe or above.
Wish == {"planOnly", "gated", "commits", "pushes"}
Job == [status : Status, outcome : Outcome, wishes : SUBSET Wish]
NoJob == [status |-> "none", outcome |-> "none", wishes |-> {}]

\* A change by a worker or the owner: of an existing file, loose when git does not track
\* it or it is above _MAX_LIGHT_FILE_BYTES, or a new file.
Kinds == {"edit", "loose", "new"}
Mark == [by : Workers \cup {None}, kind : Kinds]
Marks(w) == {[by |-> w, kind |-> k] : k \in Kinds}
OwnerEdit == [by |-> None, kind |-> "edit"]

\* leftover: git could not remove the worktree.
Check == {"backup", "policy", "branch", "tests", "commit", "gate", "leftover"}

Worker == [at : {"idle", "begin", "begun", "finish", "cleanup", "unwind", "handler",
                 "done", "dead"} \cup Interruptible,
           j : Jobs \cup {None}, plan : {"none", "real", "fallback"},
           passed : SUBSET Check, light : BOOLEAN, snap : SUBSET Mark, made : SUBSET Mark,
           tries : 0..MaxRepairs, end : Terminal, outcome : Outcome,
           undone : BOOLEAN, pulse : BOOLEAN]
IdleWorker == [at |-> "idle", j |-> None, plan |-> "none", passed |-> {},
               light |-> FALSE, snap |-> {}, made |-> {}, tries |-> 0, end |-> "failed", outcome |-> "none",
               undone |-> FALSE, pulse |-> FALSE]

Ended == {"idle", "done", "dead"}
Live(w) == worker[w].at \notin Ended

TypeOK ==
    /\ job \in [Jobs -> Job]
    /\ beat \in [Jobs -> {"none", "fresh", "stale"}]
    /\ service \in [up : BOOLEAN, isolated : Layouts]
    /\ pending \subseteq {"stop", "sweep"} \X Jobs
    /\ worker \in [Workers -> Worker]
    /\ worktree \in [Jobs -> Workers \cup {None}]
    /\ primary \subseteq Mark

Init ==
    /\ job = [j \in Jobs |-> NoJob]
    /\ beat = [j \in Jobs |-> "none"]
    /\ service \in [up : {TRUE}, isolated : Layouts]
    /\ pending = {}
    /\ worker = [w \in Workers |-> IdleWorker]
    /\ worktree = [j \in Jobs |-> None]
    /\ primary = {}

----------------------------------------------------------------------------
(* The owner's routes *)

\* execute_async
Spawn(j) == \E w \in Workers :
    /\ worker[w].at = "idle"
    /\ worker' = [worker EXCEPT ![w] = [IdleWorker EXCEPT !.at = "begin", !.j = j]]

CreateJob(j) ==
    /\ service.up /\ job[j].status = "none"
    /\ \E wishes \in Wishes, approval \in BOOLEAN :
          /\ job' = [job EXCEPT ![j] =
                [status |-> IF approval THEN "waiting_approval" ELSE "queued",
                 outcome |-> "none", wishes |-> wishes]]
          /\ IF approval THEN worker' = worker ELSE Spawn(j)
    /\ UNCHANGED <<beat, service, pending, worktree, primary>>

Approve(j) ==
    /\ service.up
    /\ job[j].status \in Approvable \ {"none", "completed", "cancelled", "failed"}
    /\ job' = [job EXCEPT ![j].status = "queued"]
    /\ Spawn(j)
    /\ UNCHANGED <<beat, service, pending, worktree, primary>>

\* POST /jobs/{id}/cancel: whatever the status.
Cancel(j) ==
    /\ service.up /\ job[j].status \notin {"none", "cancelled"}
    /\ job' = [job EXCEPT ![j].status = "cancelled"]
    /\ UNCHANGED <<beat, service, pending, worker, worktree, primary>>

\* agent_fabric.stop: the status is read, and written in a later transaction.
StopRead(j) ==
    /\ service.up /\ job[j].status \notin Terminal \cup {"none"}
    /\ pending' = pending \cup {<<"stop", j>>}
    /\ UNCHANGED <<job, beat, service, worker, worktree, primary>>

StopWrite(j) ==
    /\ <<"stop", j>> \in pending
    /\ pending' = pending \ {<<"stop", j>>}
    /\ job' = [job EXCEPT ![j].status = "cancelled"]
    /\ UNCHANGED <<beat, service, worker, worktree, primary>>

\* The owner edits the project tree while jobs run.
OwnerEdits ==
    /\ OwnerEdit \notin primary
    /\ primary' = primary \cup {OwnerEdit}
    /\ UNCHANGED <<job, beat, service, pending, worker, worktree>>

----------------------------------------------------------------------------
(* The service process and the heartbeat *)

\* Worker threads are daemons: they die with the process, wherever they are.
ServiceStops ==
    /\ service.up
    /\ service' = [service EXCEPT !.up = FALSE]
    /\ pending' = {p \in pending : p[1] = "sweep"}
    /\ worker' = [w \in Workers |-> IF Live(w) THEN [worker[w] EXCEPT !.at = "dead"]
                                    ELSE worker[w]]
    /\ UNCHANGED <<job, beat, worktree, primary>>

\* Mutant: the sweep before heartbeats, which took every unfinished job.
OrphanedAny == {j \in Jobs : job[j].status \in Interruptible}

Orphaned == {j \in Jobs : job[j].status \in Interruptible /\ beat[j] # "fresh"}

\* recover_interrupted: an interrupted job must be approved again.
Recovered(orphans) ==
    [j \in Jobs |-> IF j \in orphans THEN [job[j] EXCEPT !.status = "waiting_approval"] ELSE job[j]]
RecoverInterrupted ==
    /\ job' = Recovered(Orphaned)
    /\ UNCHANGED <<beat, pending, worker, worktree, primary>>

\* Every process that boots the application runs it: the service itself, before it serves,
\* or another one (a test's client) while the service works.  The setting of the
\* worktrees may have changed while the service was down.
Boot == ~service.up /\ service' \in [up : {TRUE}, isolated : Layouts] /\ RecoverInterrupted
ForeignBoot == service.up /\ Orphaned # {} /\ service' = service /\ RecoverInterrupted

\* The SELECT of another process and, held up by a locked database, its UPDATEs.
Swept == {j \in Jobs : <<"sweep", j>> \in pending}
SweepRead ==
    /\ SlowSweeps /\ Orphaned \ Swept # {}
    /\ pending' = pending \cup ({"sweep"} \X Orphaned)
    /\ UNCHANGED <<job, beat, service, worker, worktree, primary>>
SweepWrite ==
    /\ Swept # {} /\ job' = Recovered(Swept)
    /\ pending' = pending \ ({"sweep"} \X Jobs)
    /\ UNCHANGED <<beat, service, worker, worktree, primary>>

\* A pulsed heartbeat never gets old: _HEARTBEAT_INTERVAL_SECS is well below
\* _HEARTBEAT_STALE_SECS.
GrowStale(j) ==
    /\ beat[j] = "fresh"
    /\ \A w \in Workers : Live(w) /\ worker[w].j = j => ~worker[w].pulse
    /\ beat' = [beat EXCEPT ![j] = "stale"]
    /\ UNCHANGED <<job, service, pending, worker, worktree, primary>>

\* touch_heartbeat raises (a locked or failing database) in the pulse thread,
\* which nothing restarts.
PulseDies(w) ==
    /\ PulseFails
    /\ Live(w) /\ worker[w].pulse
    /\ worker' = [worker EXCEPT ![w].pulse = FALSE]
    /\ UNCHANGED <<job, beat, service, pending, worktree, primary>>

----------------------------------------------------------------------------
(* The pipeline.  J(w): the job of w.                                      *)

J(w) == worker[w].j
Wants(w, wish) == wish \in job[J(w)].wishes

\* The next stage begins: its status is written whatever the table says.
Enter(w, stage, a) ==
    /\ job' = [job EXCEPT ![J(w)].status = stage]
    /\ worker' = [worker EXCEPT ![w] = [a EXCEPT !.at = stage]]

\* The pipeline has decided how it ends and calls _finish.
EndWith(w, status, outcome, a) ==
    /\ job' = job
    /\ worker' = [worker EXCEPT ![w] = [a EXCEPT !.at = "finish", !.end = status,
                                                 !.outcome = outcome]]

Fail(w, a) == EndWith(w, "failed", "failed", a)

InWorktree == IsRepo /\ service.isolated

\* Mutant: the heartbeat is touched once and not pulsed.
BeginNoPulse(w) ==
    /\ worker[w].at = "begin"
    /\ beat' = [beat EXCEPT ![J(w)] = "fresh"]
    /\ worker' = [worker EXCEPT ![w].at = "begun"]
    /\ UNCHANGED <<job, service, pending, worktree, primary>>

\* execute: the heartbeat is touched and pulsed before the pipeline starts.
Begin(w) ==
    /\ worker[w].at = "begin"
    /\ beat' = [beat EXCEPT ![J(w)] = "fresh"]
    /\ worker' = [worker EXCEPT ![w].at = "begun", ![w].pulse = TRUE]
    /\ UNCHANGED <<job, service, pending, worktree, primary>>

\* Mutant: a status the table does not know.
StartPlanningRunning(w) ==
    /\ worker[w].at = "begun"
    /\ job' = [job EXCEPT ![J(w)].status = "running"]
    /\ worker' = [worker EXCEPT ![w].at = "planning"]
    /\ UNCHANGED <<beat, service, pending, worktree, primary>>

StartPlanning(w) ==
    /\ worker[w].at = "begun"
    /\ Enter(w, "planning", worker[w])
    /\ UNCHANGED <<beat, service, pending, worktree, primary>>

\* The planner's plan, the deterministic fallback when it failed, or neither.
Plan(w) ==
    /\ worker[w].at = "planning"
    /\ LET a == worker[w]
       IN  \/ EndWith(w, "blocked", "none", a)
           \/ Fail(w, a)
           \/ \E p \in {"real", "fallback"} :
                 IF Wants(w, "planOnly")
                 THEN EndWith(w, "fallback_plan_only", "fallback_plan_only",
                              [a EXCEPT !.plan = p])
                 ELSE Enter(w, "backing_up", [a EXCEPT !.plan = p])
    /\ UNCHANGED <<beat, service, pending, worktree, primary>>

Existing(tree) == {m \in tree : m.kind # "new"}
Loose(tree) == {m \in tree : m.kind = "loose"}
New(tree) == {m \in tree : m.kind = "new"}

\* The files of a tree that a snapshot holds: all of them, or with a light one those that
\* git tracks and that are small.
Archived(tree, light) == IF light THEN Existing(tree) \ Loose(tree) ELSE tree

\* The snapshot, light for a plan that changes no existing file, then the policy
\* preflight, then the branch or the edit.
Backup(w) ==
    /\ worker[w].at = "backing_up"
    /\ beat' = [beat EXCEPT ![J(w)] = "fresh"]
    /\ \E light \in BOOLEAN :
       LET a == [worker[w] EXCEPT !.light = light, !.snap = Archived(primary, light),
                                  !.passed = {"backup"}]
       IN  \/ Fail(w, worker[w])
           \/ EndWith(w, "blocked", "none", a)
           \/ Enter(w, IF IsRepo THEN "branching" ELSE "editing",
                    [a EXCEPT !.passed = @ \cup {"policy"}])
    /\ UNCHANGED <<service, pending, worktree, primary>>

\* Mutant: a directory left at the job's path is taken over as it is.
BranchReuses(w) ==
    /\ worker[w].at = "branching"
    /\ \/ /\ Enter(w, "editing", [worker[w] EXCEPT !.passed = @ \cup {"branch"}])
          /\ worktree' = IF service.isolated /\ worktree[J(w)] = None
                         THEN [worktree EXCEPT ![J(w)] = w] ELSE worktree
       \/ Fail(w, worker[w]) /\ worktree' = worktree
    /\ UNCHANGED <<beat, service, pending, primary>>

\* job_workspace.create: whatever is at the job's path is removed first.
Branch(w) ==
    /\ worker[w].at = "branching"
    /\ \/ /\ Enter(w, "editing", [worker[w] EXCEPT !.passed = @ \cup {"branch"}])
          /\ worktree' = IF service.isolated THEN [worktree EXCEPT ![J(w)] = w] ELSE worktree
       \/ /\ Fail(w, worker[w])
          /\ \/ worktree' = worktree
             \/ service.isolated /\ worktree' = [worktree EXCEPT ![J(w)] = None]
    /\ UNCHANGED <<beat, service, pending, primary>>

\* An exception other than a git error, with the worktree made and the finally
\* that removes it not yet entered.
BranchRaises(w) ==
    /\ worker[w].at = "branching" /\ service.isolated
    /\ worktree' = [worktree EXCEPT ![J(w)] = w]
    /\ worker' = [worker EXCEPT ![w].at = "handler"]
    /\ UNCHANGED <<job, beat, service, pending, primary>>

\* The changes M land in the tree the worker edits.
Landed(M) == IF InWorktree THEN primary ELSE primary \cup M

\* The archive of a extracted over a tree: what it does not hold stays as it is.
Extracted(a, tree) == a.snap \cup IF a.light THEN Loose(tree) ELSE {}

\* Mutant: the archive is restored, and nothing is swept.
RestoreUnswept(a, tree, restored) ==
    IF InWorktree THEN tree
    ELSE New(tree) \cup IF restored THEN Extracted(a, tree) ELSE Existing(tree)

\* Mutant: the snapshot is restored over the live tree of an isolated job too.
RestoreAnyway(a, tree, restored) ==
    (New(tree) \ New(a.made)) \cup IF restored THEN Extracted(a, tree) ELSE Existing(tree)

\* _rollback: nothing to do outside the project tree.  Inside it, what was
\* archived is put back, unless that fails, and the new files the job has
\* recorded are removed.
Restore(a, tree, restored) ==
    IF InWorktree THEN tree
    ELSE (New(tree) \ New(a.made)) \cup IF restored THEN Extracted(a, tree) ELSE Existing(tree)

\* Roll back a tree and end as failed.  A rollback that fails, where there is
\* one, is logged.
UndoAndFail(w, a, tree) == \E restored \in {TRUE, InWorktree} :
    /\ primary' = Restore(a, tree, restored)
    /\ Fail(w, [a EXCEPT !.undone = restored])

\* An exception with the changes M in the tree, recorded or not yet.
ApplyRaises(w, M) == \E recorded \in {{}, M} :
    UndoAndFail(w, [worker[w] EXCEPT !.made = @ \cup recorded], Landed(M))

\* _apply_files: all of the plan, or some of it and an exception.
Edit(w) ==
    /\ worker[w].at = "editing"
    /\ \E M \in SUBSET IF worker[w].light THEN New(Marks(w)) ELSE Marks(w) :
          \/ /\ primary' = Landed(M)
             /\ Enter(w, "testing", [worker[w] EXCEPT !.made = M])
          \/ ApplyRaises(w, M)
    /\ UNCHANGED <<beat, service, pending, worktree>>

Complete(w, a) ==
    EndWith(w, "completed", IF a.plan = "fallback" THEN "fallback_plan_only" ELSE "success", a)

PushOrComplete(w, a) ==
    IF IsRepo /\ Wants(w, "pushes") THEN Enter(w, "pushing", a) ELSE Complete(w, a)

AfterTests(w, a) ==
    IF IsRepo /\ Wants(w, "commits") /\ a.made # {}
    THEN Enter(w, "committing", a) ELSE PushOrComplete(w, a)

TestsPass(w) ==
    /\ worker[w].at = "testing"
    /\ AfterTests(w, [worker[w] EXCEPT !.passed = @ \cup {"tests"}])
    /\ UNCHANGED <<beat, service, pending, worktree, primary>>

Repairable(w) ==
    /\ Wants(w, "gated") /\ worker[w].plan = "real" /\ worker[w].tries < MaxRepairs

\* Mutant: the failure is recorded and the pipeline goes on.
TestsFailGoesOn(w) ==
    /\ worker[w].at = "testing" /\ ~Repairable(w)
    /\ AfterTests(w, worker[w])
    /\ UNCHANGED <<beat, service, pending, worktree, primary>>

TestsFail(w) ==
    /\ worker[w].at = "testing" /\ ~Repairable(w)
    /\ UndoAndFail(w, worker[w], primary)
    /\ UNCHANGED <<beat, service, pending, worktree>>

\* Mutant: failed tests send the job back to the edit, and no attempt is counted.
RepairForever(w) ==
    /\ worker[w].at = "testing" /\ Repairable(w)
    /\ Enter(w, "editing", worker[w])
    /\ UNCHANGED <<beat, service, pending, worktree, primary>>

Repair(w) ==
    /\ worker[w].at = "testing" /\ Repairable(w)
    /\ \E M \in SUBSET Marks(w) :
          \/ /\ primary' = Landed(M)
             /\ worker' = [worker EXCEPT ![w].made = @ \cup M, ![w].tries = @ + 1]
             /\ job' = job
          \/ ApplyRaises(w, M)
    /\ UNCHANGED <<beat, service, pending, worktree>>

Commit(w) ==
    /\ worker[w].at = "committing"
    /\ \/ /\ InWorktree => worktree[J(w)] # None
          /\ PushOrComplete(w, [worker[w] EXCEPT !.passed = @ \cup {"commit"}])
          /\ primary' = primary
       \/ UndoAndFail(w, worker[w], primary)
    /\ UNCHANGED <<beat, service, pending, worktree>>

\* A refused push is noted and the job goes on.
Push(w) ==
    /\ worker[w].at = "pushing"
    /\ Complete(w, worker[w])
    /\ UNCHANGED <<beat, service, pending, worktree, primary>>

\* Mutant: the proposed status is taken as it is.
TerminalStatusAsProposed(outcome, proposed) == proposed

\* job_kinds.terminal_status_for
TerminalStatusFor(outcome, proposed) ==
    IF outcome = "fallback_plan_only" /\ proposed \notin {"failed", "blocked"}
    THEN "fallback_plan_only" ELSE proposed

HasWorkspace(w) == InWorktree /\ "branch" \in worker[w].passed

\* _finish.  A completion the gate refuses is recorded as blocked, with the
\* outcome the pipeline stated.
Finish(w) ==
    /\ worker[w].at = "finish"
    /\ LET a == worker[w]
           proposed == TerminalStatusFor(a.outcome, a.end)
       IN  \E allowed \in BOOLEAN :
             /\ job' = [job EXCEPT
                   ![J(w)].status = IF proposed = "completed" /\ ~allowed
                                    THEN "blocked" ELSE proposed,
                   ![J(w)].outcome = IF a.outcome = "none" THEN @ ELSE a.outcome]
             /\ worker' = [worker EXCEPT
                   ![w].at = IF HasWorkspace(w) THEN "cleanup" ELSE "done",
                   ![w].passed = IF allowed THEN @ \cup {"gate"} ELSE @]
    /\ UNCHANGED <<beat, service, pending, worktree, primary>>

\* Mutant: an exception goes straight to the handler.
CrashLeaks(w) ==
    /\ worker[w].at \in Interruptible \cup {"begun", "finish"}
    /\ worker' = [worker EXCEPT ![w].at = "handler"]
    /\ UNCHANGED <<job, beat, service, pending, worktree, primary>>

\* An exception no stage catches: a failing table write, a git command that
\* times out.  One before the pipeline starts ends the thread.
Crash(w) ==
    /\ worker[w].at \in Interruptible \cup {"begin", "begun", "finish"}
    /\ worker' = [worker EXCEPT ![w].at =
          IF @ = "begin" THEN "done" ELSE IF HasWorkspace(w) THEN "unwind" ELSE "handler"]
    /\ UNCHANGED <<job, beat, service, pending, worktree, primary>>

\* The finally of _run_pipeline removes the directory at the job's path; git
\* may fail at it, or time out, which raises.
Cleanup(w) ==
    /\ worker[w].at \in {"cleanup", "unwind"}
    /\ \/ /\ worktree' = [worktree EXCEPT ![J(w)] = None]
          /\ worker' = [worker EXCEPT ![w].at = IF @ = "cleanup" THEN "done" ELSE "handler"]
       \/ /\ worktree' = worktree
          /\ worker' = [worker EXCEPT ![w].at = "handler", ![w].passed = @ \cup {"leftover"}]
    /\ UNCHANGED <<job, beat, service, pending, primary>>

\* execute's handler: a job that is not in a terminal status is failed, unless
\* that write raises too.
Handler(w) ==
    /\ worker[w].at = "handler"
    /\ \/ /\ job[J(w)].status \notin Terminal
          /\ job' = [job EXCEPT ![J(w)].status = "failed", ![J(w)].outcome = "failed"]
       \/ job' = job
    /\ worker' = [worker EXCEPT ![w].at = "done"]
    /\ UNCHANGED <<beat, service, pending, worktree, primary>>

----------------------------------------------------------------------------
Stage(w) ==
    \/ Begin(w) \/ StartPlanning(w) \/ Plan(w) \/ Backup(w) \/ Branch(w) \/ Edit(w)
    \/ TestsPass(w) \/ TestsFail(w) \/ Repair(w) \/ Commit(w) \/ Push(w)
    \/ Finish(w) \/ Cleanup(w) \/ Handler(w)

Next ==
    \/ \E j \in Jobs : CreateJob(j) \/ Approve(j) \/ Cancel(j) \/ StopRead(j) \/ StopWrite(j)
    \/ OwnerEdits \/ ServiceStops \/ Boot \/ ForeignBoot \/ SweepRead \/ SweepWrite
    \/ \E j \in Jobs : GrowStale(j)
    \/ \E w \in Workers : PulseDies(w) \/ BranchRaises(w) \/ Crash(w) \/ Stage(w)

Spec == Init /\ [][Next]_vars

\* Every stage is bounded by a timeout, so a thread that runs keeps moving; a
\* heartbeat nobody pulses gets old; the service is restarted when it is down.
Fairness ==
    /\ \A w \in Workers : WF_vars(Stage(w))
    /\ \A j \in Jobs : WF_vars(GrowStale(j))
    /\ WF_vars(Boot)

FairSpec == Spec /\ Fairness

----------------------------------------------------------------------------
(* Properties *)

\* One live worker per job ("one live agent per project/worktree"), though
\* jobs are recovered, approved again and swept by other processes.
OneWorker ==
    \A v, w \in Workers : Live(v) /\ Live(w) /\ J(v) = J(w) => v = w

\* A job that waits for approval is not being worked on: a sweep never takes a
\* job from under a worker, and an interrupted step is never silently resumed.
NoWorkBehindApproval ==
    \A w \in Workers : Live(w) => job[J(w)].status # "waiting_approval"

\* The directory a worker edits and commits in is the one it created.
WorktreeHeld ==
    \A w \in Workers :
        /\ HasWorkspace(w)
        /\ worker[w].at \in Interruptible \cup {"finish", "cleanup", "unwind"}
        => worktree[J(w)] = w

\* A worker that has begun to edit leaves no worktree behind, exceptions and
\* failed writes included, unless git could not remove it.
WorktreeRemoved ==
    \A w \in Workers :
        worker[w].at = "done" /\ "branch" \in worker[w].passed
            => "leftover" \in worker[w].passed \/ worktree[J(w)] # w

\* A plan is never reported as a completed implementation, whoever ran last.
Truthful == \A j \in Jobs : job[j].status = "completed" => job[j].outcome = "success"

\* What is committed was backed up, allowed and tested by the worker that
\* committed it; what is completed was allowed to be by the completion gate.
Earned ==
    /\ \A w \in Workers :
          "commit" \in worker[w].passed => {"backup", "policy", "tests"} \subseteq worker[w].passed
    /\ \A j \in Jobs : job[j].status = "completed" =>
          \E w \in Workers : J(w) = j /\ {"backup", "policy", "tests", "gate"} \subseteq worker[w].passed

\* The owner's edits made while a job runs survive it (isolated jobs).
OwnerEditsSurvive == [][(service.isolated /\ OwnerEdit \in primary) => (OwnerEdit \in primary')]_vars

\* "Those are restored from the backup archive instead" (_remove_created_paths): outside
\* a worktree, a job whose rollback worked leaves none of the changes it had recorded in
\* the project tree, but for the files that a light snapshot does not hold, which the
\* plan it was taken for does not touch and a repair may (one job at a time).
Owed(a) == {m \in a.made : ~(a.light /\ m.kind = "loose")}
RolledBackClean ==
    \A w \in Workers :
        worker[w].undone => Owed(worker[w]) \cap primary = {}

\* A worker comes to an end, however its stages turn out.
WorkEnds == \A w \in Workers : Live(w) ~> ~Live(w)

----------------------------------------------------------------------------
(* What the project says of itself and the code does not do *)

\* "idempotent: terminal stays terminal" (tests/test_agent_fabric.py), "stop =
\* job cancel" (docs): a cancelled job stays cancelled.
CancelledStays ==
    [][\A j \in Jobs : job[j].status = "cancelled" => job'[j].status = "cancelled"]_vars

\* "so it can never remain indefinitely in a non-terminal stage"
\* (job_store.reap_orphaned): an unfinished job leaves its stage.
NeverStuck ==
    \A j \in Jobs : job[j].status \in Interruptible ~> job[j].status \notin Interruptible

\* "a crashed prior attempt for this exact job id; remove the leftover"
\* (job_workspace.create): no live worker loses its worktree.
LeftoverIsDead ==
    [][\A w \in Workers :
          /\ worker[w].at \in Interruptible /\ worktree[J(w)] = w
          => worktree'[J(w)] = w]_vars

\* "The worktree is removed on EVERY exit path" (job_executor.py).
EveryExitRemoves ==
    \A w \in Workers :
        worker[w].at = "done" => "leftover" \in worker[w].passed \/ worktree[J(w)] # w

\* "so a live job never looks orphaned to recover_interrupted(), even during a
\* long silent test run" (job_executor.py): a job with a live worker is not swept.
LiveNeverOrphaned ==
    \A w \in Workers : Live(w) /\ worker[w].at \notin {"begin", "begun"} => J(w) \notin Orphaned

\* "Delete files a failed job created, so its debris cannot leak into the
\* shared workspace" (_remove_created_paths).
NoDebris ==
    \A w \in Workers : worker[w].undone => New(Marks(w)) \cap primary = {}
=============================================================================
