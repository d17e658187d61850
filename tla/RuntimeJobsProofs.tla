-------------------------- MODULE RuntimeJobsProofs --------------------------
(***************************************************************************)
(* Proofs about the runtime jobs.  A worker writes the table without       *)
(* reading it back; what makes its record true is what the worker has      *)
(* passed where it stands, and that no second worker stands beside it.     *)
(* Each step of a pipeline is first reduced to what it does to its worker, *)
(* to the row of its job and to the rest (WorkerMoves, JobMoves,           *)
(* PlaceMoves); the invariants follow from these three.                    *)
(***************************************************************************)
EXTENDS RuntimeJobs, TLAPS

Before == {"idle", "begin", "begun", "planning", "backing_up"}
Holding == Interruptible \cup {"finish", "cleanup", "unwind"}
Proved(a) == {"backup", "policy", "tests"} \subseteq a.passed

\* What a worker carries is true.
Sound(a) ==
    /\ a \in Worker /\ a.j \in Jobs
    /\ "commit" \in a.passed => Proved(a)
    /\ a.end = "completed" => a.outcome \in {"success", "fallback_plan_only"} /\ Proved(a)

\* What a worker has passed where it stands.
Stands(a) ==
    /\ a.at \in Before => a.passed = {}
    /\ a.at = "branching" => "branch" \notin a.passed
    /\ a.at \in {"branching", "editing", "testing", "committing", "pushing"} =>
          {"backup", "policy"} \subseteq a.passed
    /\ a.at \in {"committing", "pushing"} => "tests" \in a.passed

Fine(a) == a = IdleWorker \/ (a.at # "idle" /\ Sound(a) /\ Stands(a))

JobsIInv ==
    /\ TypeOK
    /\ \A w \in Workers : Fine(worker[w])
    /\ Truthful /\ Earned

----------------------------------------------------------------------------
(* What a step of a pipeline does *)

WorkerMoves(w) ==
    /\ worker' = [worker EXCEPT ![w] = worker'[w]]
    /\ worker'[w].at \notin {"idle", "begin"}
    /\ Sound(worker'[w]) /\ Stands(worker'[w])
    /\ worker'[w].j = J(w)
    /\ worker[w].passed \subseteq worker'[w].passed
    /\ worker[w].pulse => worker'[w].pulse

JobMoves(w) ==
    /\ job' \in [Jobs -> Job]
    /\ \A j \in Jobs : j # J(w) => job'[j] = job[j]
    /\ \/ job'[J(w)] = job[J(w)]
       \/ job'[J(w)].status \in (Interruptible \cup Terminal) \ {"completed"}
       \/ /\ job'[J(w)].status = "completed" /\ job'[J(w)].outcome = "success"
          /\ Proved(worker'[w]) /\ "gate" \in worker'[w].passed

PlaceMoves(w) ==
    /\ service' = service /\ pending' = pending /\ primary' \subseteq Mark
    /\ beat' = beat \/ beat' = [beat EXCEPT ![J(w)] = "fresh"]
    /\ worker[w].at = "begin" =>
          worker'[w].at \in Ended \/ (worker'[w].pulse /\ beat'[J(w)] = "fresh")
    /\ \E v \in {None, w, worktree[J(w)]} : worktree' = [worktree EXCEPT ![J(w)] = v]
    /\ "branch" \in worker'[w].passed /\ worker'[w].at \in Holding /\ InWorktree =>
          \/ worktree'[J(w)] = w
          \/ worktree' = worktree /\ "branch" \in worker[w].passed /\ worker[w].at \in Holding

\* A record a stage hands on: that of its worker with more in it.
Kept(w, a) ==
    /\ Sound(a) /\ a.j = J(w) /\ worker[w].passed \subseteq a.passed
    /\ a.pulse = worker[w].pulse

LEMMA WorkerIs ==
    ASSUME JobsIInv, NEW w \in Workers, worker[w].at # "idle"
    PROVE  /\ worker \in [Workers -> Worker] /\ worker[w] \in Worker
           /\ Sound(worker[w]) /\ Stands(worker[w]) /\ Kept(w, worker[w]) /\ J(w) \in Jobs
BY DEF JobsIInv, TypeOK, Fine, IdleWorker, Kept, Sound, J

LEMMA MovedTo ==
    ASSUME NEW a \in Worker, NEW s \in {"begun", "finish", "cleanup", "unwind", "handler", "done", "dead"} \cup Interruptible
    PROVE  LET r == [a EXCEPT !.at = s]
           IN  /\ r \in Worker /\ r.at = s /\ r.j = a.j /\ r.passed = a.passed /\ r.end = a.end
               /\ r.outcome = a.outcome /\ r.pulse = a.pulse
BY DEF Worker

\* A stage begins.
LEMMA EnterMoves ==
    ASSUME JobsIInv, NEW w \in Workers, worker[w].at # "idle", NEW stage \in Interruptible, NEW a,
           Kept(w, a), Enter(w, stage, a), Stands([a EXCEPT !.at = stage])
    PROVE  /\ WorkerMoves(w) /\ JobMoves(w)
           /\ worker'[w].at = stage /\ worker'[w].passed = a.passed /\ worker'[w].pulse = worker[w].pulse
<1> DEFINE r == [a EXCEPT !.at = stage]
<1>1. a \in Worker
  BY DEF Kept, Sound
<1>2. /\ r \in Worker /\ r.at = stage /\ r.j = a.j /\ r.passed = a.passed /\ r.end = a.end
      /\ r.outcome = a.outcome /\ r.pulse = a.pulse
  BY <1>1, MovedTo
<1>3. worker' = [worker EXCEPT ![w] = r] /\ job' = [job EXCEPT ![J(w)].status = stage]
  BY DEF Enter
<1>4. Stands(r)
  OBVIOUS
<1> HIDE DEF r
<1>5. worker'[w] = r
  BY <1>3, WorkerIs
<1>6. Sound(r)
  BY <1>2 DEF Kept, Sound, Proved
<1>7. stage \notin {"idle", "begin"}
  BY DEF Interruptible
<1>8. WorkerMoves(w)
  BY <1>2, <1>3, <1>4, <1>5, <1>6, <1>7 DEF WorkerMoves, Kept
<1>9. JobMoves(w)
  <2>1. job \in [Jobs -> Job] /\ J(w) \in Jobs
    BY WorkerIs DEF JobsIInv, TypeOK
  <2>2. stage \in Status /\ stage # "completed"
    BY DEF Interruptible, Status
  <2>3. [job[J(w)] EXCEPT !.status = stage] \in Job
    BY <2>1, <2>2 DEF Job
  <2>4. job' = [job EXCEPT ![J(w)] = [job[J(w)] EXCEPT !.status = stage]]
    BY <1>3
  <2>5. job' \in [Jobs -> Job] /\ job'[J(w)].status = stage
    BY <2>1, <2>2, <2>3, <2>4 DEF Job
  <2>6. \A j \in Jobs : j # J(w) => job'[j] = job[j]
    BY <2>1, <2>4
  <2>7. QED
    BY <2>2, <2>5, <2>6 DEF JobMoves
<1>10. QED
  BY <1>2, <1>5, <1>8, <1>9 DEF Kept

\* A pipeline decides how it ends.
LEMMA EndMoves ==
    ASSUME JobsIInv, NEW w \in Workers, worker[w].at # "idle", NEW s \in Terminal, NEW o \in Outcome,
           NEW a, Kept(w, a), EndWith(w, s, o, a),
           s = "completed" => o \in {"success", "fallback_plan_only"} /\ Proved(a)
    PROVE  /\ WorkerMoves(w) /\ JobMoves(w)
           /\ worker'[w].at = "finish" /\ worker'[w].passed = a.passed
           /\ worker'[w].pulse = worker[w].pulse
<1> DEFINE r == [a EXCEPT !.at = "finish", !.end = s, !.outcome = o]
<1>1. a \in Worker
  BY DEF Kept, Sound
<1>2. /\ r \in Worker /\ r.at = "finish" /\ r.j = a.j /\ r.passed = a.passed /\ r.end = s
      /\ r.outcome = o /\ r.pulse = a.pulse
  BY <1>1 DEF Worker
<1>3. worker' = [worker EXCEPT ![w] = r] /\ job' = job
  BY DEF EndWith
<1> HIDE DEF r
<1>4. worker'[w] = r
  BY <1>3, WorkerIs
<1>5. Sound(r) /\ Stands(r)
  BY <1>2 DEF Kept, Sound, Proved, Stands, Before
<1>6. WorkerMoves(w)
  BY <1>2, <1>3, <1>4, <1>5 DEF WorkerMoves, Kept
<1>7. JobMoves(w)
  BY <1>3, WorkerIs DEF JobMoves, JobsIInv, TypeOK
<1>8. QED
  BY <1>2, <1>4, <1>6, <1>7 DEF Kept

----------------------------------------------------------------------------
(* The stages *)

\* Nothing but the worker and its job is touched.
Untouched == UNCHANGED <<beat, service, pending, worktree>> /\ primary' \subseteq Mark

LEMMA UntouchedPlace ==
    ASSUME JobsIInv, NEW w \in Workers, worker[w].at \notin {"idle", "begin"}, Untouched,
           "branch" \in worker'[w].passed /\ worker'[w].at \in Holding =>
              "branch" \in worker[w].passed /\ worker[w].at \in Holding
    PROVE  PlaceMoves(w)
<1>1. worktree' = [worktree EXCEPT ![J(w)] = worktree[J(w)]]
  BY DEF Untouched, JobsIInv, TypeOK
<1>2. QED
  BY <1>1 DEF PlaceMoves, Untouched

LEMMA PrimaryIs == ASSUME JobsIInv, UNCHANGED primary PROVE primary' \subseteq Mark
BY DEF JobsIInv, TypeOK

LEMMA StartPlanningActs ==
    ASSUME JobsIInv, NEW w \in Workers, StartPlanning(w)
    PROVE  WorkerMoves(w) /\ JobMoves(w) /\ PlaceMoves(w)
<1>1. /\ worker[w].at = "begun" /\ Enter(w, "planning", worker[w]) /\ Untouched
      /\ "planning" \in Interruptible
  BY PrimaryIs DEF StartPlanning, Untouched, Interruptible
<1>2. Kept(w, worker[w]) /\ worker[w] \in Worker /\ worker[w].passed = {}
  BY <1>1, WorkerIs DEF Stands, Before
<1>3. Stands([worker[w] EXCEPT !.at = "planning"])
  BY <1>1, <1>2, MovedTo DEF Stands, Before
<1>4. WorkerMoves(w) /\ JobMoves(w) /\ worker'[w].passed = {}
  BY <1>1, <1>2, <1>3, EnterMoves
<1>5. QED
  BY <1>1, <1>4, UntouchedPlace

LEMMA PlanActs ==
    ASSUME JobsIInv, NEW w \in Workers, Plan(w)
    PROVE  WorkerMoves(w) /\ JobMoves(w) /\ PlaceMoves(w)
<1>1. worker[w].at = "planning" /\ Untouched /\ "backing_up" \in Interruptible
  BY PrimaryIs DEF Plan, Untouched, Interruptible
<1>2. Kept(w, worker[w]) /\ worker[w] \in Worker /\ worker[w].passed = {}
  BY <1>1, WorkerIs DEF Stands, Before
<1>3. SUFFICES WorkerMoves(w) /\ JobMoves(w) /\ worker'[w].passed = {}
  BY <1>1, UntouchedPlace
<1>4. CASE EndWith(w, "blocked", "none", worker[w]) \/ EndWith(w, "failed", "failed", worker[w])
  <2>1. {"blocked", "failed"} \subseteq Terminal /\ {"none", "failed"} \subseteq Outcome
    BY DEF Terminal, Outcome
  <2>2. QED
    BY <1>1, <1>2, <1>4, <2>1, EndMoves
<1>5. ASSUME NEW p \in {"real", "fallback"},
             \/ EndWith(w, "fallback_plan_only", "fallback_plan_only", [worker[w] EXCEPT !.plan = p])
             \/ Enter(w, "backing_up", [worker[w] EXCEPT !.plan = p])
      PROVE  WorkerMoves(w) /\ JobMoves(w) /\ worker'[w].passed = {}
  <2> DEFINE a == [worker[w] EXCEPT !.plan = p]
  <2>1. /\ a \in Worker /\ a.j = worker[w].j /\ a.passed = {} /\ a.pulse = worker[w].pulse
        /\ a.end = worker[w].end /\ a.outcome = worker[w].outcome
    BY <1>2 DEF Worker
  <2>2. EndWith(w, "fallback_plan_only", "fallback_plan_only", a) \/ Enter(w, "backing_up", a)
    BY <1>5
  <2> HIDE DEF a
  <2>3. Kept(w, a)
    BY <1>2, <2>1 DEF Kept, Sound, Proved, J
  <2>4. Stands([a EXCEPT !.at = "backing_up"])
    BY <1>1, <2>1, MovedTo DEF Stands, Before
  <2>5. "fallback_plan_only" \in Terminal /\ "fallback_plan_only" \in Outcome
    BY DEF Terminal, Outcome
  <2>6. QED
    BY <1>1, <2>1, <2>2, <2>3, <2>4, <2>5, EnterMoves, EndMoves
<1>6. QED
  BY <1>4, <1>5 DEF Plan, Fail

\* A record with more in it than its worker's is handed on.
LEMMA Grown ==
    ASSUME JobsIInv, NEW w \in Workers, worker[w].at # "idle", NEW a \in Worker,
           a.j = worker[w].j, worker[w].passed \subseteq a.passed, a.pulse = worker[w].pulse,
           a.end = worker[w].end, a.outcome = worker[w].outcome,
           "commit" \in a.passed => Proved(a)
    PROVE  Kept(w, a)
<1>1. Sound(worker[w])
  BY WorkerIs
<1>2. QED
  BY <1>1 DEF Kept, Sound, Proved, J

LEMMA BackupActs ==
    ASSUME JobsIInv, NEW w \in Workers, Backup(w)
    PROVE  WorkerMoves(w) /\ JobMoves(w) /\ PlaceMoves(w)
<1>1. /\ worker[w].at = "backing_up" /\ UNCHANGED <<service, pending, worktree, primary>>
      /\ beat' = [beat EXCEPT ![J(w)] = "fresh"]
  BY DEF Backup
<1>2. Kept(w, worker[w]) /\ worker[w] \in Worker /\ worker[w].passed = {}
  BY <1>1, WorkerIs DEF Stands, Before
<1>3. SUFFICES WorkerMoves(w) /\ JobMoves(w) /\ "branch" \notin worker'[w].passed
  <2>1. worktree' = [worktree EXCEPT ![J(w)] = worktree[J(w)]]
    BY <1>1 DEF JobsIInv, TypeOK
  <2>2. QED
    BY <1>1, <2>1, PrimaryIs DEF PlaceMoves
<1>5. PICK light \in BOOLEAN :
         LET a == [worker[w] EXCEPT !.light = light, !.snap = Archived(primary, light),
                                    !.passed = {"backup"}]
         IN  \/ Fail(w, worker[w])
             \/ EndWith(w, "blocked", "none", a)
             \/ Enter(w, IF IsRepo THEN "branching" ELSE "editing",
                      [a EXCEPT !.passed = @ \cup {"policy"}])
  BY Zenon DEF Backup
<1> DEFINE a == [worker[w] EXCEPT !.light = light, !.snap = Archived(primary, light),
                                  !.passed = {"backup"}]
           b == [a EXCEPT !.passed = @ \cup {"policy"}]
<1>4. /\ a \in Worker /\ a.j = worker[w].j /\ a.passed = {"backup"} /\ a.pulse = worker[w].pulse
      /\ a.end = worker[w].end /\ a.outcome = worker[w].outcome
  <2>1. Archived(primary, light) \in SUBSET Mark
    BY DEF Archived, Existing, Loose, JobsIInv, TypeOK
  <2>2. QED
    BY <1>2, <2>1 DEF Worker, Check
<1>11. \/ Fail(w, worker[w])
       \/ EndWith(w, "blocked", "none", a)
       \/ Enter(w, IF IsRepo THEN "branching" ELSE "editing", b)
  BY <1>5
<1>12. b = [a EXCEPT !.passed = @ \cup {"policy"}]
  OBVIOUS
<1> HIDE DEF a, b
<1>6. /\ b \in Worker /\ b.j = worker[w].j /\ b.passed = {"backup", "policy"} /\ b.pulse = worker[w].pulse
      /\ b.end = worker[w].end /\ b.outcome = worker[w].outcome
  BY <1>4, <1>12 DEF Worker, Check
<1>7. Kept(w, a) /\ Kept(w, b)
  BY <1>1, <1>2, <1>4, <1>6, Grown
<1>8. CASE Fail(w, worker[w]) \/ EndWith(w, "blocked", "none", a)
  <2>1. {"blocked", "failed"} \subseteq Terminal /\ {"none", "failed"} \subseteq Outcome
    BY DEF Terminal, Outcome
  <2>2. QED
    BY <1>1, <1>2, <1>4, <1>7, <1>8, <2>1, EndMoves DEF Fail
<1>9. ASSUME NEW stage \in {"branching", "editing"}, Enter(w, stage, b)
      PROVE  WorkerMoves(w) /\ JobMoves(w) /\ "branch" \notin worker'[w].passed
  <2>1. stage \in Interruptible
    BY DEF Interruptible
  <2>2. Stands([b EXCEPT !.at = stage])
    BY <1>6, <2>1, MovedTo DEF Stands, Before
  <2>3. QED
    BY <1>1, <1>6, <1>7, <1>9, <2>1, <2>2, EnterMoves
<1>10. QED
  BY <1>11, <1>8, <1>9

LEMMA BranchActs ==
    ASSUME JobsIInv, NEW w \in Workers, Branch(w)
    PROVE  WorkerMoves(w) /\ JobMoves(w) /\ PlaceMoves(w)
<1>1. worker[w].at = "branching" /\ UNCHANGED <<beat, service, pending, primary>>
  BY DEF Branch
<1>2. /\ Kept(w, worker[w]) /\ worker[w] \in Worker /\ J(w) \in Jobs
      /\ "branch" \notin worker[w].passed /\ {"backup", "policy"} \subseteq worker[w].passed
  BY <1>1, WorkerIs DEF Stands
<1>3. worktree \in [Jobs -> Workers \cup {None}] /\ primary' \subseteq Mark
  BY <1>1, PrimaryIs DEF JobsIInv, TypeOK
<1>4. ASSUME Enter(w, "editing", [worker[w] EXCEPT !.passed = @ \cup {"branch"}]),
             worktree' = IF service.isolated THEN [worktree EXCEPT ![J(w)] = w] ELSE worktree
      PROVE  WorkerMoves(w) /\ JobMoves(w) /\ PlaceMoves(w)
  <2> DEFINE a == [worker[w] EXCEPT !.passed = @ \cup {"branch"}]
  <2>1. /\ a \in Worker /\ a.j = worker[w].j /\ a.passed = worker[w].passed \cup {"branch"}
        /\ a.pulse = worker[w].pulse /\ a.end = worker[w].end /\ a.outcome = worker[w].outcome
    BY <1>2 DEF Worker, Check
  <2>2. Enter(w, "editing", a)
    BY <1>4
  <2> HIDE DEF a
  <2>3. Kept(w, a)
    <3>1. "commit" \in a.passed => Proved(a)
      BY <1>2, <2>1 DEF Kept, Sound, Proved
    <3>2. QED
      BY <1>1, <2>1, <3>1, Grown
  <2>4. "editing" \in Interruptible
    BY DEF Interruptible
  <2>5. Stands([a EXCEPT !.at = "editing"])
    BY <1>2, <2>1, <2>4, MovedTo DEF Stands, Before
  <2>6. WorkerMoves(w) /\ JobMoves(w)
    BY <1>1, <2>2, <2>3, <2>4, <2>5, EnterMoves
  <2>7. \E v \in {None, w, worktree[J(w)]} : worktree' = [worktree EXCEPT ![J(w)] = v]
    BY <1>3, <1>4
  <2>8. InWorktree => worktree'[J(w)] = w
    BY <1>2, <1>3, <1>4 DEF InWorktree
  <2>9. QED
    BY <1>1, <1>3, <2>6, <2>7, <2>8 DEF PlaceMoves
<1>5. ASSUME Fail(w, worker[w]),
             worktree' = worktree \/ worktree' = [worktree EXCEPT ![J(w)] = None]
      PROVE  WorkerMoves(w) /\ JobMoves(w) /\ PlaceMoves(w)
  <2>1. "failed" \in Terminal /\ "failed" \in Outcome
    BY DEF Terminal, Outcome
  <2>2. WorkerMoves(w) /\ JobMoves(w) /\ "branch" \notin worker'[w].passed
    BY <1>1, <1>2, <1>5, <2>1, EndMoves DEF Fail
  <2>3. \E v \in {None, w, worktree[J(w)]} : worktree' = [worktree EXCEPT ![J(w)] = v]
    BY <1>3, <1>5
  <2>4. QED
    BY <1>1, <1>3, <2>2, <2>3 DEF PlaceMoves
<1>6. QED
  BY <1>4, <1>5 DEF Branch

----------------------------------------------------------------------------
(* The edit, the tests and what follows them *)

\* A rollback leaves changes of the tree or of the archive, and the job fails.
LEMMA UndoMoves ==
    ASSUME JobsIInv, NEW w \in Workers, worker[w].at # "idle", NEW a, Kept(w, a),
           NEW tree, tree \subseteq Mark, UndoAndFail(w, a, tree)
    PROVE  /\ WorkerMoves(w) /\ JobMoves(w) /\ primary' \subseteq Mark
           /\ worker'[w].at = "finish" /\ worker'[w].passed = a.passed
<1>1. PICK restored \in {TRUE, InWorktree} :
         primary' = Restore(a, tree, restored) /\ Fail(w, [a EXCEPT !.undone = restored])
  BY DEF UndoAndFail
<1>2. restored \in BOOLEAN
  BY DEF InWorktree
<1>3. a \in Worker
  BY DEF Kept, Sound
<1>4. primary' \subseteq Mark
  <2>1. a.snap \subseteq Mark
    BY <1>3 DEF Worker
  <2>2. New(tree) \subseteq Mark /\ Existing(tree) \subseteq Mark
    BY DEF New, Existing
  <2>3. QED
    BY <1>1, <2>1, <2>2 DEF Restore, Extracted, Loose
<1> DEFINE b == [a EXCEPT !.undone = restored]
<1>5. /\ b \in Worker /\ b.j = a.j /\ b.passed = a.passed /\ b.pulse = a.pulse
      /\ b.end = a.end /\ b.outcome = a.outcome
  BY <1>2, <1>3 DEF Worker
<1>6. EndWith(w, "failed", "failed", b)
  BY <1>1 DEF Fail
<1> HIDE DEF b
<1>7. Kept(w, b)
  BY <1>5 DEF Kept, Sound, Proved
<1>8. "failed" \in Terminal /\ "failed" \in Outcome
  BY DEF Terminal, Outcome
<1>9. QED
  BY <1>4, <1>5, <1>6, <1>7, <1>8, EndMoves

LEMMA RaisesMoves ==
    ASSUME JobsIInv, NEW w \in Workers, worker[w].at # "idle", NEW M \in SUBSET Marks(w),
           ApplyRaises(w, M)
    PROVE  /\ WorkerMoves(w) /\ JobMoves(w) /\ primary' \subseteq Mark
           /\ worker'[w].at = "finish" /\ worker'[w].passed = worker[w].passed
<1>1. PICK recorded \in {{}, M} :
         UndoAndFail(w, [worker[w] EXCEPT !.made = @ \cup recorded], Landed(M))
  BY DEF ApplyRaises
<1>2. M \subseteq Mark /\ recorded \subseteq Mark
  BY DEF Marks, Mark
<1>3. Landed(M) \subseteq Mark
  BY <1>2 DEF Landed, JobsIInv, TypeOK
<1>4. worker[w] \in Worker /\ Kept(w, worker[w])
  BY WorkerIs
<1> DEFINE a == [worker[w] EXCEPT !.made = @ \cup recorded]
<1>5. /\ a \in Worker /\ a.j = worker[w].j /\ a.passed = worker[w].passed /\ a.pulse = worker[w].pulse
      /\ a.end = worker[w].end /\ a.outcome = worker[w].outcome
  BY <1>2, <1>4 DEF Worker
<1>6. UndoAndFail(w, a, Landed(M))
  BY <1>1
<1> HIDE DEF a
<1>7. Kept(w, a)
  BY <1>4, <1>5 DEF Kept, Sound, Proved
<1>8. QED
  BY <1>3, <1>5, <1>6, <1>7, UndoMoves

\* A stage that touches only the tree, and whose worker keeps its branch.
LEMMA TreePlace ==
    ASSUME JobsIInv, NEW w \in Workers, UNCHANGED <<beat, service, pending, worktree>>,
           primary' \subseteq Mark, worker[w].at \in {"editing", "testing", "committing", "pushing"},
           "branch" \in worker'[w].passed => "branch" \in worker[w].passed
    PROVE  PlaceMoves(w)
<1>1. worker[w].at \in Holding /\ worker[w].at \notin {"idle", "begin"}
  BY DEF Holding, Interruptible
<1>2. QED
  BY <1>1, UntouchedPlace DEF Untouched

LEMMA EditActs ==
    ASSUME JobsIInv, NEW w \in Workers, Edit(w)
    PROVE  WorkerMoves(w) /\ JobMoves(w) /\ PlaceMoves(w)
<1>1. worker[w].at = "editing" /\ UNCHANGED <<beat, service, pending, worktree>>
  BY DEF Edit
<1>2. worker[w] \in Worker /\ Kept(w, worker[w]) /\ {"backup", "policy"} \subseteq worker[w].passed
  BY <1>1, WorkerIs DEF Stands
<1>3. SUFFICES /\ WorkerMoves(w) /\ JobMoves(w) /\ primary' \subseteq Mark
               /\ worker'[w].passed = worker[w].passed
  BY <1>1, TreePlace
<1>4. ASSUME NEW M \in SUBSET Marks(w), primary' = Landed(M),
             Enter(w, "testing", [worker[w] EXCEPT !.made = M])
      PROVE  /\ WorkerMoves(w) /\ JobMoves(w) /\ primary' \subseteq Mark
             /\ worker'[w].passed = worker[w].passed
  <2> DEFINE a == [worker[w] EXCEPT !.made = M]
  <2>1. M \subseteq Mark
    BY DEF Marks, Mark
  <2>2. primary' \subseteq Mark
    BY <1>4, <2>1 DEF Landed, JobsIInv, TypeOK
  <2>3. /\ a \in Worker /\ a.j = worker[w].j /\ a.passed = worker[w].passed /\ a.pulse = worker[w].pulse
        /\ a.end = worker[w].end /\ a.outcome = worker[w].outcome
    BY <1>2, <2>1 DEF Worker
  <2>4. Enter(w, "testing", a)
    BY <1>4
  <2> HIDE DEF a
  <2>5. Kept(w, a)
    BY <1>2, <2>3 DEF Kept, Sound, Proved
  <2>6. "testing" \in Interruptible
    BY DEF Interruptible
  <2>7. Stands([a EXCEPT !.at = "testing"])
    BY <1>2, <2>3, <2>6, MovedTo DEF Stands, Before
  <2>8. QED
    BY <1>1, <2>2, <2>3, <2>4, <2>5, <2>6, <2>7, EnterMoves
<1>5. ASSUME NEW M \in SUBSET Marks(w), ApplyRaises(w, M)
      PROVE  /\ WorkerMoves(w) /\ JobMoves(w) /\ primary' \subseteq Mark
             /\ worker'[w].passed = worker[w].passed
  BY <1>1, <1>5, RaisesMoves
<1>6. \A M \in SUBSET IF worker[w].light THEN New(Marks(w)) ELSE Marks(w) : M \in SUBSET Marks(w)
  BY DEF New
<1>7. QED
  BY <1>4, <1>5, <1>6 DEF Edit

\* A worker that has passed the tests goes on, or completes its job.
LEMMA CompleteMoves ==
    ASSUME JobsIInv, NEW w \in Workers, worker[w].at # "idle", NEW a, Kept(w, a), Proved(a),
           Complete(w, a)
    PROVE  WorkerMoves(w) /\ JobMoves(w) /\ worker'[w].passed = a.passed
<1>1. /\ "completed" \in Terminal
      /\ {"success", "fallback_plan_only"} \subseteq Outcome
  BY DEF Terminal, Outcome
<1>2. PICK o \in {"success", "fallback_plan_only"} : EndWith(w, "completed", o, a)
  BY DEF Complete
<1>3. QED
  BY <1>1, <1>2, EndMoves

LEMMA PushOrCompleteMoves ==
    ASSUME JobsIInv, NEW w \in Workers, worker[w].at # "idle", NEW a, Kept(w, a), Proved(a),
           PushOrComplete(w, a)
    PROVE  WorkerMoves(w) /\ JobMoves(w) /\ worker'[w].passed = a.passed
<1>1. CASE Complete(w, a)
  BY <1>1, CompleteMoves
<1>2. CASE Enter(w, "pushing", a)
  <2>1. "pushing" \in Interruptible /\ a \in Worker
    BY DEF Interruptible, Kept, Sound
  <2>2. Stands([a EXCEPT !.at = "pushing"])
    BY <2>1, MovedTo DEF Stands, Before, Proved
  <2>3. QED
    BY <1>2, <2>1, <2>2, EnterMoves
<1>3. QED
  BY <1>1, <1>2 DEF PushOrComplete

LEMMA AfterTestsMoves ==
    ASSUME JobsIInv, NEW w \in Workers, worker[w].at # "idle", NEW a, Kept(w, a), Proved(a),
           AfterTests(w, a)
    PROVE  WorkerMoves(w) /\ JobMoves(w) /\ worker'[w].passed = a.passed
<1>1. CASE PushOrComplete(w, a)
  BY <1>1, PushOrCompleteMoves
<1>2. CASE Enter(w, "committing", a)
  <2>1. "committing" \in Interruptible /\ a \in Worker
    BY DEF Interruptible, Kept, Sound
  <2>2. Stands([a EXCEPT !.at = "committing"])
    BY <2>1, MovedTo DEF Stands, Before, Proved
  <2>3. QED
    BY <1>2, <2>1, <2>2, EnterMoves
<1>3. QED
  BY <1>1, <1>2 DEF AfterTests

\* The worker's record with one check more.
LEMMA Passes ==
    ASSUME JobsIInv, NEW w \in Workers, worker[w].at # "idle", NEW c \in Check,
           Proved([worker[w] EXCEPT !.passed = @ \cup {c}])
    PROVE  /\ Kept(w, [worker[w] EXCEPT !.passed = @ \cup {c}])
           /\ [worker[w] EXCEPT !.passed = @ \cup {c}].passed = worker[w].passed \cup {c}
<1> DEFINE a == [worker[w] EXCEPT !.passed = @ \cup {c}]
<1>1. worker[w] \in Worker
  BY WorkerIs
<1>2. /\ a \in Worker /\ a.j = worker[w].j /\ a.passed = worker[w].passed \cup {c}
      /\ a.pulse = worker[w].pulse /\ a.end = worker[w].end /\ a.outcome = worker[w].outcome
  BY <1>1 DEF Worker
<1>3. Proved(a)
  OBVIOUS
<1> HIDE DEF a
<1>4. Kept(w, a)
  BY <1>2, <1>3, Grown
<1>5. QED
  BY <1>2, <1>4 DEF a

LEMMA TestsPassActs ==
    ASSUME JobsIInv, NEW w \in Workers, TestsPass(w)
    PROVE  WorkerMoves(w) /\ JobMoves(w) /\ PlaceMoves(w)
<1>1. worker[w].at = "testing" /\ UNCHANGED <<beat, service, pending, worktree, primary>>
  BY DEF TestsPass
<1>2. worker[w] \in Worker /\ {"backup", "policy"} \subseteq worker[w].passed
  BY <1>1, WorkerIs DEF Stands
<1> DEFINE a == [worker[w] EXCEPT !.passed = @ \cup {"tests"}]
<1>3. Proved(a) /\ "tests" \in Check
  BY <1>2 DEF Proved, Worker, Check
<1>4. Kept(w, a) /\ a.passed = worker[w].passed \cup {"tests"}
  BY <1>1, <1>3, Passes
<1>5. AfterTests(w, a)
  BY DEF TestsPass
<1> HIDE DEF a
<1>6. WorkerMoves(w) /\ JobMoves(w) /\ worker'[w].passed = worker[w].passed \cup {"tests"}
  BY <1>1, <1>3, <1>4, <1>5, AfterTestsMoves
<1>7. QED
  BY <1>1, <1>6, PrimaryIs, TreePlace

LEMMA TestsFailActs ==
    ASSUME JobsIInv, NEW w \in Workers, TestsFail(w)
    PROVE  WorkerMoves(w) /\ JobMoves(w) /\ PlaceMoves(w)
<1>1. /\ worker[w].at = "testing" /\ UNCHANGED <<beat, service, pending, worktree>>
      /\ UndoAndFail(w, worker[w], primary)
  BY DEF TestsFail
<1>2. Kept(w, worker[w]) /\ primary \subseteq Mark
  BY <1>1, WorkerIs DEF JobsIInv, TypeOK
<1>3. /\ WorkerMoves(w) /\ JobMoves(w) /\ primary' \subseteq Mark
      /\ worker'[w].passed = worker[w].passed
  BY <1>1, <1>2, UndoMoves
<1>4. QED
  BY <1>1, <1>3, TreePlace

LEMMA CommitActs ==
    ASSUME JobsIInv, NEW w \in Workers, Commit(w)
    PROVE  WorkerMoves(w) /\ JobMoves(w) /\ PlaceMoves(w)
<1>1. worker[w].at = "committing" /\ UNCHANGED <<beat, service, pending, worktree>>
  BY DEF Commit
<1>2. /\ worker[w] \in Worker /\ Kept(w, worker[w]) /\ Proved(worker[w])
      /\ primary \subseteq Mark
  BY <1>1, WorkerIs DEF Stands, Proved, JobsIInv, TypeOK
<1>3. CASE /\ PushOrComplete(w, [worker[w] EXCEPT !.passed = @ \cup {"commit"}])
           /\ primary' = primary
  <2> DEFINE a == [worker[w] EXCEPT !.passed = @ \cup {"commit"}]
  <2>1. Proved(a) /\ "commit" \in Check
    BY <1>2 DEF Proved, Worker, Check
  <2>2. Kept(w, a) /\ a.passed = worker[w].passed \cup {"commit"}
    BY <1>1, <2>1, Passes
  <2>3. PushOrComplete(w, a)
    BY <1>3
  <2> HIDE DEF a
  <2>4. WorkerMoves(w) /\ JobMoves(w) /\ worker'[w].passed = worker[w].passed \cup {"commit"}
    BY <1>1, <2>1, <2>2, <2>3, PushOrCompleteMoves
  <2>5. QED
    BY <1>1, <1>2, <1>3, <2>4, TreePlace
<1>4. CASE UndoAndFail(w, worker[w], primary)
  <2>1. /\ WorkerMoves(w) /\ JobMoves(w) /\ primary' \subseteq Mark
        /\ worker'[w].passed = worker[w].passed
    BY <1>1, <1>2, <1>4, UndoMoves
  <2>2. QED
    BY <1>1, <2>1, TreePlace
<1>5. QED
  BY <1>3, <1>4 DEF Commit

LEMMA PushActs ==
    ASSUME JobsIInv, NEW w \in Workers, Push(w)
    PROVE  WorkerMoves(w) /\ JobMoves(w) /\ PlaceMoves(w)
<1>1. /\ worker[w].at = "pushing" /\ UNCHANGED <<beat, service, pending, worktree, primary>>
      /\ Complete(w, worker[w])
  BY DEF Push
<1>2. Kept(w, worker[w]) /\ Proved(worker[w])
  BY <1>1, WorkerIs DEF Stands, Proved
<1>3. WorkerMoves(w) /\ JobMoves(w) /\ worker'[w].passed = worker[w].passed
  BY <1>1, <1>2, CompleteMoves
<1>4. QED
  BY <1>1, <1>3, PrimaryIs, TreePlace

----------------------------------------------------------------------------
(* The begin, the repair, the end and what an exception does *)

LEMMA MovesTo ==
    ASSUME JobsIInv, NEW w \in Workers, worker[w].at # "idle", NEW r \in Worker,
           worker' = [worker EXCEPT ![w] = r],
           r.at \notin {"idle", "begin"}, Stands(r), r.j = worker[w].j,
           worker[w].passed \subseteq r.passed, worker[w].pulse => r.pulse,
           r.end = worker[w].end, r.outcome = worker[w].outcome,
           "commit" \in r.passed => "commit" \in worker[w].passed
    PROVE  WorkerMoves(w) /\ worker'[w] = r
<1>1. worker'[w] = r /\ Sound(worker[w])
  BY WorkerIs
<1>2. Sound(r)
  BY <1>1 DEF Sound, Proved
<1>3. QED
  BY <1>1, <1>2 DEF WorkerMoves, J

LEMMA SameJob == ASSUME JobsIInv, NEW w \in Workers, UNCHANGED job PROVE JobMoves(w)
BY DEF JobMoves, JobsIInv, TypeOK

LEMMA BeginActs ==
    ASSUME JobsIInv, NEW w \in Workers, Begin(w)
    PROVE  WorkerMoves(w) /\ JobMoves(w) /\ PlaceMoves(w)
<1> DEFINE r == [worker[w] EXCEPT !.at = "begun", !.pulse = TRUE]
<1>1. /\ worker[w].at = "begin" /\ UNCHANGED <<job, service, pending, worktree, primary>>
      /\ beat' = [beat EXCEPT ![J(w)] = "fresh"]
  BY DEF Begin
<1>2. worker \in [Workers -> Worker] /\ worker[w] \in Worker /\ J(w) \in Jobs /\ worker[w].passed = {}
  BY <1>1, WorkerIs DEF Stands, Before
<1>3. worker' = [worker EXCEPT ![w] = r]
  BY <1>2 DEF Begin
<1>4. /\ r \in Worker /\ r.at = "begun" /\ r.j = worker[w].j /\ r.passed = {} /\ r.pulse = TRUE
      /\ r.end = worker[w].end /\ r.outcome = worker[w].outcome
  BY <1>2 DEF Worker
<1> HIDE DEF r
<1>5. WorkerMoves(w) /\ worker'[w] = r
  BY <1>1, <1>2, <1>3, <1>4, MovesTo DEF Stands, Before
<1>6. worktree' = [worktree EXCEPT ![J(w)] = worktree[J(w)]] /\ beat'[J(w)] = "fresh"
  BY <1>1, <1>2 DEF JobsIInv, TypeOK
<1>7. PlaceMoves(w)
  BY <1>1, <1>4, <1>5, <1>6, PrimaryIs DEF PlaceMoves
<1>8. QED
  BY <1>1, <1>5, <1>7, SameJob

LEMMA RepairActs ==
    ASSUME JobsIInv, NEW w \in Workers, Repair(w)
    PROVE  WorkerMoves(w) /\ JobMoves(w) /\ PlaceMoves(w)
<1>1. /\ worker[w].at = "testing" /\ UNCHANGED <<beat, service, pending, worktree>>
      /\ worker[w].tries < MaxRepairs
  BY DEF Repair, Repairable
<1>2. /\ worker \in [Workers -> Worker] /\ worker[w] \in Worker
      /\ {"backup", "policy"} \subseteq worker[w].passed
  BY <1>1, WorkerIs DEF Stands
<1>3. SUFFICES /\ WorkerMoves(w) /\ JobMoves(w) /\ primary' \subseteq Mark
               /\ worker'[w].passed = worker[w].passed
  BY <1>1, TreePlace
<1>4. ASSUME NEW M \in SUBSET Marks(w), primary' = Landed(M),
             worker' = [worker EXCEPT ![w].made = @ \cup M, ![w].tries = @ + 1], job' = job
      PROVE  /\ WorkerMoves(w) /\ JobMoves(w) /\ primary' \subseteq Mark
             /\ worker'[w].passed = worker[w].passed
  <2> DEFINE r == [worker[w] EXCEPT !.made = @ \cup M, !.tries = @ + 1]
  <2>1. M \subseteq Mark
    BY DEF Marks, Mark
  <2>2. primary' \subseteq Mark
    BY <1>4, <2>1 DEF Landed, JobsIInv, TypeOK
  <2>3. worker' = [worker EXCEPT ![w] = r]
    BY <1>2, <1>4
  <2>4. worker[w].made \cup M \subseteq Mark /\ worker[w].tries + 1 \in 0..MaxRepairs
    BY <1>1, <1>2, <2>1, RuntimeAssumption DEF Worker
  <2>5. /\ r \in Worker /\ r.at = "testing" /\ r.j = worker[w].j /\ r.passed = worker[w].passed
        /\ r.pulse = worker[w].pulse /\ r.end = worker[w].end /\ r.outcome = worker[w].outcome
    BY <1>1, <1>2, <2>4 DEF Worker
  <2> HIDE DEF r
  <2>6. Stands(r)
    BY <1>2, <2>5 DEF Stands, Before
  <2>7. WorkerMoves(w) /\ worker'[w] = r
    BY <1>1, <2>3, <2>5, <2>6, MovesTo
  <2>8. QED
    BY <1>4, <2>2, <2>5, <2>7, SameJob
<1>5. ASSUME NEW M \in SUBSET Marks(w), ApplyRaises(w, M)
      PROVE  /\ WorkerMoves(w) /\ JobMoves(w) /\ primary' \subseteq Mark
             /\ worker'[w].passed = worker[w].passed
  BY <1>1, <1>5, RaisesMoves
<1>6. QED
  BY <1>4, <1>5 DEF Repair

\* The end the pipeline proposes is its outcome's: completed is a success, and earned.
LEMMA FinishActs ==
    ASSUME JobsIInv, NEW w \in Workers, Finish(w)
    PROVE  WorkerMoves(w) /\ JobMoves(w) /\ PlaceMoves(w)
<1> DEFINE a == worker[w]
           proposed == TerminalStatusFor(a.outcome, a.end)
<1>1. a.at = "finish" /\ UNCHANGED <<beat, service, pending, worktree, primary>>
  BY DEF Finish
<1>2. worker \in [Workers -> Worker] /\ a \in Worker /\ Sound(a) /\ J(w) \in Jobs
  BY <1>1, WorkerIs
<1>3. PICK allowed \in BOOLEAN :
        /\ job' = [job EXCEPT
              ![J(w)].status = IF proposed = "completed" /\ ~allowed THEN "blocked" ELSE proposed,
              ![J(w)].outcome = IF a.outcome = "none" THEN @ ELSE a.outcome]
        /\ worker' = [worker EXCEPT
              ![w].at = IF HasWorkspace(w) THEN "cleanup" ELSE "done",
              ![w].passed = IF allowed THEN @ \cup {"gate"} ELSE @]
  BY DEF Finish
<1>4. a.end \in Terminal /\ a.outcome \in Outcome /\ a.passed \subseteq Check
  BY <1>2 DEF Worker
<1> DEFINE at == IF HasWorkspace(w) THEN "cleanup" ELSE "done"
           passed == IF allowed THEN a.passed \cup {"gate"} ELSE a.passed
           status == IF proposed = "completed" /\ ~allowed THEN "blocked" ELSE proposed
           outcome == IF a.outcome = "none" THEN job[J(w)].outcome ELSE a.outcome
           r == [a EXCEPT !.at = at, !.passed = passed]
<1>5. at \in {"cleanup", "done"} /\ passed \subseteq Check /\ a.passed \subseteq passed
  BY <1>4 DEF Check
<1>6. /\ status \in Terminal
      /\ status = "completed" =>
           a.outcome = "success" /\ "gate" \in passed /\ Proved(a)
  BY <1>2, <1>4 DEF TerminalStatusFor, Terminal, Outcome, Sound
<1>7. worker' = [worker EXCEPT ![w] = r]
  BY <1>2, <1>3
<1>8. job' = [job EXCEPT ![J(w)] = [job[J(w)] EXCEPT !.status = status, !.outcome = outcome]]
  BY <1>2, <1>3 DEF JobsIInv, TypeOK
<1>9. "commit" \in passed => "commit" \in a.passed
  OBVIOUS
<1> HIDE DEF at, passed, status, proposed
<1>10. /\ r \in Worker /\ r.at = at /\ r.j = a.j /\ r.passed = passed /\ r.pulse = a.pulse
       /\ r.end = a.end /\ r.outcome = a.outcome
  BY <1>2, <1>5 DEF Worker
<1> HIDE DEF r
<1>11. WorkerMoves(w) /\ worker'[w] = r
  BY <1>1, <1>5, <1>7, <1>9, <1>10, MovesTo DEF Stands, Before
<1>12. JobMoves(w)
  <2>1. job \in [Jobs -> Job] /\ job[J(w)] \in Job
    BY <1>2 DEF JobsIInv, TypeOK
  <2>2. status \in Status /\ outcome \in Outcome
    BY <1>4, <1>6, <2>1 DEF Status, Job
  <2>3. /\ [job[J(w)] EXCEPT !.status = status, !.outcome = outcome] \in Job
        /\ [job[J(w)] EXCEPT !.status = status, !.outcome = outcome].status = status
        /\ [job[J(w)] EXCEPT !.status = status, !.outcome = outcome].outcome = outcome
    <3> HIDE DEF outcome
    <3>1. QED
      BY <2>1, <2>2 DEF Job
  <2>4. /\ job' \in [Jobs -> Job] /\ \A j \in Jobs : j # J(w) => job'[j] = job[j]
        /\ job'[J(w)].status = status /\ job'[J(w)].outcome = outcome
    BY <1>2, <1>8, <2>1, <2>3
  <2>5. status = "completed" =>
          outcome = "success" /\ Proved(worker'[w]) /\ "gate" \in worker'[w].passed
    BY <1>5, <1>6, <1>10, <1>11 DEF Proved
  <2>6. QED
    BY <1>6, <2>4, <2>5 DEF JobMoves
<1>13. "branch" \in passed => "branch" \in a.passed
  BY DEF passed
<1>14. a.at \in Holding /\ a.at \notin {"idle", "begin"}
  BY <1>1 DEF Holding
<1>15. PlaceMoves(w)
  BY <1>1, <1>10, <1>11, <1>13, <1>14, PrimaryIs, UntouchedPlace DEF Untouched
<1>16. QED
  BY <1>11, <1>12, <1>15

\* A worker that only changes its place, to one outside the stages.
LEMMA Leaves ==
    ASSUME JobsIInv, NEW w \in Workers, worker[w].at # "idle",
           NEW s \in {"unwind", "handler", "done", "dead"}, worker' = [worker EXCEPT ![w].at = s]
    PROVE  WorkerMoves(w) /\ worker'[w].at = s /\ worker'[w].passed = worker[w].passed
<1> DEFINE r == [worker[w] EXCEPT !.at = s]
<1>1. worker[w] \in Worker /\ worker \in [Workers -> Worker]
  BY WorkerIs
<1>2. worker' = [worker EXCEPT ![w] = r]
  BY <1>1
<1>3. /\ r \in Worker /\ r.at = s /\ r.j = worker[w].j /\ r.passed = worker[w].passed
      /\ r.pulse = worker[w].pulse /\ r.end = worker[w].end /\ r.outcome = worker[w].outcome
  BY <1>1 DEF Worker
<1> HIDE DEF r
<1>4. r.at \notin {"idle", "begin"} /\ Stands(r)
  BY <1>3 DEF Stands, Before
<1>5. worker[w].pulse => r.pulse
  BY <1>3
<1>6. WorkerMoves(w) /\ worker'[w] = r
  BY <1>2, <1>3, <1>4, <1>5, MovesTo
<1>7. QED
  BY <1>3, <1>6

LEMMA CrashActs ==
    ASSUME JobsIInv, NEW w \in Workers, Crash(w)
    PROVE  WorkerMoves(w) /\ JobMoves(w) /\ PlaceMoves(w)
<1>1. /\ worker[w].at \in Interruptible \cup {"begin", "begun", "finish"}
      /\ UNCHANGED <<job, beat, service, pending, worktree, primary>>
  BY DEF Crash
<1>2. worker[w].at # "idle"
  BY <1>1 DEF Interruptible
<1>3. PICK s \in {"unwind", "handler", "done"} :
        /\ worker' = [worker EXCEPT ![w].at = s]
        /\ worker[w].at = "begin" => s = "done"
        /\ s = "unwind" => HasWorkspace(w) /\ worker[w].at # "begin"
  <2>1. worker \in [Workers -> Worker]
    BY <1>2, WorkerIs
  <2>2. QED
    BY <2>1 DEF Crash
<1>4. WorkerMoves(w) /\ worker'[w].at = s /\ worker'[w].passed = worker[w].passed
  BY <1>2, <1>3, Leaves
<1>5. worktree' = [worktree EXCEPT ![J(w)] = worktree[J(w)]]
  BY <1>1 DEF JobsIInv, TypeOK
<1>6. "branch" \in worker'[w].passed /\ worker'[w].at \in Holding =>
         "branch" \in worker[w].passed /\ worker[w].at \in Holding
  <2>1. {"handler", "done"} \cap Holding = {}
    BY DEF Holding, Interruptible
  <2>2. worker[w].at \notin {"begin", "begun"} => worker[w].at \in Holding
    BY <1>1 DEF Holding
  <2>3. worker[w].at = "begun" => worker[w].passed = {}
    BY <1>2, WorkerIs DEF Stands, Before
  <2>4. QED
    BY <1>3, <1>4, <2>1, <2>2, <2>3
<1>7. PlaceMoves(w)
  BY <1>1, <1>3, <1>4, <1>5, <1>6, PrimaryIs DEF PlaceMoves, Ended
<1>8. QED
  BY <1>1, <1>4, <1>7, SameJob

LEMMA BranchRaisesActs ==
    ASSUME JobsIInv, NEW w \in Workers, BranchRaises(w)
    PROVE  WorkerMoves(w) /\ JobMoves(w) /\ PlaceMoves(w)
<1>1. /\ worker[w].at = "branching" /\ worker' = [worker EXCEPT ![w].at = "handler"]
      /\ worktree' = [worktree EXCEPT ![J(w)] = w]
      /\ UNCHANGED <<job, beat, service, pending, primary>>
  BY DEF BranchRaises
<1>2. WorkerMoves(w) /\ worker'[w].at = "handler"
  BY <1>1, Leaves
<1>3. "handler" \notin Holding
  BY DEF Holding, Interruptible
<1>4. PlaceMoves(w)
  BY <1>1, <1>2, <1>3, PrimaryIs DEF PlaceMoves
<1>5. QED
  BY <1>1, <1>2, <1>4, SameJob

LEMMA HandlerActs ==
    ASSUME JobsIInv, NEW w \in Workers, Handler(w)
    PROVE  WorkerMoves(w) /\ JobMoves(w) /\ PlaceMoves(w)
<1>1. /\ worker[w].at = "handler" /\ worker' = [worker EXCEPT ![w].at = "done"]
      /\ UNCHANGED <<beat, service, pending, worktree, primary>>
  BY DEF Handler
<1>2. WorkerMoves(w) /\ worker'[w].at = "done"
  BY <1>1, Leaves
<1>3. "done" \notin Holding
  BY DEF Holding, Interruptible
<1>4. PlaceMoves(w)
  BY <1>1, <1>2, <1>3, PrimaryIs, UntouchedPlace DEF Untouched
<1>5. JobMoves(w)
  <2>1. CASE job' = job
    BY <2>1, SameJob
  <2>2. CASE job' = [job EXCEPT ![J(w)].status = "failed", ![J(w)].outcome = "failed"]
    <3>1. job \in [Jobs -> Job] /\ J(w) \in Jobs
      BY <1>1, WorkerIs DEF JobsIInv, TypeOK
    <3>2. job' = [job EXCEPT ![J(w)] = [job[J(w)] EXCEPT !.status = "failed", !.outcome = "failed"]]
      BY <2>2, <3>1
    <3>3. /\ [job[J(w)] EXCEPT !.status = "failed", !.outcome = "failed"] \in Job
          /\ [job[J(w)] EXCEPT !.status = "failed", !.outcome = "failed"].status = "failed"
      BY <3>1 DEF Job, Status, Terminal, Outcome
    <3>4. /\ job' \in [Jobs -> Job] /\ job'[J(w)].status = "failed"
          /\ \A j \in Jobs : j # J(w) => job'[j] = job[j]
      BY <3>1, <3>2, <3>3
    <3>5. QED
      BY <3>4 DEF JobMoves, Terminal
  <2>3. QED
    BY <2>1, <2>2 DEF Handler
<1>6. QED
  BY <1>2, <1>4, <1>5

LEMMA CleanupActs ==
    ASSUME JobsIInv, NEW w \in Workers, Cleanup(w)
    PROVE  WorkerMoves(w) /\ JobMoves(w) /\ PlaceMoves(w)
<1>1. /\ worker[w].at \in {"cleanup", "unwind"}
      /\ UNCHANGED <<job, beat, service, pending, primary>>
  BY DEF Cleanup
<1>2. worker \in [Workers -> Worker] /\ worker[w] \in Worker
  BY <1>1, WorkerIs
<1>3. {"handler", "done"} \cap Holding = {}
  BY DEF Holding, Interruptible
<1>4. SUFFICES /\ WorkerMoves(w) /\ worker'[w].at \in {"handler", "done"}
               /\ \E v \in {None, w, worktree[J(w)]} : worktree' = [worktree EXCEPT ![J(w)] = v]
  BY <1>1, <1>3, SameJob, PrimaryIs DEF PlaceMoves
<1>5. ASSUME NEW s \in {"done", "handler"}, worker' = [worker EXCEPT ![w].at = s],
             worktree' = [worktree EXCEPT ![J(w)] = None]
      PROVE  /\ WorkerMoves(w) /\ worker'[w].at \in {"handler", "done"}
             /\ \E v \in {None, w, worktree[J(w)]} : worktree' = [worktree EXCEPT ![J(w)] = v]
  <2>1. WorkerMoves(w) /\ worker'[w].at = s
    BY <1>1, <1>5, Leaves
  <2>2. QED
    BY <1>5, <2>1
<1>6. CASE /\ worktree' = worktree
           /\ worker' = [worker EXCEPT ![w].at = "handler", ![w].passed = @ \cup {"leftover"}]
  <2> DEFINE r == [worker[w] EXCEPT !.at = "handler", !.passed = @ \cup {"leftover"}]
  <2>1. worker' = [worker EXCEPT ![w] = r]
    BY <1>2, <1>6
  <2>2. /\ r \in Worker /\ r.at = "handler" /\ r.j = worker[w].j
        /\ r.passed = worker[w].passed \cup {"leftover"}
        /\ r.pulse = worker[w].pulse /\ r.end = worker[w].end /\ r.outcome = worker[w].outcome
    BY <1>2 DEF Worker, Check
  <2> HIDE DEF r
  <2>3. WorkerMoves(w) /\ worker'[w] = r
    BY <1>1, <2>1, <2>2, MovesTo DEF Stands, Before
  <2>4. worktree' = [worktree EXCEPT ![J(w)] = worktree[J(w)]]
    BY <1>6 DEF JobsIInv, TypeOK
  <2>5. QED
    BY <2>2, <2>3, <2>4
<1>7. QED
  <2>1. CASE worktree' = worktree /\ worker' = [worker EXCEPT ![w].at = "handler", ![w].passed = @ \cup {"leftover"}]
    BY <1>6, <2>1
  <2>2. CASE /\ worktree' = [worktree EXCEPT ![J(w)] = None]
             /\ worker' = [worker EXCEPT ![w].at = IF @ = "cleanup" THEN "done" ELSE "handler"]
    <3>1. PICK s \in {"done", "handler"} : worker' = [worker EXCEPT ![w].at = s]
      BY <2>2
    <3>2. QED
      BY <1>5, <2>2, <3>1
  <2>3. QED
    BY <2>1, <2>2 DEF Cleanup

\* A step of a pipeline is a move of its worker, of the row of its job and of its place.
LEMMA PipelineActs ==
    ASSUME JobsIInv, NEW w \in Workers, Stage(w) \/ BranchRaises(w) \/ Crash(w)
    PROVE  WorkerMoves(w) /\ JobMoves(w) /\ PlaceMoves(w)
BY BeginActs, StartPlanningActs, PlanActs, BackupActs, BranchActs, EditActs, TestsPassActs,
   TestsFailActs, RepairActs, CommitActs, PushActs, FinishActs, CleanupActs, HandlerActs,
   BranchRaisesActs, CrashActs
   DEF Stage

----------------------------------------------------------------------------
(* The record is true *)

LEMMA IdleIs ==
    /\ IdleWorker \in Worker /\ IdleWorker.at = "idle" /\ IdleWorker.passed = {}
    /\ IdleWorker.pulse = FALSE
BY RuntimeAssumption DEF IdleWorker, Worker, Terminal, Outcome

\* What keeps the record true, whoever moves: workers lose neither their job nor what
\* they have passed, and a job that becomes completed is a success somebody earned.
LEMMA StillTrue ==
    ASSUME JobsIInv, TypeOK',
           \A v \in Workers : Fine(worker'[v]),
           \A v \in Workers : worker[v].at # "idle" =>
              worker'[v].j = worker[v].j /\ worker[v].passed \subseteq worker'[v].passed,
           \A j \in Jobs : job'[j].status = "completed" =>
              \/ job'[j] = job[j]
              \/ /\ job'[j].outcome = "success"
                 /\ \E v \in Workers : /\ worker'[v].j = j
                                       /\ {"backup", "policy", "tests", "gate"} \subseteq worker'[v].passed
    PROVE  JobsIInv'
<1>1. Truthful'
  BY DEF JobsIInv, Truthful
<1>2. ASSUME NEW v \in Workers, "commit" \in worker'[v].passed PROVE Proved(worker'[v])
  BY <1>2, IdleIs DEF Fine, Sound
<1>3. ASSUME NEW j \in Jobs, job'[j].status = "completed"
      PROVE  \E v \in Workers : /\ worker'[v].j = j
                                /\ {"backup", "policy", "tests", "gate"} \subseteq worker'[v].passed
  <2>1. CASE job'[j] = job[j]
    <3>1. PICK v \in Workers :
             worker[v].j = j /\ {"backup", "policy", "tests", "gate"} \subseteq worker[v].passed
      BY <1>3, <2>1 DEF JobsIInv, Earned, J
    <3>2. worker[v].at # "idle"
      BY <3>1, IdleIs DEF JobsIInv, Fine
    <3>3. QED
      BY <3>1, <3>2
  <2>2. CASE job'[j] # job[j]
    BY <1>3, <2>2
  <2>3. QED
    BY <2>1, <2>2
<1>4. Earned'
  BY <1>2, <1>3 DEF Earned, J, Proved
<1>5. QED
  BY <1>1, <1>4 DEF JobsIInv

LEMMA MoveKeepsTruth ==
    ASSUME JobsIInv, NEW w \in Workers, worker[w].at # "idle",
           WorkerMoves(w), JobMoves(w), PlaceMoves(w)
    PROVE  JobsIInv'
<1>1. worker \in [Workers -> Worker] /\ J(w) \in Jobs /\ worker[w] \in Worker
  BY WorkerIs
<1>2. /\ worker' = [worker EXCEPT ![w] = worker'[w]] /\ worker'[w] \in Worker
      /\ Fine(worker'[w]) /\ worker'[w].j = J(w) /\ worker[w].passed \subseteq worker'[w].passed
  BY DEF WorkerMoves, Sound, Fine
<1>3. \A v \in Workers : v # w => worker'[v] = worker[v]
  BY <1>1, <1>2
<1>4. TypeOK'
  <2>1. worker' \in [Workers -> Worker]
    BY <1>1, <1>2
  <2>2. worktree' \in [Jobs -> Workers \cup {None}]
    <3>1. PICK v \in {None, w, worktree[J(w)]} : worktree' = [worktree EXCEPT ![J(w)] = v]
      BY DEF PlaceMoves
    <3>2. v \in Workers \cup {None} /\ worktree \in [Jobs -> Workers \cup {None}]
      BY <1>1 DEF JobsIInv, TypeOK
    <3>3. QED
      BY <3>1, <3>2
  <2>3. beat' \in [Jobs -> {"none", "fresh", "stale"}]
    BY DEF PlaceMoves, JobsIInv, TypeOK
  <2>4. job' \in [Jobs -> Job] /\ service' = service /\ pending' = pending /\ primary' \subseteq Mark
    BY DEF PlaceMoves, JobMoves
  <2>5. QED
    BY <2>1, <2>2, <2>3, <2>4 DEF JobsIInv, TypeOK
<1>5. \A v \in Workers : Fine(worker'[v])
  BY <1>2, <1>3 DEF JobsIInv
<1>6. \A v \in Workers : worker[v].at # "idle" =>
         worker'[v].j = worker[v].j /\ worker[v].passed \subseteq worker'[v].passed
  BY <1>2, <1>3 DEF J
<1>7. \A j \in Jobs : job'[j].status = "completed" =>
         \/ job'[j] = job[j]
         \/ /\ job'[j].outcome = "success"
            /\ \E v \in Workers : /\ worker'[v].j = j
                                  /\ {"backup", "policy", "tests", "gate"} \subseteq worker'[v].passed
  <2>1. SUFFICES ASSUME job'[J(w)].status = "completed", job'[J(w)] # job[J(w)]
                 PROVE  /\ job'[J(w)].outcome = "success"
                        /\ {"backup", "policy", "tests", "gate"} \subseteq worker'[w].passed
    BY <1>1, <1>2 DEF JobMoves
  <2>2. QED
    BY <2>1 DEF JobMoves, Proved
<1>8. QED
  BY <1>4, <1>5, <1>6, <1>7, StillTrue

\* The worker that execute_async starts.
LEMMA SpawnKeeps ==
    ASSUME JobsIInv, NEW j \in Jobs, Spawn(j)
    PROVE  /\ worker' \in [Workers -> Worker]
           /\ \A v \in Workers : Fine(worker'[v])
           /\ \A v \in Workers : worker[v].at # "idle" => worker'[v] = worker[v]
           /\ \A v \in Workers : \/ worker'[v] = worker[v]
                                 \/ worker'[v].at = "begin" /\ worker'[v].j = j
           /\ \A u, v \in Workers : worker'[u] # worker[u] /\ worker'[v] # worker[v] => u = v
<1> DEFINE r == [IdleWorker EXCEPT !.at = "begin", !.j = j]
<1>1. PICK w \in Workers : worker[w].at = "idle" /\ worker' = [worker EXCEPT ![w] = r]
  BY DEF Spawn
<1>2. /\ r \in Worker /\ r.at = "begin" /\ r.j = j /\ r.passed = {} /\ r.end = "failed"
  <2>1. IdleWorker.end = "failed"
    BY DEF IdleWorker
  <2>2. QED
    BY <2>1, IdleIs DEF Worker
<1> HIDE DEF r
<1>3. Fine(r)
  BY <1>2 DEF Fine, Sound, Stands, Before
<1>4. worker \in [Workers -> Worker]
  BY DEF JobsIInv, TypeOK
<1>5. worker' \in [Workers -> Worker] /\ worker'[w] = r /\ \A v \in Workers : v # w => worker'[v] = worker[v]
  BY <1>1, <1>2, <1>4
<1>6. QED
  BY <1>1, <1>2, <1>3, <1>5 DEF JobsIInv

\* A change of the table alone, which completes no job.
LEMMA TableKeepsTruth ==
    ASSUME JobsIInv, TypeOK', UNCHANGED worker,
           \A j \in Jobs : job'[j] = job[j] \/ job'[j].status # "completed"
    PROVE  JobsIInv'
<1>1. \A v \in Workers : Fine(worker'[v])
  BY DEF JobsIInv
<1>2. QED
  BY <1>1, StillTrue

LEMMA WrittenStatus ==
    ASSUME JobsIInv, NEW j \in Jobs, NEW s \in Status, job' = [job EXCEPT ![j].status = s]
    PROVE  /\ job' \in [Jobs -> Job] /\ job'[j].status = s
           /\ \A i \in Jobs : i # j => job'[i] = job[i]
<1>1. job \in [Jobs -> Job]
  BY DEF JobsIInv, TypeOK
<1>2. job' = [job EXCEPT ![j] = [job[j] EXCEPT !.status = s]]
  BY <1>1
<1>3. [job[j] EXCEPT !.status = s] \in Job /\ [job[j] EXCEPT !.status = s].status = s
  BY <1>1 DEF Job
<1>4. QED
  BY <1>1, <1>2, <1>3

LEMMA CreateJobIs ==
    ASSUME JobsIInv, NEW j \in Jobs, CreateJob(j)
    PROVE  /\ job' \in [Jobs -> Job]
           /\ job'[j].status \in {"waiting_approval", "queued"}
           /\ \A i \in Jobs : i # j => job'[i] = job[i]
           /\ \/ job'[j].status = "waiting_approval" /\ worker' = worker
              \/ job'[j].status = "queued" /\ Spawn(j)
<1>1. PICK wishes \in Wishes, approval \in BOOLEAN :
        /\ job' = [job EXCEPT ![j] = [status |-> IF approval THEN "waiting_approval" ELSE "queued",
                                      outcome |-> "none", wishes |-> wishes]]
        /\ IF approval THEN worker' = worker ELSE Spawn(j)
  BY DEF CreateJob
<1> DEFINE s == IF approval THEN "waiting_approval" ELSE "queued"
           row == [status |-> s, outcome |-> "none", wishes |-> wishes]
<1>2. s \in {"waiting_approval", "queued"} /\ (s = "waiting_approval" <=> approval)
  OBVIOUS
<1> HIDE DEF s
<1>3. row \in Job /\ row.status = s
  BY <1>2, RuntimeAssumption DEF Job, Status, Outcome, Wish
<1>4. job \in [Jobs -> Job] /\ job' = [job EXCEPT ![j] = row]
  BY <1>1 DEF JobsIInv, TypeOK, s
<1> HIDE DEF row
<1>5. job' \in [Jobs -> Job] /\ job'[j].status = s /\ \A i \in Jobs : i # j => job'[i] = job[i]
  BY <1>3, <1>4
<1>6. QED
  BY <1>1, <1>2, <1>5

LEMMA RecoverIs ==
    ASSUME JobsIInv, NEW orphans, job' = Recovered(orphans)
    PROVE  /\ job' \in [Jobs -> Job]
           /\ \A j \in Jobs : IF j \in orphans THEN job'[j].status = "waiting_approval"
                              ELSE job'[j] = job[j]
<1>1. job \in [Jobs -> Job]
  BY DEF JobsIInv, TypeOK
<1>2. \A j \in Jobs : /\ [job[j] EXCEPT !.status = "waiting_approval"] \in Job
                      /\ [job[j] EXCEPT !.status = "waiting_approval"].status = "waiting_approval"
  BY <1>1 DEF Job, Status
<1>3. QED
  BY <1>1, <1>2 DEF Recovered

LEMMA StopIs ==
    ASSUME JobsIInv, ServiceStops
    PROVE  /\ worker' \in [Workers -> Worker]
           /\ \A v \in Workers : /\ Fine(worker'[v]) /\ worker'[v].at \in Ended
                                 /\ worker'[v].j = worker[v].j
                                 /\ worker'[v].passed = worker[v].passed
<1>1. SUFFICES ASSUME NEW v \in Workers
               PROVE  /\ worker'[v] \in Worker /\ Fine(worker'[v]) /\ worker'[v].at \in Ended
                      /\ worker'[v].j = worker[v].j /\ worker'[v].passed = worker[v].passed
  BY DEF ServiceStops
<1>2. worker \in [Workers -> Worker] /\ Fine(worker[v])
  BY DEF JobsIInv, TypeOK
<1>3. worker'[v] = IF Live(v) THEN [worker[v] EXCEPT !.at = "dead"] ELSE worker[v]
  BY DEF ServiceStops
<1>4. CASE ~Live(v)
  BY <1>2, <1>3, <1>4 DEF Live
<1>5. CASE Live(v)
  <2> DEFINE r == [worker[v] EXCEPT !.at = "dead"]
  <2>1. Sound(worker[v])
    BY <1>2, <1>5, IdleIs DEF Fine, Live, Ended
  <2>2. /\ r \in Worker /\ r.at = "dead" /\ r.j = worker[v].j /\ r.passed = worker[v].passed
        /\ r.end = worker[v].end /\ r.outcome = worker[v].outcome
    BY <1>2 DEF Worker
  <2>3. worker'[v] = r
    BY <1>3, <1>5
  <2> HIDE DEF r
  <2>4. Fine(r)
    BY <2>1, <2>2 DEF Fine, Sound, Proved, Stands, Before
  <2>5. QED
    BY <2>2, <2>3, <2>4 DEF Ended
<1>6. QED
  BY <1>4, <1>5

LEMMA PulseDiesIs ==
    ASSUME JobsIInv, NEW w \in Workers, PulseDies(w)
    PROVE  /\ worker' \in [Workers -> Worker]
           /\ \A v \in Workers : /\ Fine(worker'[v]) /\ worker'[v].j = worker[v].j
                                 /\ worker'[v].passed = worker[v].passed
<1> DEFINE r == [worker[w] EXCEPT !.pulse = FALSE]
<1>1. /\ worker \in [Workers -> Worker] /\ Sound(worker[w]) /\ Stands(worker[w])
      /\ worker[w].at # "idle"
  BY WorkerIs DEF PulseDies, Live, Ended
<1>2. worker' = [worker EXCEPT ![w] = r]
  BY <1>1 DEF PulseDies
<1>3. /\ r \in Worker /\ r.at = worker[w].at /\ r.j = worker[w].j /\ r.passed = worker[w].passed
      /\ r.end = worker[w].end /\ r.outcome = worker[w].outcome
  BY <1>1 DEF Worker
<1> HIDE DEF r
<1>4. Fine(r)
  BY <1>1, <1>3 DEF Fine, Sound, Proved, Stands
<1>5. QED
  BY <1>1, <1>2, <1>3, <1>4 DEF JobsIInv

LEMMA JobsStep == JobsIInv /\ [Next]_vars => JobsIInv'
<1> SUFFICES ASSUME JobsIInv, [Next]_vars PROVE JobsIInv'
  OBVIOUS
<1>0. TypeOK
  BY DEF JobsIInv
<1>1. ASSUME NEW w \in Workers, Stage(w) \/ BranchRaises(w) \/ Crash(w) PROVE JobsIInv'
  <2>1. worker[w].at # "idle"
    BY <1>1 DEF Stage, Begin, StartPlanning, Plan, Backup, Branch, Edit, TestsPass, TestsFail, Repair,
                Commit, Push, Finish, Cleanup, Handler, BranchRaises, Crash, Interruptible
  <2>2. QED
    BY <1>1, <2>1, PipelineActs, MoveKeepsTruth
<1>2. ASSUME NEW j \in Jobs, CreateJob(j) PROVE JobsIInv'
  <2>1. /\ worker' \in [Workers -> Worker] /\ \A v \in Workers : Fine(worker'[v])
        /\ \A v \in Workers : worker[v].at # "idle" => worker'[v] = worker[v]
    BY <1>0, <1>2, CreateJobIs, SpawnKeeps DEF JobsIInv, TypeOK
  <2>2. TypeOK'
    BY <1>0, <1>2, <2>1, CreateJobIs DEF CreateJob, TypeOK
  <2>3. \A i \in Jobs : job'[i] = job[i] \/ job'[i].status # "completed"
    BY <1>2, CreateJobIs
  <2>4. QED
    BY <2>1, <2>2, <2>3, StillTrue
<1>3. ASSUME NEW j \in Jobs, Approve(j) PROVE JobsIInv'
  <2>1. job' = [job EXCEPT ![j].status = "queued"] /\ "queued" \in Status /\ Spawn(j)
    BY <1>3 DEF Approve, Status
  <2>2. /\ job' \in [Jobs -> Job] /\ job'[j].status = "queued"
        /\ \A i \in Jobs : i # j => job'[i] = job[i]
    BY <2>1, WrittenStatus
  <2>3. /\ worker' \in [Workers -> Worker] /\ \A v \in Workers : Fine(worker'[v])
        /\ \A v \in Workers : worker[v].at # "idle" => worker'[v] = worker[v]
    BY <2>1, SpawnKeeps
  <2>4. TypeOK'
    BY <1>0, <1>3, <2>2, <2>3 DEF Approve, TypeOK
  <2>5. \A i \in Jobs : job'[i] = job[i] \/ job'[i].status # "completed"
    BY <2>2
  <2>6. QED
    BY <2>3, <2>4, <2>5, StillTrue
<1>4. ASSUME NEW j \in Jobs, Cancel(j) \/ StopWrite(j) PROVE JobsIInv'
  <2>1. job' = [job EXCEPT ![j].status = "cancelled"] /\ "cancelled" \in Status
        /\ pending' \subseteq {"stop", "sweep"} \X Jobs
    BY <1>0, <1>4 DEF Cancel, StopWrite, Status, Terminal, TypeOK
  <2>2. /\ job' \in [Jobs -> Job] /\ job'[j].status = "cancelled"
        /\ \A i \in Jobs : i # j => job'[i] = job[i]
    BY <2>1, WrittenStatus
  <2>3. TypeOK' /\ UNCHANGED worker
    BY <1>0, <1>4, <2>1, <2>2 DEF Cancel, StopWrite, TypeOK
  <2>4. \A i \in Jobs : job'[i] = job[i] \/ job'[i].status # "completed"
    BY <2>2
  <2>5. QED
    BY <2>3, <2>4, TableKeepsTruth
<1>5. CASE \/ \E j \in Jobs : StopRead(j) \/ GrowStale(j)
           \/ OwnerEdits \/ UNCHANGED vars
  <2>1. OwnerEdit \in Mark
    BY DEF OwnerEdit, Mark, Kinds
  <2>2. TypeOK' /\ UNCHANGED <<worker, job>>
    BY <1>0, <1>5, <2>1 DEF StopRead, GrowStale, OwnerEdits, vars, TypeOK
  <2>3. QED
    BY <2>2, TableKeepsTruth
<1>6. CASE Boot \/ ForeignBoot \/ SweepRead \/ SweepWrite
  <2>0. CASE SweepRead
    <3>1. Orphaned \subseteq Jobs
      BY DEF Orphaned
    <3>2. TypeOK' /\ UNCHANGED <<worker, job>>
      BY <1>0, <2>0, <3>1 DEF SweepRead, TypeOK
    <3>3. QED
      BY <3>2, TableKeepsTruth
  <2> SUFFICES ASSUME ~SweepRead PROVE JobsIInv'
    BY <2>0
  <2>1. PICK orphans \in {Orphaned, Swept} :
          /\ job' = Recovered(orphans) /\ service' \in [up : BOOLEAN, isolated : Layouts]
          /\ pending' \subseteq pending /\ UNCHANGED <<beat, worker, worktree, primary>>
    BY <1>0, <1>6 DEF Boot, ForeignBoot, SweepWrite, RecoverInterrupted, TypeOK
  <2>2. TypeOK' /\ UNCHANGED worker
    BY <1>0, <2>1, RecoverIs DEF TypeOK
  <2>3. \A i \in Jobs : job'[i] = job[i] \/ job'[i].status # "completed"
    BY <2>1, RecoverIs
  <2>4. QED
    BY <2>2, <2>3, TableKeepsTruth
<1>7. CASE ServiceStops
  <2>1. service' \in [up : BOOLEAN, isolated : Layouts]
    BY <1>0, <1>7 DEF ServiceStops, TypeOK
  <2>2. TypeOK'
    BY <1>0, <1>7, <2>1, StopIs DEF ServiceStops, TypeOK
  <2>3. QED
    BY <1>7, <2>2, StopIs, StillTrue DEF ServiceStops
<1>8. ASSUME NEW w \in Workers, PulseDies(w) PROVE JobsIInv'
  <2>1. TypeOK'
    BY <1>0, <1>8, PulseDiesIs DEF PulseDies, TypeOK
  <2>2. QED
    BY <1>8, <2>1, PulseDiesIs, StillTrue DEF PulseDies
<1>9. QED
  BY <1>1, <1>2, <1>3, <1>4, <1>5, <1>6, <1>7, <1>8 DEF Next

LEMMA JobsBegin == Init => JobsIInv
<1> SUFFICES ASSUME Init PROVE JobsIInv
  OBVIOUS
<1>1. NoJob \in Job /\ NoJob.status = "none"
  BY DEF NoJob, Job, Status, Outcome
<1>2. TypeOK
  BY <1>1, IdleIs DEF Init, TypeOK
<1>3. \A w \in Workers : worker[w] = IdleWorker
  BY DEF Init
<1>4. \A j \in Jobs : job[j].status = "none"
  BY <1>1 DEF Init
<1>5. Truthful /\ Earned
  BY <1>3, <1>4, IdleIs DEF Truthful, Earned
<1>6. QED
  BY <1>2, <1>3, <1>5 DEF JobsIInv, Fine

\* The types of the job table, the workers and the trees hold in every behaviour.
THEOREM TypeCorrect == Spec => []TypeOK
<1>1. JobsIInv => TypeOK
  BY DEF JobsIInv
<1>2. QED
  BY <1>1, JobsBegin, JobsStep, PTL DEF Spec

\* A plan is never reported as a completed implementation: for any jobs and workers,
\* whatever the owner approves and whenever a heartbeat dies.
THEOREM CompletedIsSuccess == Spec => []Truthful
<1>1. JobsIInv => Truthful
  BY DEF JobsIInv
<1>2. QED
  BY <1>1, JobsBegin, JobsStep, PTL DEF Spec

\* What is committed was backed up, allowed and tested, and what is completed passed the
\* completion gate as well, under the same conditions.
THEOREM CompletedIsEarned == Spec => []Earned
<1>1. JobsIInv => Earned
  BY DEF JobsIInv
<1>2. QED
  BY <1>1, JobsBegin, JobsStep, PTL DEF Spec

----------------------------------------------------------------------------
(* One worker on a job *)

\* What the code lets happen to a worker: the owner approves the job it works on, which does
\* not wait for it (the route refuses ended jobs only); its heartbeat ends with a write that
\* raises; a sweep that was held up puts back a job that it has been started on meanwhile.
Overruled(w) ==
    /\ Live(w)
    /\ \/ Approve(J(w)) /\ job[J(w)].status # "waiting_approval"
       \/ PulseDies(w)
       \/ SweepWrite /\ J(w) \in Swept
Undisturbed == ~ \E w \in Workers : Overruled(w)

\* A live worker keeps its job's heartbeat fresh from the moment it has begun; before,
\* its job is not in a stage that the recovery looks at.
Watched ==
    \A w \in Workers : Live(w) =>
        /\ service.up
        /\ job[J(w)].status \notin {"none", "waiting_approval"}
        /\ worker[w].at = "begin" => job[J(w)].status \in {"queued", "cancelled"}
        /\ worker[w].at # "begin" => worker[w].pulse /\ beat[J(w)] = "fresh"

HeldIInv == JobsIInv /\ OneWorker /\ Watched /\ WorktreeHeld

LEMMA LiveIs ==
    ASSUME JobsIInv, NEW w \in Workers, Live(w)
    PROVE  worker[w].at # "idle" /\ J(w) \in Jobs /\ worker[w] \in Worker
BY WorkerIs DEF Live, Ended

LEMMA HoldingIsLive == Holding \cap Ended = {} /\ "begin" \notin Holding
BY DEF Holding, Ended, Interruptible

\* A pipeline moves its own worker, row, heartbeat and worktree, and with one worker per
\* job these are nobody else's.
LEMMA MoveKeepsHeld ==
    ASSUME HeldIInv, NEW w \in Workers, Live(w), WorkerMoves(w), JobMoves(w), PlaceMoves(w)
    PROVE  OneWorker' /\ Watched' /\ WorktreeHeld'
<1>0. /\ JobsIInv /\ J(w) \in Jobs /\ worker[w].at # "idle"
      /\ worker \in [Workers -> Worker] /\ beat \in [Jobs -> {"none", "fresh", "stale"}]
      /\ worktree \in [Jobs -> Workers \cup {None}]
  BY LiveIs DEF HeldIInv, JobsIInv, TypeOK
<1>1. \A v \in Workers : v # w => worker'[v] = worker[v]
  BY <1>0 DEF WorkerMoves
<1>2. worker'[w].j = J(w) /\ worker'[w].at \notin {"idle", "begin"} /\ service' = service
  BY DEF WorkerMoves, PlaceMoves
<1>3. \A v \in Workers : v # w /\ worker[v].at \notin Ended =>
         worker[v].j # J(w) /\ worker[v].j \in Jobs
  BY LiveIs DEF HeldIInv, OneWorker, Live, J
<1>4. OneWorker'
  <2>1. SUFFICES ASSUME NEW u \in Workers, NEW v \in Workers, worker'[u].at \notin Ended,
                        worker'[v].at \notin Ended, worker'[u].j = worker'[v].j
                 PROVE  u = v
    BY DEF OneWorker, Live, J
  <2>2. CASE u = w \/ v = w
    BY <1>1, <1>2, <1>3, <2>1, <2>2
  <2>3. CASE u # w /\ v # w
    BY <1>1, <2>1, <2>3 DEF HeldIInv, OneWorker, Live, J
  <2>4. QED
    BY <2>2, <2>3
<1>5. Watched'
  <2>1. SUFFICES ASSUME NEW v \in Workers, worker'[v].at \notin Ended
                 PROVE  /\ service'.up
                        /\ job'[worker'[v].j].status \notin {"none", "waiting_approval"}
                        /\ worker'[v].at = "begin" => job'[worker'[v].j].status \in {"queued", "cancelled"}
                        /\ worker'[v].at # "begin" => worker'[v].pulse /\ beat'[worker'[v].j] = "fresh"
    BY DEF Watched, Live, J
  <2>2. CASE v # w
    <3>1. worker'[v] = worker[v] /\ worker[v].j # J(w) /\ worker[v].j \in Jobs
      BY <1>1, <1>3, <2>1, <2>2
    <3>2. job'[worker[v].j] = job[worker[v].j] /\ beat'[worker[v].j] = beat[worker[v].j]
      BY <1>0, <3>1 DEF JobMoves, PlaceMoves
    <3>3. QED
      BY <1>2, <2>1, <3>1, <3>2 DEF HeldIInv, Watched, Live, J
  <2>3. CASE v = w
    <3>1. service.up /\ job[J(w)].status \notin {"none", "waiting_approval"}
      BY DEF HeldIInv, Watched
    <3>2. job'[J(w)].status \notin {"none", "waiting_approval"}
      BY <3>1 DEF JobMoves, Interruptible, Terminal
    <3>3. worker'[w].pulse /\ beat'[J(w)] = "fresh"
      <4>1. CASE worker[w].at = "begin"
        BY <2>1, <2>3, <4>1 DEF PlaceMoves
      <4>2. CASE worker[w].at # "begin"
        BY <1>0, <4>2 DEF HeldIInv, Watched, WorkerMoves, PlaceMoves
      <4>3. QED
        BY <4>1, <4>2
    <3>4. QED
      BY <1>2, <2>3, <3>1, <3>2, <3>3
  <2>4. QED
    BY <2>2, <2>3
<1>6. WorktreeHeld'
  <2>1. SUFFICES ASSUME NEW v \in Workers, InWorktree, "branch" \in worker'[v].passed,
                        worker'[v].at \in Holding
                 PROVE  worktree'[worker'[v].j] = v
    BY <1>2 DEF WorktreeHeld, HasWorkspace, InWorktree, Holding, J
  <2>2. PICK x : worktree' = [worktree EXCEPT ![J(w)] = x]
    BY DEF PlaceMoves
  <2>3. CASE v # w
    <3>1. worker'[v] = worker[v] /\ worker[v].at \notin Ended
      BY <1>1, <2>1, <2>3, HoldingIsLive
    <3>2. worker[v].j # J(w) /\ worker[v].j \in Jobs
      BY <1>3, <2>3, <3>1
    <3>3. worktree'[worker[v].j] = worktree[worker[v].j]
      BY <1>0, <2>2, <3>2
    <3>4. QED
      BY <2>1, <3>1, <3>3 DEF HeldIInv, WorktreeHeld, HasWorkspace, Holding, J
  <2>4. CASE v = w
    <3>1. \/ worktree'[J(w)] = w
          \/ worktree' = worktree /\ "branch" \in worker[w].passed /\ worker[w].at \in Holding
      BY <2>1, <2>4 DEF PlaceMoves
    <3>2. QED
      BY <1>2, <2>1, <2>4, <3>1 DEF HeldIInv, WorktreeHeld, HasWorkspace, Holding, J
  <2>5. QED
    BY <2>3, <2>4
<1>7. QED
  BY <1>4, <1>5, <1>6

\* Workers, worktrees and the service left alone.
LEMMA QuietKeepsHeld ==
    ASSUME HeldIInv, UNCHANGED <<service, worker, worktree>>,
           \A w \in Workers : Live(w) =>
              /\ job'[J(w)] = job[J(w)] \/ job'[J(w)].status = "cancelled"
              /\ beat'[J(w)] = beat[J(w)] \/ worker[w].at = "begin"
    PROVE  OneWorker' /\ Watched' /\ WorktreeHeld'
<1>1. OneWorker' /\ WorktreeHeld'
  BY DEF HeldIInv, OneWorker, WorktreeHeld, Live, J, HasWorkspace, InWorktree
<1>2. Watched'
  BY DEF HeldIInv, Watched, Live, J
<1>3. QED
  BY <1>1, <1>2

\* A worker is started on a job that nobody works on.
LEMMA SpawnKeepsHeld ==
    ASSUME HeldIInv, NEW j \in Jobs, Spawn(j), UNCHANGED <<service, beat, worktree>>, service.up,
           job'[j].status = "queued", \A i \in Jobs : i # j => job'[i] = job[i],
           \A w \in Workers : Live(w) => J(w) # j
    PROVE  OneWorker' /\ Watched' /\ WorktreeHeld'
<1>1. JobsIInv
  BY DEF HeldIInv
<1>2. /\ \A v \in Workers : worker[v].at # "idle" => worker'[v] = worker[v]
      /\ \A v \in Workers : \/ worker'[v] = worker[v]
                            \/ worker'[v].at = "begin" /\ worker'[v].j = j
      /\ \A u, v \in Workers : worker'[u] # worker[u] /\ worker'[v] # worker[v] => u = v
  BY <1>1, SpawnKeeps
<1>3. \A v \in Workers : worker[v].at \notin Ended => worker[v].j # j /\ worker[v].j \in Jobs
  BY <1>1, LiveIs DEF Live, J
<1>4. OneWorker'
  <2>1. SUFFICES ASSUME NEW u \in Workers, NEW v \in Workers, worker'[u].at \notin Ended,
                        worker'[v].at \notin Ended, worker'[u].j = worker'[v].j
                 PROVE  u = v
    BY DEF OneWorker, Live, J
  <2>2. CASE worker'[u] = worker[u] /\ worker'[v] = worker[v]
    BY <2>1, <2>2 DEF HeldIInv, OneWorker, Live, J
  <2>3. CASE worker'[u] # worker[u] /\ worker'[v] = worker[v]
    BY <1>2, <1>3, <2>1, <2>3
  <2>4. CASE worker'[u] = worker[u] /\ worker'[v] # worker[v]
    BY <1>2, <1>3, <2>1, <2>4
  <2>5. QED
    BY <1>2, <2>2, <2>3, <2>4
<1>5. Watched'
  <2>1. SUFFICES ASSUME NEW v \in Workers, worker'[v].at \notin Ended
                 PROVE  /\ service.up
                        /\ job'[worker'[v].j].status \notin {"none", "waiting_approval"}
                        /\ worker'[v].at = "begin" => job'[worker'[v].j].status \in {"queued", "cancelled"}
                        /\ worker'[v].at # "begin" => worker'[v].pulse /\ beat[worker'[v].j] = "fresh"
    BY DEF Watched, Live, J
  <2>2. CASE worker'[v] = worker[v]
    BY <1>3, <2>1, <2>2 DEF HeldIInv, Watched, Live, J
  <2>3. CASE worker'[v].at = "begin" /\ worker'[v].j = j
    BY <2>3
  <2>4. QED
    BY <1>2, <2>2, <2>3
<1>6. WorktreeHeld'
  <2>1. SUFFICES ASSUME NEW v \in Workers, InWorktree, "branch" \in worker'[v].passed,
                        worker'[v].at \in Holding
                 PROVE  worktree[worker'[v].j] = v
    BY DEF WorktreeHeld, HasWorkspace, InWorktree, Holding, J
  <2>2. worker'[v] = worker[v]
    BY <1>2, <2>1, HoldingIsLive
  <2>3. QED
    BY <2>1, <2>2 DEF HeldIInv, WorktreeHeld, HasWorkspace, Holding, J
<1>7. QED
  BY <1>4, <1>5, <1>6

\* With nobody alive everything holds.
LEMMA NobodyHeld ==
    ASSUME \A w \in Workers : worker'[w].at \in Ended PROVE OneWorker' /\ Watched' /\ WorktreeHeld'
<1>1. OneWorker' /\ Watched'
  BY DEF OneWorker, Watched, Live
<1>2. WorktreeHeld'
  BY HoldingIsLive DEF WorktreeHeld, Holding
<1>3. QED
  BY <1>1, <1>2

LEMMA HeldStep == HeldIInv /\ [Undisturbed]_vars /\ [Next]_vars => HeldIInv'
<1> SUFFICES ASSUME HeldIInv, [Undisturbed]_vars, [Next]_vars PROVE HeldIInv'
  OBVIOUS
<1>0. JobsIInv /\ JobsIInv'
  BY JobsStep DEF HeldIInv
<1> SUFFICES OneWorker' /\ Watched' /\ WorktreeHeld'
  BY <1>0 DEF HeldIInv
<1>1. ASSUME NEW w \in Workers, Stage(w) \/ BranchRaises(w) \/ Crash(w)
      PROVE  OneWorker' /\ Watched' /\ WorktreeHeld'
  <2>1. Live(w)
    BY <1>1 DEF Stage, Begin, StartPlanning, Plan, Backup, Branch, Edit, TestsPass, TestsFail, Repair,
                Commit, Push, Finish, Cleanup, Handler, BranchRaises, Crash, Interruptible, Live, Ended
  <2>2. QED
    BY <1>0, <1>1, <2>1, PipelineActs, MoveKeepsHeld
<1>2. ASSUME NEW j \in Jobs, CreateJob(j) PROVE OneWorker' /\ Watched' /\ WorktreeHeld'
  <2>1. /\ service.up /\ job[j].status = "none"
        /\ UNCHANGED <<beat, service, pending, worktree, primary>>
    BY <1>2 DEF CreateJob
  <2>2. \A w \in Workers : Live(w) => J(w) # j
    BY <2>1 DEF HeldIInv, Watched
  <2>3. /\ \A i \in Jobs : i # j => job'[i] = job[i]
        /\ worker' = worker \/ (job'[j].status = "queued" /\ Spawn(j))
    BY <1>0, <1>2, CreateJobIs
  <2>4. CASE worker' = worker
    BY <1>0, <2>1, <2>2, <2>3, <2>4, LiveIs, QuietKeepsHeld
  <2>5. CASE job'[j].status = "queued" /\ Spawn(j)
    BY <2>1, <2>2, <2>3, <2>5, SpawnKeepsHeld
  <2>6. QED
    BY <2>3, <2>4, <2>5
<1>3. ASSUME NEW j \in Jobs, Approve(j) PROVE OneWorker' /\ Watched' /\ WorktreeHeld'
  <2>1. /\ service.up /\ Spawn(j)
        /\ job' = [job EXCEPT ![j].status = "queued"] /\ "queued" \in Status
        /\ UNCHANGED <<beat, service, worktree>>
    BY <1>3 DEF Approve, Status
  <2>2. job'[j].status = "queued" /\ \A i \in Jobs : i # j => job'[i] = job[i]
    BY <1>0, <2>1, WrittenStatus
  <2>3. \A w \in Workers : Live(w) => J(w) # j
    <3>1. CASE UNCHANGED vars
      <4>1. job'[j] = job[j] /\ worker' = worker
        BY <3>1 DEF vars
      <4>2. PICK w \in Workers : worker[w].at = "idle" /\ worker'[w].at = "begin"
        BY <1>0, <2>1 DEF Spawn, JobsIInv, TypeOK
      <4>3. QED
        BY <4>1, <4>2
    <3>2. CASE job[j].status = "waiting_approval"
      BY <3>2 DEF HeldIInv, Watched
    <3>3. CASE Undisturbed /\ job[j].status # "waiting_approval"
      BY <1>3, <3>3 DEF Undisturbed, Overruled
    <3>4. QED
      BY <3>1, <3>2, <3>3
  <2>4. QED
    BY <2>1, <2>2, <2>3, SpawnKeepsHeld
<1>4. ASSUME NEW j \in Jobs, Cancel(j) \/ StopWrite(j) PROVE OneWorker' /\ Watched' /\ WorktreeHeld'
  <2>1. /\ job' = [job EXCEPT ![j].status = "cancelled"] /\ "cancelled" \in Status
        /\ UNCHANGED <<beat, service, worker, worktree>>
    BY <1>4 DEF Cancel, StopWrite, Status, Terminal
  <2>2. \A i \in Jobs : job'[i] = job[i] \/ job'[i].status = "cancelled"
    BY <1>0, <2>1, WrittenStatus
  <2>3. QED
    BY <1>0, <2>1, <2>2, LiveIs, QuietKeepsHeld
<1>5. CASE (\E j \in Jobs : StopRead(j)) \/ OwnerEdits \/ UNCHANGED vars
  <2>1. UNCHANGED <<job, beat, service, worker, worktree>>
    BY <1>5 DEF StopRead, OwnerEdits, vars
  <2>2. QED
    BY <2>1, QuietKeepsHeld
<1>6. ASSUME NEW j \in Jobs, GrowStale(j) PROVE OneWorker' /\ Watched' /\ WorktreeHeld'
  <2>1. /\ beat' = [beat EXCEPT ![j] = "stale"] /\ UNCHANGED <<job, service, worker, worktree>>
        /\ \A w \in Workers : Live(w) /\ J(w) = j => ~worker[w].pulse
    BY <1>6 DEF GrowStale, J
  <2>2. \A w \in Workers : Live(w) => beat'[J(w)] = beat[J(w)] \/ worker[w].at = "begin"
    BY <1>0, <2>1, LiveIs DEF HeldIInv, Watched, JobsIInv, TypeOK
  <2>3. QED
    BY <2>1, <2>2, QuietKeepsHeld
<1>7. CASE Boot
  <2>1. ~service.up /\ UNCHANGED worker
    BY <1>7 DEF Boot, RecoverInterrupted
  <2>2. \A w \in Workers : worker'[w].at \in Ended
    BY <2>1 DEF HeldIInv, Watched, Live
  <2>3. QED
    BY <2>2, NobodyHeld
<1>8. CASE ForeignBoot
  <2>1. UNCHANGED <<service, beat, worker, worktree>> /\ job' = Recovered(Orphaned)
    BY <1>8 DEF ForeignBoot, RecoverInterrupted
  <2>2. ASSUME NEW w \in Workers, Live(w) PROVE J(w) \notin Orphaned
    BY <2>2 DEF HeldIInv, Watched, Orphaned, Interruptible
  <2>3. \A w \in Workers : Live(w) => job'[J(w)] = job[J(w)]
    BY <1>0, <2>1, <2>2, LiveIs, RecoverIs
  <2>4. QED
    BY <2>1, <2>3, QuietKeepsHeld
<1>9. CASE ServiceStops
  BY <1>0, <1>9, StopIs, NobodyHeld
<1>10. ASSUME NEW w \in Workers, PulseDies(w) PROVE OneWorker' /\ Watched' /\ WorktreeHeld'
  <2>1. UNCHANGED vars
    BY <1>10 DEF Undisturbed, Overruled, PulseDies
  <2>2. QED
    BY <1>5, <2>1
<1>11. CASE SweepRead \/ SweepWrite
  <2>1. UNCHANGED <<service, beat, worker, worktree>>
    BY <1>11 DEF SweepRead, SweepWrite
  <2>2. CASE UNCHANGED vars
    BY <1>5, <2>2
  <2>3. CASE Undisturbed
    <3>1. \A w \in Workers : Live(w) => job'[J(w)] = job[J(w)]
      <4>1. CASE SweepRead
        BY <4>1 DEF SweepRead
      <4>2. CASE SweepWrite
        <5>1. \A w \in Workers : Live(w) => J(w) \notin Swept
          BY <2>3, <4>2 DEF Undisturbed, Overruled
        <5>2. job' = Recovered(Swept)
          BY <4>2 DEF SweepWrite
        <5>3. QED
          BY <1>0, <5>1, <5>2, LiveIs, RecoverIs
      <4>3. QED
        BY <1>11, <4>1, <4>2
    <3>2. QED
      BY <2>1, <3>1, QuietKeepsHeld
  <2>4. QED
    BY <2>2, <2>3
<1>12. QED
  BY <1>1, <1>2, <1>3, <1>4, <1>5, <1>6, <1>7, <1>8, <1>9, <1>10, <1>11 DEF Next

LEMMA HeldBegin == Init => HeldIInv
<1> SUFFICES ASSUME Init PROVE HeldIInv
  OBVIOUS
<1>1. \A w \in Workers : worker[w].at = "idle"
  BY IdleIs DEF Init
<1>2. OneWorker /\ Watched
  BY <1>1 DEF OneWorker, Watched, Live, Ended
<1>3. WorktreeHeld
  BY <1>1, HoldingIsLive DEF WorktreeHeld, Holding, Ended
<1>4. QED
  BY <1>2, <1>3, JobsBegin DEF HeldIInv

LEMMA HeldAlways == Spec /\ [][Undisturbed]_vars => []HeldIInv
BY HeldBegin, HeldStep, PTL DEF Spec

\* A job has one live worker at most, though jobs are recovered by any process that boots
\* the application, and approved and started again: for any jobs and workers, whatever is
\* approved and whichever heartbeat dies, until one of the three overrules a live worker.
THEOREM OneLiveWorker == Spec /\ [][Undisturbed]_vars => []OneWorker
<1>1. HeldIInv => OneWorker
  BY DEF HeldIInv
<1>2. QED
  BY <1>1, HeldAlways, PTL

\* A job that waits for approval is not being worked on, until then.
THEOREM WaitingIsIdle == Spec /\ [][Undisturbed]_vars => []NoWorkBehindApproval
<1>1. HeldIInv => NoWorkBehindApproval
  BY DEF HeldIInv, Watched, NoWorkBehindApproval
<1>2. QED
  BY <1>1, HeldAlways, PTL

\* The worktree a worker edits and commits in is the one it created, until then.
THEOREM WorktreeIsItsOwn == Spec /\ [][Undisturbed]_vars => []WorktreeHeld
<1>1. HeldIInv => WorktreeHeld
  BY DEF HeldIInv
<1>2. QED
  BY <1>1, HeldAlways, PTL

----------------------------------------------------------------------------
(* Isolated jobs and the project tree *)

\* In a worktree of its own a pipeline neither edits nor restores the project tree.
LEMMA UndoSpares ==
    ASSUME InWorktree, NEW w, NEW a, NEW tree, UndoAndFail(w, a, tree) PROVE primary' = tree
BY DEF UndoAndFail, Restore

LEMMA RaisesSpares ==
    ASSUME InWorktree, NEW w, NEW M, ApplyRaises(w, M) PROVE primary' = primary
BY UndoSpares DEF ApplyRaises, Landed

LEMMA PipelineSpares ==
    ASSUME InWorktree, NEW w, Stage(w) \/ BranchRaises(w) \/ Crash(w) PROVE primary' = primary
<1>1. CASE Edit(w)
  BY <1>1, RaisesSpares DEF Edit, Landed
<1>2. CASE Repair(w)
  BY <1>2, RaisesSpares DEF Repair, Landed
<1>3. CASE Commit(w) \/ TestsFail(w)
  BY <1>3, UndoSpares DEF Commit, TestsFail
<1>4. CASE \/ Begin(w) \/ StartPlanning(w) \/ Plan(w) \/ Backup(w) \/ Branch(w) \/ TestsPass(w)
           \/ Push(w) \/ Finish(w) \/ Cleanup(w) \/ Handler(w) \/ BranchRaises(w) \/ Crash(w)
  BY <1>4 DEF Begin, StartPlanning, Plan, Backup, Branch, TestsPass, Push, Finish, Cleanup, Handler,
              BranchRaises, Crash
<1>5. QED
  BY <1>1, <1>2, <1>3, <1>4 DEF Stage

\* In a git repository whose jobs are isolated, the owner's edits of the project tree
\* survive every step of every job, rollbacks included.
THEOREM OwnerIsSpared == ASSUME IsRepo PROVE Spec => OwnerEditsSurvive
<1>1. ASSUME Next, service.isolated, OwnerEdit \in primary PROVE OwnerEdit \in primary'
  <2>1. ASSUME NEW w \in Workers, Stage(w) \/ BranchRaises(w) \/ Crash(w) PROVE primary' = primary
    BY <1>1, <2>1, PipelineSpares DEF InWorktree
  <2>2. CASE \/ \E j \in Jobs : \/ CreateJob(j) \/ Approve(j) \/ Cancel(j) \/ StopRead(j)
                                \/ StopWrite(j) \/ GrowStale(j)
             \/ ServiceStops \/ Boot \/ ForeignBoot \/ SweepRead \/ SweepWrite
             \/ \E w \in Workers : PulseDies(w)
    BY <1>1, <2>2 DEF CreateJob, Approve, Cancel, StopRead, StopWrite, GrowStale, ServiceStops, Boot,
                      ForeignBoot, RecoverInterrupted, SweepRead, SweepWrite, PulseDies
  <2>3. CASE OwnerEdits
    BY <1>1, <2>3 DEF OwnerEdits
  <2>4. QED
    BY <1>1, <2>1, <2>2, <2>3 DEF Next
<1>2. [Next]_vars => [(service.isolated /\ OwnerEdit \in primary) => (OwnerEdit \in primary')]_vars
  BY <1>1
<1>3. QED
  BY <1>2, PTL DEF Spec, OwnerEditsSurvive

----------------------------------------------------------------------------
(* What a pipeline leaves behind: its worktree and its changes of the tree *)

After == {"finish", "cleanup", "unwind", "handler", "done", "dead"}
Over(a) == a.undone => a.at \in After

\* What a step of a pipeline does to the changes: it adds its own, or puts back what its
\* worker has archived, and a rollback that worked leaves nothing else of what is recorded.
TreeMoves(w) ==
    /\ worker'[w].made \subseteq worker[w].made \cup Marks(w)
    /\ \/ worker'[w].snap = worker[w].snap
       \/ worker[w].at = "backing_up" /\ worker'[w].snap \subseteq primary
    /\ worker'[w].at \in Before => worker[w].at \in Before
    /\ worker[w].at \in Before => primary' = primary
    /\ primary' \subseteq primary \cup Marks(w) \cup worker[w].snap
    /\ Over(worker'[w])
    /\ worker'[w].undone =>
          \/ worker[w].undone /\ Owed(worker'[w]) = Owed(worker[w]) /\ primary' = primary
          \/ InWorktree
          \/ Owed(worker'[w]) \cap primary' \subseteq worker[w].snap

\* What it does to the worktree: it makes it, removes it, or leaves it and is not done
\* with it, unless git failed or there is none.
WorktreeMoves(w) ==
    /\ worker'[w].at = "branching" => IsRepo
    /\ \/ /\ worktree' = worktree
          /\ worker'[w].at \in {"handler", "done"} /\ "branch" \in worker'[w].passed =>
                \/ "leftover" \in worker'[w].passed \/ ~InWorktree
                \/ worker[w].at = "handler" /\ worker'[w].passed = worker[w].passed
       \/ /\ worktree' = [worktree EXCEPT ![J(w)] = w] /\ service.isolated /\ worker[w].at = "branching"
          /\ worker'[w].at \in {"handler", "done"} => "branch" \notin worker'[w].passed
       \/ worktree' = [worktree EXCEPT ![J(w)] = None]

\* A worker's next record holds what a does.
Carries(w, a) ==
    /\ worker'[w].made = a.made /\ worker'[w].snap = a.snap /\ worker'[w].light = a.light /\ worker'[w].undone = a.undone
    /\ worker'[w].passed = a.passed

LEMMA EnterCarries ==
    ASSUME JobsIInv, NEW w \in Workers, NEW a \in Worker, NEW stage \in Interruptible, Enter(w, stage, a)
    PROVE  Carries(w, a) /\ worker'[w].at = stage
<1> DEFINE r == [a EXCEPT !.at = stage]
<1>1. /\ r.at = stage /\ r.made = a.made /\ r.snap = a.snap /\ r.light = a.light /\ r.undone = a.undone
      /\ r.passed = a.passed
  BY DEF Worker
<1>2. worker' = [worker EXCEPT ![w] = r] /\ worker \in [Workers -> Worker]
  BY DEF Enter, JobsIInv, TypeOK
<1> HIDE DEF r
<1>3. worker'[w] = r
  BY <1>2
<1>4. QED
  BY <1>1, <1>3 DEF Carries

LEMMA EndCarries ==
    ASSUME JobsIInv, NEW w \in Workers, NEW a \in Worker, NEW s, NEW o, EndWith(w, s, o, a)
    PROVE  Carries(w, a) /\ worker'[w].at = "finish"
<1> DEFINE r == [a EXCEPT !.at = "finish", !.end = s, !.outcome = o]
<1>1. /\ r.at = "finish" /\ r.made = a.made /\ r.snap = a.snap /\ r.light = a.light /\ r.undone = a.undone
      /\ r.passed = a.passed
  BY DEF Worker
<1>2. worker' = [worker EXCEPT ![w] = r] /\ worker \in [Workers -> Worker]
  BY DEF EndWith, JobsIInv, TypeOK
<1> HIDE DEF r
<1>3. worker'[w] = r
  BY <1>2
<1>4. QED
  BY <1>1, <1>3 DEF Carries

\* The tree is left alone, and so is what the record says of it.
SameTree(w) ==
    /\ primary' = primary
    /\ worker'[w].made = worker[w].made /\ worker'[w].snap = worker[w].snap /\ worker'[w].light = worker[w].light
    /\ worker'[w].undone = worker[w].undone

LEMMA SameTreeMoves ==
    ASSUME NEW w \in Workers, Over(worker[w]), SameTree(w),
           worker'[w].at \in Before => worker[w].at \in Before,
           worker[w].at \in After => worker'[w].at \in After
    PROVE  TreeMoves(w)
BY DEF TreeMoves, SameTree, Over, Owed

LEMMA UndoLeaves ==
    ASSUME JobsIInv, NEW w \in Workers, NEW a \in Worker, NEW tree, UndoAndFail(w, a, tree)
    PROVE  /\ worker'[w].at = "finish" /\ worker'[w].made = a.made /\ worker'[w].snap = a.snap /\ worker'[w].light = a.light
           /\ worker'[w].passed = a.passed
           /\ primary' \subseteq tree \cup a.snap
           /\ worker'[w].undone => InWorktree \/ Owed(a) \cap primary' \subseteq a.snap
<1>1. PICK restored \in {TRUE, InWorktree} :
         primary' = Restore(a, tree, restored) /\ Fail(w, [a EXCEPT !.undone = restored])
  BY DEF UndoAndFail
<1>2. restored \in BOOLEAN
  BY DEF InWorktree
<1> DEFINE b == [a EXCEPT !.undone = restored]
<1>3. b \in Worker /\ b.made = a.made /\ b.snap = a.snap /\ b.light = a.light /\ b.undone = restored /\ b.passed = a.passed
  BY <1>2 DEF Worker
<1>4. EndWith(w, "failed", "failed", b)
  BY <1>1 DEF Fail
<1> HIDE DEF b
<1>5. Carries(w, b) /\ worker'[w].at = "finish"
  BY <1>3, <1>4, EndCarries
<1>6. primary' \subseteq tree \cup a.snap
  BY <1>1 DEF Restore, Extracted, Loose, New, Existing
<1>7. ASSUME restored, ~InWorktree PROVE Owed(a) \cap primary' \subseteq a.snap
  <2>1. primary' = (New(tree) \ New(a.made)) \cup a.snap \cup IF a.light THEN Loose(tree) ELSE {}
    BY <1>1, <1>7 DEF Restore, Extracted
  <2>2. QED
    BY <2>1 DEF New, Loose, Owed
<1>8. QED
  BY <1>3, <1>5, <1>6, <1>7 DEF Carries

LEMMA RaisesLeaves ==
    ASSUME JobsIInv, NEW w \in Workers, worker[w].at \in {"editing", "testing"},
           NEW M \in SUBSET Marks(w), ApplyRaises(w, M)
    PROVE  TreeMoves(w) /\ worker'[w].at = "finish"
<1>1. PICK recorded \in {{}, M} :
         UndoAndFail(w, [worker[w] EXCEPT !.made = @ \cup recorded], Landed(M))
  BY DEF ApplyRaises
<1>2. recorded \subseteq Marks(w) /\ Marks(w) \subseteq Mark
  BY DEF Marks, Mark
<1>3. worker[w] \in Worker
  BY DEF JobsIInv, TypeOK
<1> DEFINE a == [worker[w] EXCEPT !.made = @ \cup recorded]
<1>4. a \in Worker /\ a.made = worker[w].made \cup recorded /\ a.snap = worker[w].snap /\ a.light = worker[w].light
  BY <1>2, <1>3 DEF Worker
<1>5. UndoAndFail(w, a, Landed(M))
  BY <1>1
<1> HIDE DEF a
<1>6. /\ worker'[w].at = "finish" /\ worker'[w].made = a.made /\ worker'[w].snap = a.snap /\ worker'[w].light = a.light
      /\ primary' \subseteq Landed(M) \cup a.snap
      /\ worker'[w].undone => InWorktree \/ Owed(a) \cap primary' \subseteq a.snap
  BY <1>4, <1>5, UndoLeaves
<1>7. Landed(M) \subseteq primary \cup Marks(w)
  BY DEF Landed
<1>8. worker[w].at \notin Before /\ worker'[w].at \notin Before /\ worker'[w].at \in After
  BY <1>6 DEF Before, After
<1>9. QED
  BY <1>2, <1>4, <1>6, <1>7, <1>8 DEF TreeMoves, Over, Owed

LEMMA FailsLeaves ==
    ASSUME JobsIInv, NEW w \in Workers, worker[w].at \in {"testing", "committing"},
           UndoAndFail(w, worker[w], primary)
    PROVE  TreeMoves(w) /\ worker'[w].at = "finish"
<1>1. worker[w] \in Worker
  BY DEF JobsIInv, TypeOK
<1>2. /\ worker'[w].at = "finish" /\ worker'[w].made = worker[w].made /\ worker'[w].snap = worker[w].snap /\ worker'[w].light = worker[w].light
      /\ primary' \subseteq primary \cup worker[w].snap
      /\ worker'[w].undone => InWorktree \/ Owed(worker[w]) \cap primary' \subseteq worker[w].snap
  BY <1>1, UndoLeaves
<1>3. worker[w].at \notin Before /\ worker'[w].at \notin Before /\ worker'[w].at \in After
  BY <1>2 DEF Before, After
<1>4. QED
  BY <1>2, <1>3 DEF TreeMoves, Over, Owed

\* The stages that leave tree and worktree alone.
LEMMA StageLeaves ==
    ASSUME JobsIInv, NEW w \in Workers, Over(worker[w]), SameTree(w), worktree' = worktree,
           worker[w].at \in Before \cup {"branching", "testing", "committing", "pushing"},
           worker'[w].at \in Before => worker[w].at \in Before,
           worker'[w].at = "branching" => IsRepo,
           worker'[w].at \notin {"handler", "done"}
    PROVE  TreeMoves(w) /\ WorktreeMoves(w)
<1>1. worker[w].at \notin After
  BY DEF Before, After
<1>2. QED
  BY <1>1, SameTreeMoves DEF WorktreeMoves

LEMMA BeginLeaves ==
    ASSUME JobsIInv, NEW w \in Workers, Over(worker[w]), Begin(w) \/ StartPlanning(w)
    PROVE  TreeMoves(w) /\ WorktreeMoves(w)
<1>1. /\ worker[w].at \in {"begin", "begun"} /\ worktree' = worktree /\ primary' = primary
      /\ worker \in [Workers -> Worker] /\ worker[w] \in Worker
  BY DEF Begin, StartPlanning, JobsIInv, TypeOK
<1>2. CASE Begin(w)
  <2> DEFINE r == [worker[w] EXCEPT !.at = "begun", !.pulse = TRUE]
  <2>1. worker' = [worker EXCEPT ![w] = r]
    BY <1>1, <1>2 DEF Begin
  <2>2. r.at = "begun" /\ r.made = worker[w].made /\ r.snap = worker[w].snap /\ r.light = worker[w].light /\ r.undone = worker[w].undone
    BY <1>1 DEF Worker
  <2> HIDE DEF r
  <2>3. worker'[w] = r
    BY <1>1, <2>1
  <2>4. QED
    BY <1>1, <2>2, <2>3, StageLeaves DEF SameTree, Before
<1>3. CASE StartPlanning(w)
  <2>1. Enter(w, "planning", worker[w]) /\ "planning" \in Interruptible
    BY <1>3 DEF StartPlanning, Interruptible
  <2>2. Carries(w, worker[w]) /\ worker'[w].at = "planning"
    BY <1>1, <2>1, EnterCarries
  <2>3. QED
    BY <1>1, <2>2, StageLeaves DEF SameTree, Before, Carries
<1>4. QED
  BY <1>2, <1>3

LEMMA PlanLeaves ==
    ASSUME JobsIInv, NEW w \in Workers, Over(worker[w]), Plan(w)
    PROVE  TreeMoves(w) /\ WorktreeMoves(w)
<1>1. /\ worker[w].at = "planning" /\ worktree' = worktree /\ primary' = primary
      /\ worker[w] \in Worker /\ "backing_up" \in Interruptible
  BY DEF Plan, JobsIInv, TypeOK, Interruptible
<1>2. SUFFICES SameTree(w) /\ worker'[w].at \in {"finish", "backing_up"}
  BY <1>1, StageLeaves DEF Before
<1>3. CASE EndWith(w, "blocked", "none", worker[w]) \/ EndWith(w, "failed", "failed", worker[w])
  BY <1>1, <1>3, EndCarries DEF Carries, SameTree
<1>4. ASSUME NEW p \in {"real", "fallback"},
             \/ EndWith(w, "fallback_plan_only", "fallback_plan_only", [worker[w] EXCEPT !.plan = p])
             \/ Enter(w, "backing_up", [worker[w] EXCEPT !.plan = p])
      PROVE  SameTree(w) /\ worker'[w].at \in {"finish", "backing_up"}
  <2> DEFINE a == [worker[w] EXCEPT !.plan = p]
  <2>1. a \in Worker /\ a.made = worker[w].made /\ a.snap = worker[w].snap /\ a.light = worker[w].light /\ a.undone = worker[w].undone
    BY <1>1 DEF Worker
  <2>2. EndWith(w, "fallback_plan_only", "fallback_plan_only", a) \/ Enter(w, "backing_up", a)
    BY <1>4
  <2> HIDE DEF a
  <2>3. Carries(w, a) /\ worker'[w].at \in {"finish", "backing_up"}
    BY <1>1, <2>1, <2>2, EnterCarries, EndCarries
  <2>4. QED
    BY <1>1, <2>1, <2>3 DEF Carries, SameTree
<1>5. QED
  BY <1>3, <1>4 DEF Plan, Fail

LEMMA BackupLeaves ==
    ASSUME JobsIInv, NEW w \in Workers, Over(worker[w]), Backup(w)
    PROVE  TreeMoves(w) /\ WorktreeMoves(w)
<1>1. /\ worker[w].at = "backing_up" /\ worktree' = worktree /\ primary' = primary
      /\ worker[w] \in Worker /\ primary \subseteq Mark /\ {"branching", "editing"} \subseteq Interruptible
  BY DEF Backup, JobsIInv, TypeOK, Interruptible
<1>3. PICK light \in BOOLEAN :
         LET a == [worker[w] EXCEPT !.light = light, !.snap = Archived(primary, light),
                                    !.passed = {"backup"}]
         IN  \/ Fail(w, worker[w])
             \/ EndWith(w, "blocked", "none", a)
             \/ Enter(w, IF IsRepo THEN "branching" ELSE "editing",
                      [a EXCEPT !.passed = @ \cup {"policy"}])
  BY Zenon DEF Backup
<1> DEFINE a == [worker[w] EXCEPT !.light = light, !.snap = Archived(primary, light),
                                  !.passed = {"backup"}]
           b == [a EXCEPT !.passed = @ \cup {"policy"}]
<1>9. Archived(primary, light) \subseteq primary
  BY DEF Archived, Existing, Loose
<1>2. a \in Worker /\ a.made = worker[w].made /\ a.snap \subseteq primary /\ a.undone = worker[w].undone
  BY <1>1, <1>9 DEF Worker, Check
<1>10. \/ Fail(w, worker[w])
       \/ EndWith(w, "blocked", "none", a)
       \/ Enter(w, IF IsRepo THEN "branching" ELSE "editing", b)
  BY <1>3
<1>11. b = [a EXCEPT !.passed = @ \cup {"policy"}]
  OBVIOUS
<1> HIDE DEF a, b
<1>4. b \in Worker /\ b.made = worker[w].made /\ b.snap \subseteq primary /\ b.undone = worker[w].undone
  BY <1>2, <1>11 DEF Worker, Check
<1>5. /\ worker'[w].made = worker[w].made
      /\ worker'[w].snap = worker[w].snap \/ worker'[w].snap \subseteq primary
      /\ worker'[w].undone = worker[w].undone
      /\ worker'[w].at \in {"finish", "branching", "editing"} /\ (worker'[w].at = "branching" => IsRepo)
  <2>1. CASE Fail(w, worker[w])
    BY <1>1, <2>1, EndCarries DEF Carries, Fail
  <2>2. CASE EndWith(w, "blocked", "none", a)
    BY <1>2, <2>2, EndCarries DEF Carries
  <2>3. CASE Enter(w, IF IsRepo THEN "branching" ELSE "editing", b)
    BY <1>1, <1>4, <2>3, EnterCarries, RuntimeAssumption DEF Carries
  <2>4. QED
    BY <1>10, <2>1, <2>2, <2>3
<1>6. TreeMoves(w)
  BY <1>1, <1>5 DEF TreeMoves, Over, Before, After
<1>7. WorktreeMoves(w)
  BY <1>1, <1>5 DEF WorktreeMoves
<1>8. QED
  BY <1>6, <1>7

LEMMA BranchLeaves ==
    ASSUME JobsIInv, NEW w \in Workers, Over(worker[w]), Branch(w)
    PROVE  TreeMoves(w) /\ WorktreeMoves(w)
<1>1. /\ worker[w].at = "branching" /\ primary' = primary /\ worker[w] \in Worker /\ "editing" \in Interruptible
  BY DEF Branch, JobsIInv, TypeOK, Interruptible
<1> DEFINE a == [worker[w] EXCEPT !.passed = @ \cup {"branch"}]
<1>2. a \in Worker /\ a.made = worker[w].made /\ a.snap = worker[w].snap /\ a.light = worker[w].light /\ a.undone = worker[w].undone
  BY <1>1 DEF Worker, Check
<1>3. \/ /\ Enter(w, "editing", a)
         /\ worktree' = IF service.isolated THEN [worktree EXCEPT ![J(w)] = w] ELSE worktree
      \/ /\ Fail(w, worker[w])
         /\ worktree' \in {worktree, [worktree EXCEPT ![J(w)] = None]}
  BY DEF Branch
<1> HIDE DEF a
<1>4. SameTree(w) /\ worker'[w].at \in {"editing", "finish"}
  BY <1>1, <1>2, <1>3, EnterCarries, EndCarries DEF Carries, SameTree, Fail
<1>5. TreeMoves(w)
  BY <1>1, <1>4, SameTreeMoves DEF Before, After
<1>6. WorktreeMoves(w)
  BY <1>1, <1>3, <1>4 DEF WorktreeMoves
<1>7. QED
  BY <1>5, <1>6

LEMMA EditLeaves ==
    ASSUME JobsIInv, NEW w \in Workers, Over(worker[w]), Edit(w)
    PROVE  TreeMoves(w) /\ WorktreeMoves(w)
<1>1. worker[w].at = "editing" /\ worktree' = worktree /\ worker[w] \in Worker /\ "testing" \in Interruptible
  BY DEF Edit, JobsIInv, TypeOK, Interruptible
<1>2. SUFFICES TreeMoves(w) /\ worker'[w].at \in {"testing", "finish"}
  BY <1>1 DEF WorktreeMoves
<1>3. ASSUME NEW M \in SUBSET Marks(w), primary' = Landed(M),
             Enter(w, "testing", [worker[w] EXCEPT !.made = M])
      PROVE  TreeMoves(w) /\ worker'[w].at \in {"testing", "finish"}
  <2> DEFINE a == [worker[w] EXCEPT !.made = M]
  <2>1. M \subseteq Mark
    BY DEF Marks, Mark
  <2>2. a \in Worker /\ a.made = M /\ a.snap = worker[w].snap /\ a.light = worker[w].light /\ a.undone = worker[w].undone
    BY <1>1, <2>1 DEF Worker
  <2>3. Enter(w, "testing", a)
    BY <1>3
  <2> HIDE DEF a
  <2>4. Carries(w, a) /\ worker'[w].at = "testing"
    BY <1>1, <2>2, <2>3, EnterCarries
  <2>5. primary' \subseteq primary \cup Marks(w)
    BY <1>3 DEF Landed
  <2>6. ~worker[w].undone
    BY <1>1 DEF Over, After
  <2>7. QED
    BY <1>1, <2>2, <2>4, <2>5, <2>6 DEF TreeMoves, Carries, Over, Before
<1>4. ASSUME NEW M \in SUBSET Marks(w), ApplyRaises(w, M)
      PROVE  TreeMoves(w) /\ worker'[w].at \in {"testing", "finish"}
  BY <1>1, <1>4, RaisesLeaves
<1>5. \A M \in SUBSET IF worker[w].light THEN New(Marks(w)) ELSE Marks(w) : M \in SUBSET Marks(w)
  BY DEF New
<1>6. QED
  BY <1>3, <1>4, <1>5 DEF Edit

LEMMA RepairLeaves ==
    ASSUME JobsIInv, NEW w \in Workers, Over(worker[w]), Repair(w)
    PROVE  TreeMoves(w) /\ WorktreeMoves(w)
<1>1. worker[w].at = "testing" /\ worktree' = worktree /\ worker \in [Workers -> Worker] /\ worker[w] \in Worker
  BY DEF Repair, JobsIInv, TypeOK
<1>2. SUFFICES TreeMoves(w) /\ worker'[w].at \in {"testing", "finish"}
  BY <1>1 DEF WorktreeMoves
<1>3. ASSUME NEW M \in SUBSET Marks(w), primary' = Landed(M),
             worker' = [worker EXCEPT ![w].made = @ \cup M, ![w].tries = @ + 1]
      PROVE  TreeMoves(w) /\ worker'[w].at \in {"testing", "finish"}
  <2> DEFINE r == [worker[w] EXCEPT !.made = @ \cup M, !.tries = @ + 1]
  <2>1. worker' = [worker EXCEPT ![w] = r]
    BY <1>1, <1>3
  <2>2. /\ r.at = "testing" /\ r.made = worker[w].made \cup M /\ r.snap = worker[w].snap /\ r.light = worker[w].light
        /\ r.undone = worker[w].undone
    BY <1>1 DEF Worker
  <2> HIDE DEF r
  <2>3. worker'[w] = r
    BY <1>1, <2>1
  <2>4. primary' \subseteq primary \cup Marks(w)
    BY <1>3 DEF Landed
  <2>5. ~worker[w].undone
    BY <1>1 DEF Over, After
  <2>6. QED
    BY <1>1, <2>2, <2>3, <2>4, <2>5 DEF TreeMoves, Over, Before
<1>4. ASSUME NEW M \in SUBSET Marks(w), ApplyRaises(w, M)
      PROVE  TreeMoves(w) /\ worker'[w].at \in {"testing", "finish"}
  BY <1>1, <1>4, RaisesLeaves
<1>5. QED
  BY <1>3, <1>4 DEF Repair

LEMMA CompleteCarries ==
    ASSUME JobsIInv, NEW w \in Workers, NEW a \in Worker, AfterTests(w, a) \/ PushOrComplete(w, a) \/ Complete(w, a)
    PROVE  Carries(w, a) /\ worker'[w].at \in {"committing", "pushing", "finish"}
<1>1. {"committing", "pushing"} \subseteq Interruptible
  BY DEF Interruptible
<1>2. \/ Enter(w, "committing", a) \/ Enter(w, "pushing", a)
      \/ \E o \in {"success", "fallback_plan_only"} : EndWith(w, "completed", o, a)
  BY DEF AfterTests, PushOrComplete, Complete
<1>3. QED
  BY <1>1, <1>2, EnterCarries, EndCarries

LEMMA TestsLeave ==
    ASSUME JobsIInv, NEW w \in Workers, Over(worker[w]),
           TestsPass(w) \/ TestsFail(w) \/ Commit(w) \/ Push(w)
    PROVE  TreeMoves(w) /\ WorktreeMoves(w)
<1>1. /\ worker[w].at \in {"testing", "committing", "pushing"} /\ worktree' = worktree
      /\ worker[w] \in Worker
  BY DEF TestsPass, TestsFail, Commit, Push, JobsIInv, TypeOK
<1>2. CASE UndoAndFail(w, worker[w], primary) /\ worker[w].at \in {"testing", "committing"}
  BY <1>1, <1>2, FailsLeaves DEF WorktreeMoves
<1>3. ASSUME NEW c \in Check, primary' = primary,
             LET a == [worker[w] EXCEPT !.passed = @ \cup {c}] IN AfterTests(w, a) \/ PushOrComplete(w, a)
      PROVE  TreeMoves(w) /\ WorktreeMoves(w)
  <2> DEFINE a == [worker[w] EXCEPT !.passed = @ \cup {c}]
  <2>1. a \in Worker /\ a.made = worker[w].made /\ a.snap = worker[w].snap /\ a.light = worker[w].light /\ a.undone = worker[w].undone
    BY <1>1 DEF Worker
  <2>2. AfterTests(w, a) \/ PushOrComplete(w, a)
    BY <1>3
  <2> HIDE DEF a
  <2>3. Carries(w, a) /\ worker'[w].at \in {"committing", "pushing", "finish"}
    BY <2>1, <2>2, CompleteCarries
  <2>4. SameTree(w)
    BY <1>3, <2>1, <2>3 DEF SameTree, Carries
  <2>5. QED
    BY <1>1, <2>3, <2>4, StageLeaves DEF Before
<1>4. CASE Push(w)
  <2>1. primary' = primary /\ Complete(w, worker[w])
    BY <1>4 DEF Push
  <2>2. Carries(w, worker[w]) /\ worker'[w].at \in {"committing", "pushing", "finish"}
    BY <1>1, <2>1, CompleteCarries
  <2>3. SameTree(w)
    BY <2>1, <2>2 DEF SameTree, Carries
  <2>4. QED
    BY <1>1, <2>2, <2>3, StageLeaves DEF Before
<1>5. CASE TestsPass(w)
  BY <1>3, <1>5 DEF TestsPass, Check
<1>6. CASE TestsFail(w) \/ Commit(w)
  BY <1>2, <1>3, <1>6 DEF TestsFail, Commit, Check
<1>7. QED
  BY <1>4, <1>5, <1>6

\* A worker changes its place, and nothing else of it.
LEMMA AtLeaves ==
    ASSUME JobsIInv, NEW w \in Workers, NEW s, worker' = [worker EXCEPT ![w].at = s]
    PROVE  /\ worker'[w].at = s /\ worker'[w].passed = worker[w].passed /\ worker'[w].made = worker[w].made
           /\ worker'[w].snap = worker[w].snap /\ worker'[w].light = worker[w].light /\ worker'[w].undone = worker[w].undone
<1> DEFINE r == [worker[w] EXCEPT !.at = s]
<1>1. worker \in [Workers -> Worker] /\ worker[w] \in Worker
  BY DEF JobsIInv, TypeOK
<1>2. worker' = [worker EXCEPT ![w] = r]
  BY <1>1
<1>3. /\ r.at = s /\ r.passed = worker[w].passed /\ r.made = worker[w].made
      /\ r.snap = worker[w].snap /\ r.light = worker[w].light /\ r.undone = worker[w].undone
  BY <1>1 DEF Worker
<1> HIDE DEF r
<1>4. worker'[w] = r
  BY <1>1, <1>2
<1>5. QED
  BY <1>3, <1>4

LEMMA FinishLeaves ==
    ASSUME JobsIInv, NEW w \in Workers, Over(worker[w]), Finish(w)
    PROVE  TreeMoves(w) /\ WorktreeMoves(w)
<1>1. worker[w].at = "finish" /\ worktree' = worktree /\ primary' = primary /\ worker \in [Workers -> Worker]
  BY DEF Finish, JobsIInv, TypeOK
<1>2. PICK s \in {"cleanup", "done"}, p \in {worker[w].passed, worker[w].passed \cup {"gate"}} :
        /\ worker' = [worker EXCEPT ![w] = [worker[w] EXCEPT !.at = s, !.passed = p]]
        /\ s = "done" => ~HasWorkspace(w)
  BY <1>1 DEF Finish
<1>3. /\ worker'[w].at = s /\ worker'[w].passed = p /\ SameTree(w)
  <2>1. PICK r : r = [worker[w] EXCEPT !.at = s, !.passed = p]
    OBVIOUS
  <2>2. worker' = [worker EXCEPT ![w] = r]
    BY <1>2, <2>1
  <2>3. r.at = s /\ r.passed = p /\ r.made = worker[w].made /\ r.snap = worker[w].snap /\ r.light = worker[w].light /\ r.undone = worker[w].undone
    BY <1>1, <2>1 DEF Worker
  <2>4. worker'[w] = r
    BY <1>1, <2>2
  <2>5. QED
    BY <1>1, <2>3, <2>4 DEF SameTree
<1>4. TreeMoves(w)
  BY <1>3, SameTreeMoves DEF Before, After
<1>5. WorktreeMoves(w)
  BY <1>1, <1>2, <1>3 DEF WorktreeMoves, HasWorkspace
<1>6. QED
  BY <1>4, <1>5

LEMMA CleanupLeaves ==
    ASSUME JobsIInv, NEW w \in Workers, Over(worker[w]), Cleanup(w)
    PROVE  TreeMoves(w) /\ WorktreeMoves(w)
<1>1. worker[w].at \in {"cleanup", "unwind"} /\ primary' = primary /\ worker \in [Workers -> Worker]
  BY DEF Cleanup, JobsIInv, TypeOK
<1>2. SUFFICES SameTree(w) /\ worker'[w].at \in {"done", "handler"} /\ WorktreeMoves(w)
  BY SameTreeMoves DEF Before, After
<1>3. CASE /\ worktree' = [worktree EXCEPT ![J(w)] = None]
           /\ worker' = [worker EXCEPT ![w].at = IF @ = "cleanup" THEN "done" ELSE "handler"]
  <2>1. PICK s \in {"done", "handler"} : worker' = [worker EXCEPT ![w].at = s]
    BY <1>3
  <2>2. SameTree(w) /\ worker'[w].at = s
    BY <1>1, <2>1, AtLeaves DEF SameTree
  <2>3. QED
    BY <1>3, <2>2 DEF WorktreeMoves
<1>4. CASE /\ worktree' = worktree
           /\ worker' = [worker EXCEPT ![w].at = "handler", ![w].passed = @ \cup {"leftover"}]
  <2>1. PICK p : p = worker[w].passed \cup {"leftover"}
    OBVIOUS
  <2>2. PICK r : r = [worker[w] EXCEPT !.at = "handler", !.passed = p]
    OBVIOUS
  <2>3. worker' = [worker EXCEPT ![w] = r]
    BY <1>1, <1>4, <2>1, <2>2
  <2>4. r.at = "handler" /\ r.passed = p /\ r.made = worker[w].made /\ r.snap = worker[w].snap /\ r.light = worker[w].light /\ r.undone = worker[w].undone
    BY <1>1, <2>2 DEF Worker
  <2>5. worker'[w] = r
    BY <1>1, <2>3
  <2>6. SameTree(w) /\ worker'[w].at = "handler" /\ worker'[w].passed = p
    BY <1>1, <2>4, <2>5 DEF SameTree
  <2>7. QED
    BY <1>4, <2>1, <2>6 DEF WorktreeMoves
<1>5. QED
  BY <1>3, <1>4 DEF Cleanup

LEMMA HandlerLeaves ==
    ASSUME JobsIInv, NEW w \in Workers, Over(worker[w]), Handler(w)
    PROVE  TreeMoves(w) /\ WorktreeMoves(w)
<1>1. /\ worker[w].at = "handler" /\ worktree' = worktree /\ primary' = primary
      /\ worker' = [worker EXCEPT ![w].at = "done"]
  BY DEF Handler
<1>2. SameTree(w) /\ worker'[w].at = "done" /\ worker'[w].passed = worker[w].passed
  BY <1>1, AtLeaves DEF SameTree
<1>3. TreeMoves(w)
  BY <1>2, SameTreeMoves DEF Before, After
<1>4. QED
  BY <1>1, <1>2, <1>3 DEF WorktreeMoves

LEMMA ExceptionLeaves ==
    ASSUME JobsIInv, NEW w \in Workers, Over(worker[w]), BranchRaises(w) \/ Crash(w)
    PROVE  TreeMoves(w) /\ WorktreeMoves(w)
<1>1. CASE BranchRaises(w)
  <2>1. /\ worker[w].at = "branching" /\ primary' = primary /\ service.isolated
        /\ worktree' = [worktree EXCEPT ![J(w)] = w] /\ worker' = [worker EXCEPT ![w].at = "handler"]
    BY <1>1 DEF BranchRaises
  <2>2. SameTree(w) /\ worker'[w].at = "handler" /\ worker'[w].passed = worker[w].passed
    BY <2>1, AtLeaves DEF SameTree
  <2>3. TreeMoves(w)
    BY <2>2, SameTreeMoves DEF Before, After
  <2>4. "branch" \notin worker[w].passed
    BY <2>1, WorkerIs DEF Stands
  <2>5. QED
    BY <2>1, <2>2, <2>3, <2>4 DEF WorktreeMoves
<1>2. CASE Crash(w)
  <2>1. /\ worker[w].at \in Interruptible \cup {"begin", "begun", "finish"}
        /\ worktree' = worktree /\ primary' = primary /\ worker \in [Workers -> Worker]
    BY <1>2 DEF Crash, JobsIInv, TypeOK
  <2>2. PICK s \in {"unwind", "handler", "done"} :
          /\ worker' = [worker EXCEPT ![w].at = s]
          /\ s = "done" => worker[w].at = "begin"
          /\ s = "handler" => ~HasWorkspace(w)
    BY <1>2, <2>1 DEF Crash
  <2>3. SameTree(w) /\ worker'[w].at = s /\ worker'[w].passed = worker[w].passed
    BY <2>1, <2>2, AtLeaves DEF SameTree
  <2>4. TreeMoves(w)
    BY <2>3, SameTreeMoves DEF Before, After
  <2>5. worker[w].at = "begin" => worker[w].passed = {}
    BY WorkerIs DEF Stands, Before
  <2>6. QED
    BY <2>1, <2>2, <2>3, <2>4, <2>5 DEF WorktreeMoves, HasWorkspace
<1>3. QED
  BY <1>1, <1>2

LEMMA PipelineLeaves ==
    ASSUME JobsIInv, NEW w \in Workers, Over(worker[w]), Stage(w) \/ BranchRaises(w) \/ Crash(w)
    PROVE  TreeMoves(w) /\ WorktreeMoves(w)
BY BeginLeaves, PlanLeaves, BackupLeaves, BranchLeaves, EditLeaves, RepairLeaves, TestsLeave, FinishLeaves,
   CleanupLeaves, HandlerLeaves, ExceptionLeaves
   DEF Stage

\* A worker that moves is alive.
LEMMA PipelineIsLive ==
    ASSUME NEW w \in Workers, Stage(w) \/ BranchRaises(w) \/ Crash(w) PROVE Live(w)
BY DEF Stage, Begin, StartPlanning, Plan, Backup, Branch, Edit, TestsPass, TestsFail, Repair,
       Commit, Push, Finish, Cleanup, Handler, BranchRaises, Crash, Interruptible, Live, Ended

\* Whoever acts but a pipeline leaves the worktrees alone, adds no change but the
\* owner's, and starts a worker, stops them all, or leaves their records alone.
SameRecord(v) ==
    /\ worker'[v].made = worker[v].made /\ worker'[v].snap = worker[v].snap /\ worker'[v].light = worker[v].light
    /\ worker'[v].undone = worker[v].undone /\ worker'[v].passed = worker[v].passed
    /\ worker'[v].j = worker[v].j
NewRecord(v) ==
    /\ worker[v].at = "idle" /\ worker'[v].at = "begin" /\ service.up /\ worker'[v].j \in Jobs
    /\ worker'[v].snap = {} /\ worker'[v].made = {} /\ worker'[v].undone = FALSE
Bystands ==
    /\ worktree' = worktree /\ primary' \in {primary, primary \cup {OwnerEdit}}
    /\ service' = service \/ \A v \in Workers : worker'[v].at \in Ended
    /\ \A v \in Workers : \/ SameRecord(v) /\ worker'[v].at = worker[v].at
                          \/ SameRecord(v) /\ Live(v) /\ worker'[v].at = "dead"
                          \/ NewRecord(v)

LEMMA SpawnBystands ==
    ASSUME JobsIInv, NEW j \in Jobs, service.up, Spawn(j), UNCHANGED <<worktree, primary, service>>
    PROVE  Bystands
<1> DEFINE r == [IdleWorker EXCEPT !.at = "begin", !.j = j]
<1>1. PICK w \in Workers : worker[w].at = "idle" /\ worker' = [worker EXCEPT ![w] = r]
  BY DEF Spawn
<1>2. r.at = "begin" /\ r.j = j /\ r.snap = {} /\ r.made = {} /\ r.undone = FALSE
  BY DEF IdleWorker
<1> HIDE DEF r
<1>3. worker'[w] = r /\ \A v \in Workers : v # w => worker'[v] = worker[v]
  BY <1>1 DEF JobsIInv, TypeOK
<1>4. NewRecord(w)
  BY <1>1, <1>2, <1>3 DEF NewRecord
<1>5. QED
  BY <1>3, <1>4 DEF Bystands, SameRecord

LEMMA StopBystands == ASSUME JobsIInv, ServiceStops PROVE Bystands
<1>1. ASSUME NEW v \in Workers
      PROVE  SameRecord(v) /\ (worker'[v].at = worker[v].at \/ (Live(v) /\ worker'[v].at = "dead"))
  <2>1. worker[v] \in Worker /\ worker'[v] = IF Live(v) THEN [worker[v] EXCEPT !.at = "dead"] ELSE worker[v]
    BY DEF ServiceStops, JobsIInv, TypeOK
  <2>2. CASE Live(v)
    BY <2>1, <2>2 DEF SameRecord, Worker
  <2>3. CASE ~Live(v)
    BY <2>1, <2>3 DEF SameRecord
  <2>4. QED
    BY <2>2, <2>3
<1>2. \A v \in Workers : worker'[v].at \in Ended
  BY StopIs
<1>3. worktree' = worktree /\ primary' = primary
  BY DEF ServiceStops
<1>4. QED
  BY <1>1, <1>2, <1>3 DEF Bystands

LEMMA PulseBystands == ASSUME JobsIInv, NEW w \in Workers, PulseDies(w) PROVE Bystands
<1> DEFINE r == [worker[w] EXCEPT !.pulse = FALSE]
<1>1. worker \in [Workers -> Worker] /\ worker[w] \in Worker
  BY DEF JobsIInv, TypeOK
<1>2. worker' = [worker EXCEPT ![w] = r] /\ UNCHANGED <<worktree, primary, service>>
  BY <1>1 DEF PulseDies
<1>3. /\ r.at = worker[w].at /\ r.made = worker[w].made /\ r.snap = worker[w].snap /\ r.light = worker[w].light
      /\ r.undone = worker[w].undone /\ r.passed = worker[w].passed /\ r.j = worker[w].j
  BY <1>1 DEF Worker
<1> HIDE DEF r
<1>4. worker'[w] = r /\ \A v \in Workers : v # w => worker'[v] = worker[v]
  BY <1>1, <1>2
<1>5. QED
  BY <1>2, <1>3, <1>4 DEF Bystands, SameRecord

\* Workers that live do so in a service that runs.
ServiceRuns == \A w \in Workers : Live(w) => service.up

LEMMA OthersBystand ==
    ASSUME JobsIInv, ServiceRuns, [Next]_vars,
           ~ \E w \in Workers : Stage(w) \/ BranchRaises(w) \/ Crash(w)
    PROVE  Bystands
<1>1. ASSUME UNCHANGED <<worker, worktree, service>>, primary' \in {primary, primary \cup {OwnerEdit}}
      PROVE  Bystands
  BY <1>1 DEF Bystands, SameRecord
<1>2. ASSUME NEW j \in Jobs, CreateJob(j) \/ Approve(j) PROVE Bystands
  <2>1. service.up /\ UNCHANGED <<worktree, primary, service>> /\ (worker' = worker \/ Spawn(j))
    BY <1>2 DEF CreateJob, Approve
  <2>2. QED
    BY <1>1, <2>1, SpawnBystands
<1>3. ASSUME NEW j \in Jobs, Cancel(j) \/ StopRead(j) \/ StopWrite(j) \/ GrowStale(j) PROVE Bystands
  BY <1>1, <1>3 DEF Cancel, StopRead, StopWrite, GrowStale
<1>4. CASE OwnerEdits \/ ForeignBoot \/ SweepRead \/ SweepWrite \/ UNCHANGED vars
  BY <1>1, <1>4 DEF OwnerEdits, ForeignBoot, RecoverInterrupted, SweepRead, SweepWrite, vars
<1>5. CASE Boot
  <2>1. ~service.up /\ UNCHANGED <<worker, worktree, primary>>
    BY <1>5 DEF Boot, RecoverInterrupted
  <2>2. \A v \in Workers : worker'[v].at \in Ended
    BY <2>1 DEF ServiceRuns, Live
  <2>3. QED
    BY <2>1, <2>2 DEF Bystands, SameRecord
<1>6. QED
  BY <1>2, <1>3, <1>4, <1>5, StopBystands, PulseBystands DEF Next

----------------------------------------------------------------------------
(* The worktrees *)

\* A worker that has not started owns no worktree, one at work owns one only where jobs
\* are isolated, and one that is done owns none unless git failed at it.
WorktreeIs(w) ==
    /\ worker[w].at = "idle" => \A j \in Jobs : worktree[j] # w
    /\ worker[w].at = "branching" => IsRepo
    /\ Live(w) => service.up
    /\ Live(w) /\ worktree[J(w)] = w => InWorktree
    /\ worker[w].at \in {"handler", "done"} /\ "branch" \in worker[w].passed =>
          "leftover" \in worker[w].passed \/ worktree[J(w)] # w

RemovedIInv == JobsIInv /\ \A w \in Workers : Over(worker[w]) /\ WorktreeIs(w)

LEMMA MoveRemoves ==
    ASSUME RemovedIInv, NEW w \in Workers, Live(w), WorkerMoves(w), PlaceMoves(w), WorktreeMoves(w)
    PROVE  \A v \in Workers : WorktreeIs(v)'
<1>1. /\ J(w) \in Jobs /\ worker[w].at # "idle" /\ worker \in [Workers -> Worker]
      /\ worktree \in [Jobs -> Workers \cup {None}]
  BY LiveIs DEF RemovedIInv, JobsIInv, TypeOK
<1>2. /\ worker'[w].j = worker[w].j /\ worker'[w].at \notin {"idle", "begin"} /\ service' = service
      /\ \A v \in Workers : v # w => worker'[v] = worker[v]
  BY <1>1 DEF WorkerMoves, PlaceMoves, J
<1>3. PICK x \in {None, w, worktree[J(w)]} : worktree' = [worktree EXCEPT ![J(w)] = x]
  BY DEF PlaceMoves
<1>4. ASSUME NEW v \in Workers, v # w PROVE WorktreeIs(v)'
  <2>1. \A j \in Jobs : worktree'[j] = v => worktree[j] = v
    BY <1>1, <1>3, <1>4, RuntimeAssumption
  <2>2. worker'[v].at # "idle" => worker'[v].j \in Jobs
    BY <1>2, <1>4, WorkerIs DEF RemovedIInv, J
  <2>3. worker'[v] = worker[v] /\ WorktreeIs(v)
    BY <1>2, <1>4 DEF RemovedIInv
  <2>4. worker'[v].at \in {"handler", "done"} \/ worker'[v].at \notin Ended => worker'[v].at # "idle"
    BY DEF Ended
  <2>5. QED
    BY <1>2, <2>1, <2>2, <2>3, <2>4 DEF WorktreeIs, Live, J, InWorktree
<1>5. WorktreeIs(w)'
  <2>1. service.up /\ WorktreeIs(w)
    BY DEF RemovedIInv, WorktreeIs
  <2>2. CASE /\ worktree' = worktree
             /\ worker'[w].at \in {"handler", "done"} /\ "branch" \in worker'[w].passed =>
                   \/ "leftover" \in worker'[w].passed \/ ~InWorktree
                   \/ worker[w].at = "handler" /\ worker'[w].passed = worker[w].passed
    <3>1. Live(w) /\ worker'[w].at = "branching" => IsRepo
      BY DEF WorktreeMoves
    <3>2. QED
      BY <1>2, <2>1, <2>2, <3>1 DEF WorktreeIs, Live, J, InWorktree
  <2>3. CASE /\ worktree' = [worktree EXCEPT ![J(w)] = w] /\ service.isolated /\ worker[w].at = "branching"
             /\ worker'[w].at \in {"handler", "done"} => "branch" \notin worker'[w].passed
    BY <1>2, <2>1, <2>3 DEF WorktreeIs, Live, J, InWorktree
  <2>4. CASE worktree' = [worktree EXCEPT ![J(w)] = None]
    <3>1. worktree'[worker'[w].j] # w
      BY <1>1, <1>2, <2>4, RuntimeAssumption DEF J
    <3>2. worker'[w].at = "branching" => IsRepo
      BY DEF WorktreeMoves
    <3>3. QED
      BY <1>2, <2>1, <3>1, <3>2 DEF WorktreeIs, Live, J, InWorktree
  <2>5. QED
    BY <2>2, <2>3, <2>4 DEF WorktreeMoves
<1>6. QED
  BY <1>4, <1>5

LEMMA BystandRemoves == ASSUME RemovedIInv, Bystands PROVE \A v \in Workers : Over(worker'[v]) /\ WorktreeIs(v)'
<1>1. SUFFICES ASSUME NEW v \in Workers PROVE Over(worker'[v]) /\ WorktreeIs(v)'
  OBVIOUS
<1>2. /\ Over(worker[v]) /\ WorktreeIs(v) /\ worktree' = worktree
      /\ service' = service \/ worker'[v].at \in Ended
  BY DEF RemovedIInv, Bystands
<1>3. CASE SameRecord(v) /\ worker'[v].at = worker[v].at
  BY <1>2, <1>3 DEF SameRecord, Over, WorktreeIs, Live, J, InWorktree
<1>4. CASE SameRecord(v) /\ Live(v) /\ worker'[v].at = "dead"
  BY <1>2, <1>4 DEF Over, WorktreeIs, Live, Ended, After
<1>5. CASE NewRecord(v)
  BY <1>2, <1>5 DEF NewRecord, Over, WorktreeIs, Live, Ended, J
<1>6. QED
  BY <1>3, <1>4, <1>5 DEF Bystands

LEMMA RemovedStep == RemovedIInv /\ [Next]_vars => RemovedIInv'
<1> SUFFICES ASSUME RemovedIInv, [Next]_vars PROVE RemovedIInv'
  OBVIOUS
<1>1. JobsIInv /\ JobsIInv'
  BY JobsStep DEF RemovedIInv
<1>2. ASSUME NEW w \in Workers, Stage(w) \/ BranchRaises(w) \/ Crash(w) PROVE RemovedIInv'
  <2>1. Live(w) /\ WorkerMoves(w) /\ PlaceMoves(w) /\ TreeMoves(w) /\ WorktreeMoves(w)
    BY <1>1, <1>2, PipelineIsLive, PipelineActs, PipelineLeaves DEF RemovedIInv
  <2>2. \A v \in Workers : WorktreeIs(v)'
    BY <2>1, MoveRemoves
  <2>3. \A v \in Workers : Over(worker'[v])
    BY <1>1, <2>1 DEF RemovedIInv, JobsIInv, TypeOK, WorkerMoves, TreeMoves
  <2>4. QED
    BY <1>1, <2>2, <2>3 DEF RemovedIInv
<1>3. CASE ~ \E w \in Workers : Stage(w) \/ BranchRaises(w) \/ Crash(w)
  <2>1. ServiceRuns
    BY DEF ServiceRuns, RemovedIInv, WorktreeIs
  <2>2. QED
    BY <1>1, <1>3, <2>1, OthersBystand, BystandRemoves DEF RemovedIInv
<1>4. QED
  BY <1>2, <1>3

\* However a pipeline ends, by its own end, by an exception or by a failed write, the
\* worktree it has begun to edit in is removed, unless git could not: for any jobs and
\* workers, whatever is approved and whichever heartbeat dies.
THEOREM WorktreeIsRemoved == Spec => []WorktreeRemoved
<1>1. Init => RemovedIInv
  <2>1. ASSUME Init PROVE RemovedIInv
    <3>1. \A w \in Workers : worker[w].at = "idle" /\ worker[w].undone = FALSE
      BY <2>1 DEF Init, IdleWorker
    <3>2. \A w \in Workers, j \in Jobs : worktree[j] # w
      BY <2>1, RuntimeAssumption DEF Init
    <3>3. QED
      BY <2>1, <3>1, <3>2, JobsBegin DEF RemovedIInv, Over, WorktreeIs, Live, Ended
  <2>2. QED
    BY <2>1
<1>2. RemovedIInv => WorktreeRemoved
  BY DEF RemovedIInv, WorktreeIs, WorktreeRemoved
<1>3. QED
  BY <1>1, <1>2, RemovedStep, PTL DEF Spec

----------------------------------------------------------------------------
(* The project tree after a rollback *)

\* One job in the system: its runs follow each other.
OneJob == \A i, j \in Jobs : i = j

\* What a worker has recorded is its own, nothing of its own is in the tree before it
\* edits or while it edits elsewhere, nor in an archive taken then, and no archive brings
\* back what a run before it has rolled back.
ChangesAre(w) ==
    /\ worker[w].made \subseteq Marks(w)
    /\ worker[w].at \in Before \/ (Live(w) /\ InWorktree) => Marks(w) \cap primary = {}
    /\ worker[w].undone => Owed(worker[w]) \cap primary = {}
    /\ \A v \in Workers : Live(v) =>
          /\ v = w \/ worker[w].at = "idle" => worker[v].snap \cap Marks(w) = {}
          /\ worker[w].undone => Owed(worker[w]) \cap worker[v].snap = {}

RollIInv == HeldIInv /\ \A w \in Workers : Over(worker[w]) /\ ChangesAre(w)

LEMMA MarksApart ==
    /\ \A v, w \in Workers : v # w => Marks(v) \cap Marks(w) = {}
    /\ \A w \in Workers : OwnerEdit \notin Marks(w)
BY RuntimeAssumption DEF Marks, OwnerEdit, Kinds

\* With one job nobody else is alive.
LEMMA Alone == ASSUME OneJob, HeldIInv, NEW w \in Workers, Live(w) PROVE \A v \in Workers : Live(v) => v = w
BY LiveIs DEF HeldIInv, OneWorker, OneJob

LEMMA MoveRolls ==
    ASSUME OneJob, RollIInv, NEW w \in Workers, Live(w), WorkerMoves(w), PlaceMoves(w), TreeMoves(w),
           InWorktree => primary' = primary
    PROVE  \A v \in Workers : ChangesAre(v)'
<1>1. /\ worker \in [Workers -> Worker] /\ worker[w].at # "idle" /\ worker'[w].at # "idle" /\ service' = service
      /\ \A v \in Workers : v # w => worker'[v] = worker[v]
      /\ \A v \in Workers : v # w => worker[v].at \in Ended
  <2>1. worker \in [Workers -> Worker] /\ worker[w].at # "idle"
    BY DEF RollIInv, HeldIInv, JobsIInv, TypeOK, Live, Ended
  <2>2. \A v \in Workers : v # w => worker[v].at \in Ended
    BY Alone DEF RollIInv, Live
  <2>3. QED
    BY <2>1, <2>2 DEF WorkerMoves, PlaceMoves
<1>2. ChangesAre(w) /\ (worker[w].snap \cap Marks(w) = {})
  BY DEF RollIInv, ChangesAre
<1>3. primary' \subseteq primary \cup Marks(w) \cup worker[w].snap
      /\ \/ worker'[w].snap = worker[w].snap
         \/ worker[w].at \in Before /\ worker'[w].snap \subseteq primary
  BY DEF TreeMoves, Before
<1>4. ASSUME NEW v \in Workers, v # w PROVE ChangesAre(v)'
  <2>1. ChangesAre(v) /\ worker'[v] = worker[v] /\ worker[v].at \in Ended /\ Marks(v) \cap Marks(w) = {}
    BY <1>1, <1>4, MarksApart DEF RollIInv
  <2>2. worker[v].at \in Before => worker[v].at = "idle"
    BY <2>1 DEF Before, Ended
  <2>3. worker'[v].at \in Before => Marks(v) \cap primary' = {}
    <3>1. worker[v].at = "idle" => Marks(v) \cap primary = {} /\ worker[w].snap \cap Marks(v) = {}
      BY <2>1 DEF ChangesAre, Before
    <3>2. QED
      BY <1>3, <2>1, <2>2, <3>1
  <2>4. worker'[v].undone => Owed(worker'[v]) \cap primary' = {}
    <3>1. worker[v].undone => /\ Owed(worker[v]) \cap primary = {} /\ Owed(worker[v]) \cap worker[w].snap = {}
                              /\ Owed(worker[v]) \subseteq Marks(v)
      BY <2>1 DEF ChangesAre, Owed
    <3>2. QED
      BY <1>3, <2>1, <3>1
  <2>5. /\ worker'[v].at = "idle" => worker'[w].snap \cap Marks(v) = {}
        /\ worker'[v].undone => Owed(worker'[v]) \cap worker'[w].snap = {}
    BY <1>3, <2>1 DEF ChangesAre, Before
  <2>6. \A u \in Workers : worker'[u].at \notin Ended => u = w
    BY <1>1
  <2>7. QED
    BY <1>1, <1>4, <2>1, <2>3, <2>4, <2>5, <2>6 DEF ChangesAre, Live
<1>5. ChangesAre(w)'
  <2>1. worker'[w].made \subseteq Marks(w)
    BY <1>2 DEF TreeMoves, ChangesAre
  <2>2. worker'[w].at \in Before \/ (worker'[w].at \notin Ended /\ InWorktree) => Marks(w) \cap primary' = {}
    <3>1. worker'[w].at \in Before => worker[w].at \in Before /\ primary' = primary
      BY DEF TreeMoves
    <3>2. QED
      BY <1>2, <3>1 DEF ChangesAre
  <2>6. Owed(worker'[w]) \subseteq Marks(w)
    BY <2>1 DEF Owed
  <2>3. worker'[w].undone => Owed(worker'[w]) \cap primary' = {}
    <3>1. CASE worker[w].undone /\ Owed(worker'[w]) = Owed(worker[w]) /\ primary' = primary
      BY <1>2, <3>1 DEF ChangesAre
    <3>2. CASE InWorktree
      BY <1>2, <2>6, <3>2 DEF ChangesAre
    <3>3. CASE Owed(worker'[w]) \cap primary' \subseteq worker[w].snap
      BY <1>2, <2>6, <3>3
    <3>4. QED
      BY <3>1, <3>2, <3>3 DEF TreeMoves
  <2>4. worker'[w].snap \cap Marks(w) = {}
    BY <1>2, <1>3 DEF ChangesAre
  <2>5. QED
    BY <1>1, <2>1, <2>2, <2>3, <2>4, <2>6 DEF ChangesAre, Live, InWorktree
<1>6. QED
  BY <1>4, <1>5

LEMMA BystandRolls == ASSUME RollIInv, Bystands PROVE \A v \in Workers : ChangesAre(v)'
<1>1. SUFFICES ASSUME NEW w \in Workers PROVE ChangesAre(w)'
  OBVIOUS
<1>2. ChangesAre(w) /\ primary' \in {primary, primary \cup {OwnerEdit}} /\ OwnerEdit \notin Marks(w)
  BY MarksApart DEF RollIInv, Bystands
<1>3. /\ worker'[w].made \subseteq Marks(w)
      /\ worker'[w].at \in Before => worker[w].at \in Before
      /\ worker'[w].at \notin Ended => service' = service /\ (Live(w) \/ worker[w].at \in Before)
      /\ worker'[w].undone => worker[w].undone /\ Owed(worker'[w]) = Owed(worker[w])
      /\ worker'[w].at = "idle" => worker[w].at = "idle"
  BY <1>2 DEF Bystands, SameRecord, NewRecord, Live, Ended, Before, ChangesAre, Owed
<1>4. worker'[w].at \in Before \/ (worker'[w].at \notin Ended /\ InWorktree') => Marks(w) \cap primary' = {}
  BY <1>2, <1>3 DEF ChangesAre, InWorktree
<1>5. worker'[w].undone => Owed(worker'[w]) \cap primary' = {}
  <2>1. worker[w].undone => Owed(worker[w]) \subseteq Marks(w) /\ Owed(worker[w]) \cap primary = {}
    BY <1>2 DEF ChangesAre, Owed
  <2>2. QED
    BY <1>2, <1>3, <2>1
<1>6. ASSUME NEW v \in Workers, worker'[v].at \notin Ended
      PROVE  /\ v = w \/ worker'[w].at = "idle" => worker'[v].snap \cap Marks(w) = {}
             /\ worker'[w].undone => Owed(worker'[w]) \cap worker'[v].snap = {}
  <2>1. worker'[v].snap = {} \/ (worker'[v].snap = worker[v].snap /\ Live(v))
    BY <1>6 DEF Bystands, SameRecord, NewRecord, Live, Ended
  <2>2. QED
    BY <1>2, <1>3, <2>1 DEF ChangesAre
<1>7. QED
  BY <1>3, <1>4, <1>5, <1>6 DEF ChangesAre, Live

LEMMA RollStep == OneJob /\ RollIInv /\ [Undisturbed]_vars /\ [Next]_vars => RollIInv'
<1> SUFFICES ASSUME OneJob, RollIInv, [Undisturbed]_vars, [Next]_vars PROVE RollIInv'
  OBVIOUS
<1>1. HeldIInv /\ HeldIInv' /\ JobsIInv /\ \A v \in Workers : Over(worker[v])
  BY HeldStep DEF RollIInv, HeldIInv
<1>2. ASSUME NEW w \in Workers, Stage(w) \/ BranchRaises(w) \/ Crash(w) PROVE RollIInv'
  <2>1. Live(w) /\ WorkerMoves(w) /\ PlaceMoves(w) /\ TreeMoves(w) /\ (InWorktree => primary' = primary)
    BY <1>1, <1>2, PipelineIsLive, PipelineActs, PipelineLeaves, PipelineSpares
  <2>2. \A v \in Workers : ChangesAre(v)'
    BY <2>1, MoveRolls
  <2>3. \A v \in Workers : Over(worker'[v])
    BY <1>1, <2>1 DEF JobsIInv, TypeOK, WorkerMoves, TreeMoves
  <2>4. QED
    BY <1>1, <2>2, <2>3 DEF RollIInv
<1>3. CASE ~ \E w \in Workers : Stage(w) \/ BranchRaises(w) \/ Crash(w)
  <2>1. ServiceRuns
    BY <1>1 DEF ServiceRuns, HeldIInv, Watched
  <2>2. Bystands
    BY <1>1, <1>3, <2>1, OthersBystand
  <2>3. \A v \in Workers : Over(worker'[v])
    BY <1>1, <2>2 DEF Bystands, SameRecord, NewRecord, Over, After
  <2>4. QED
    BY <1>1, <2>2, <2>3, BystandRolls DEF RollIInv
<1>4. QED
  BY <1>2, <1>3

\* A job whose rollback worked leaves none of the changes it had recorded in the project
\* tree, but for the loose files that a light snapshot does not hold, nor does a later run
\* of it bring them back: for one job at a time, run any number of times, in a worktree or
\* in the tree, in every behaviour whose live workers are left alone.
THEOREM RollbackIsClean == ASSUME OneJob PROVE Spec /\ [][Undisturbed]_vars => []RolledBackClean
<1>1. Init => RollIInv
  <2>1. ASSUME Init PROVE RollIInv
    <3>1. \A w \in Workers : worker[w].at = "idle" /\ worker[w].undone = FALSE /\ worker[w].made = {}
      BY <2>1 DEF Init, IdleWorker
    <3>2. primary = {}
      BY <2>1 DEF Init
    <3>3. QED
      BY <2>1, <3>1, <3>2, HeldBegin DEF RollIInv, Over, ChangesAre, Live, Ended
  <2>2. QED
    BY <2>1
<1>2. RollIInv => RolledBackClean
  BY DEF RollIInv, ChangesAre, RolledBackClean
<1>3. RollIInv /\ [Undisturbed]_vars /\ [Next]_vars => RollIInv'
  BY RollStep
<1>4. QED
  BY <1>1, <1>2, <1>3, PTL DEF Spec
=============================================================================
