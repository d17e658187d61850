---------------------------- MODULE Orchestrator ----------------------------
(***************************************************************************)
(* One agent under the orchestrator (core/agent_orchestrator.py): the      *)
(* sweep that derives its state and saves its record, the watcher that     *)
(* resumes it on an unfinished task (core/agent_watcher.py), the advance   *)
(* to the next approved phase (core/agent_phase_advance.py), and the       *)
(* owner's goal with its queue of tasks (core/orchestrator_plan.py).       *)
(*                                                                         *)
(* The sweep runs in a thread.  The agent goes on while it runs, the owner *)
(* adds and settles tasks through the API, and the service may stop        *)
(* between any two of its steps.  A delivery carries an idempotency key,   *)
(* which is recorded after the keystrokes and lapses a day later.          *)
(***************************************************************************)
EXTENDS Integers, FiniteSets

CONSTANTS
    OrTasks,        \* 1..n, in the order of the plan
    OrDepends,      \* [OrTasks -> SUBSET OrTasks], depends_on
    OrPhases,       \* number of the phases configured for the session
    OrMaxResumes,   \* MAX_RESUMES
    OrLosses,       \* bound: deliveries whose key is never recorded
    OrSettings      \* the settings: goal: an owner sets one, advance: cfg.advance_phases,
                    \* settles: the owner settles tasks by hand, losses: bounded by OrLosses

ASSUME OrAssumption ==
    /\ OrTasks \subseteq Nat \ {0} /\ OrDepends \in [OrTasks -> SUBSET OrTasks]
    /\ OrMaxResumes \in Nat /\ OrLosses \in Nat /\ OrPhases \in Nat \ {0}
    /\ OrSettings \subseteq [goal : BOOLEAN, advance : BOOLEAN, settles : BOOLEAN, losses : 0..OrLosses]

VARIABLES
    orAgent,        \* what the agent is doing, and whether a report of its is fresh
    orLocked,       \* the budget gate is closed
    orGoal,         \* orchestrator_goal, the status of the goal
    orTask,         \* orchestrator_task, the status by task
    orMarker,       \* the tasks whose completion marker exists
    orRecord,       \* agent_orchestrator: state, retry_count
    orAdvance,      \* agent_phase_advance: the status by phase
    orKeys,         \* deliveries: the idempotency keys taken
    orTyped,        \* how often a text was typed under a key since that key lapsed; history
    orLost,         \* the keys that were never recorded, so far
    orSweep,        \* the sweep: its step, the state seen, the record to save, the task it
                    \* sends, the tasks it may send
    orSetting       \* one of OrSettings

OrVars == <<orAgent, orLocked, orGoal, orTask, orMarker, orRecord, orAdvance, orKeys,
            orTyped, orLost, orSweep, orSetting>>

\* The keys: a phase, a task as it is dispatched (0) and as it is resumed (1, 2, ...).
OrKeys == ({"task"} \X OrTasks \X (0..OrMaxResumes)) \cup ({"phase"} \X (1..OrPhases) \X {0})
OrSettled == {"completed", "waiting_external"}
OrResting == [at |-> "rest", seen |-> "none", retry |-> 0, task |-> 0, ready |-> {}]

OrTypeOK ==
    /\ orAgent \in [state : {"working", "idle"}, fresh : BOOLEAN]
    /\ orLocked \in BOOLEAN
    /\ orGoal \in {"none", "active", "complete"}
    /\ orTask \in [OrTasks -> {"none", "pending", "dispatched"} \cup OrSettled]
    /\ orMarker \subseteq OrTasks
    /\ orRecord \in [state : {"none", "working", "idle", "completed", "paused"}, retry : 0..OrMaxResumes]
    /\ orAdvance \in [1..OrPhases -> {"none", "dispatched", "verified", "dispatched_no_working",
                                      "rolled_back"}]
    /\ orKeys \subseteq OrKeys
    /\ orTyped \in [OrKeys -> 0..OrLosses + 1] /\ orLost \in 0..OrLosses
    /\ orSweep \in [at : {"rest", "evaluate", "resume typed", "save", "advance", "phase typed", "phase",
                          "verify", "plan", "dispatch", "task typed", "mark", "count", "close"},
                    seen : {"none", "working", "idle", "completed", "paused"},
                    retry : 0..OrMaxResumes, task : OrTasks \cup {0}, ready : SUBSET OrTasks]
    /\ orSetting \in OrSettings

OrInit ==
    /\ orAgent = [state |-> "idle", fresh |-> FALSE]
    /\ orLocked = FALSE
    /\ orGoal = "none"
    /\ orTask = [t \in OrTasks |-> "none"]
    /\ orMarker = {}
    /\ orRecord = [state |-> "none", retry |-> 0]
    /\ orAdvance = [p \in 1..OrPhases |-> "none"]
    /\ orKeys = {} /\ orTyped = [k \in OrKeys |-> 0] /\ orLost = 0
    /\ orSweep = OrResting /\ orSetting \in OrSettings

----------------------------------------------------------------------------
\* agent_send, as the sweep uses it: refused while the agent is busy and swallowed as a
\* duplicate when the key is taken, both without an exception; or typed, the key still
\* to be recorded.  Enter may fail to start a turn.
OrSkips(key) ==
    /\ orAgent.state = "working" \/ key \in orKeys
    /\ UNCHANGED <<orAgent, orTyped>>
OrTypes(key) ==
    /\ orAgent.state = "idle" /\ key \notin orKeys
    /\ orTyped' = [orTyped EXCEPT ![key] = @ + 1]
    /\ \E state \in {"working", "idle"} : orAgent' = [orAgent EXCEPT !.state = state]

\* The key of what was typed last.
OrPending ==
    IF orSweep.at = "phase typed" THEN <<"phase", 2, 0>>
    ELSE <<"task", orSweep.task, IF orSweep.at = "task typed" THEN 0 ELSE orSweep.retry>>

----------------------------------------------------------------------------
(* The agent, the budget and the owner *)

OrAgentWorks ==     \* on its own, or because the owner typed something
    /\ orAgent.state = "idle" /\ orAgent' = [orAgent EXCEPT !.state = "working"]
    /\ UNCHANGED <<orLocked, orGoal, orTask, orMarker, orRecord, orAdvance, orKeys, orTyped,
                   orLost, orSweep, orSetting>>
\* Having finished a task that was dispatched, or not: a marker is read of no other.  Only
\* where a project advances by its reports does one matter.
OrAgentRests ==
    /\ orAgent.state = "working"
    /\ \E fresh \in {orSetting.advance, orAgent.fresh} : orAgent' = [state |-> "idle", fresh |-> fresh]
    /\ \E done \in {{}} \cup {{t} : t \in {u \in OrTasks : orTask[u] = "dispatched"}} : orMarker' = orMarker \cup done
    /\ UNCHANGED <<orLocked, orGoal, orTask, orRecord, orAdvance, orKeys, orTyped, orLost,
                   orSweep, orSetting>>
OrReportAges ==
    /\ orAgent.fresh /\ orAgent' = [orAgent EXCEPT !.fresh = FALSE]
    /\ UNCHANGED <<orLocked, orGoal, orTask, orMarker, orRecord, orAdvance, orKeys, orTyped,
                   orLost, orSweep, orSetting>>
OrBudget ==
    /\ orLocked' = ~orLocked
    /\ UNCHANGED <<orAgent, orGoal, orTask, orMarker, orRecord, orAdvance, orKeys, orTyped,
                   orLost, orSweep, orSetting>>
OrSetGoal ==
    /\ orSetting.goal /\ orGoal = "none" /\ orGoal' = "active"
    /\ UNCHANGED <<orAgent, orLocked, orTask, orMarker, orRecord, orAdvance, orKeys, orTyped,
                   orLost, orSweep, orSetting>>
OrAddTask(t) ==
    /\ orGoal = "active" /\ orTask[t] = "none" /\ \A u \in OrTasks : u < t => orTask[u] # "none"
    /\ orTask' = [orTask EXCEPT ![t] = "pending"]
    /\ UNCHANGED <<orAgent, orLocked, orGoal, orMarker, orRecord, orAdvance, orKeys, orTyped,
                   orLost, orSweep, orSetting>>
\* task-status: the owner settles a task by hand, whatever the sweep is doing, or adds it
\* settled.
OrSettles(t) ==
    /\ orSetting.settles /\ orTask[t] \in {"pending", "dispatched"}
    /\ \E status \in OrSettled : orTask' = [orTask EXCEPT ![t] = status]
    /\ UNCHANGED <<orAgent, orLocked, orGoal, orMarker, orRecord, orAdvance, orKeys, orTyped,
                   orLost, orSweep, orSetting>>
OrRollback(p) ==
    /\ orAdvance[p] \in {"dispatched", "verified", "dispatched_no_working"}
    /\ orAdvance' = [orAdvance EXCEPT ![p] = "rolled_back"]
    /\ UNCHANGED <<orAgent, orLocked, orGoal, orTask, orMarker, orRecord, orKeys, orTyped,
                   orLost, orSweep, orSetting>>

----------------------------------------------------------------------------
(* The sweep *)

\* derive
OrDerived ==
    CASE orLocked -> "paused"
      [] ~orLocked /\ orAgent.state = "working" -> "working"
      [] ~orLocked /\ orAgent.state = "idle" -> IF orAgent.fresh THEN "completed" ELSE "idle"
OrLooks ==
    /\ orSweep.at = "rest"
    /\ orSweep' = [OrResting EXCEPT !.at = "evaluate", !.seen = OrDerived]
    /\ UNCHANGED <<orAgent, orLocked, orGoal, orTask, orMarker, orRecord, orAdvance, orKeys,
                   orTyped, orLost, orSetting>>

\* assigned_unfinished_task: the first one.
OrAssigned ==
    IF orGoal = "active" THEN {t \in OrTasks : /\ orTask[t] = "dispatched"
                                               /\ \A u \in 1..t - 1 : orTask[u] # "dispatched"}
    ELSE {}

\* _verify_after_budget_reset
OrRetry ==
    IF orRecord.state = "paused" /\ ~orLocked /\ orSweep.seen = "working" THEN 0 ELSE orRecord.retry

\* The middle of refresh_and_resolve: the budget that was reset, then the watcher, which
\* resumes the agent on its task once STALL_DWELL_SECS have passed since the dispatch.
OrWatches ==
    /\ orSweep.at = "evaluate" /\ orSweep' = [orSweep EXCEPT !.at = "save", !.retry = OrRetry]
    /\ UNCHANGED <<orAgent, orLocked, orGoal, orTask, orMarker, orRecord, orAdvance, orKeys,
                   orTyped, orLost, orSetting>>
OrResumes ==
    /\ orSweep.at = "evaluate" /\ orSweep.seen = "idle" /\ ~orLocked /\ OrRetry < OrMaxResumes
    /\ \E t \in OrAssigned :
          LET next(at) == [orSweep EXCEPT !.at = at, !.retry = OrRetry + 1, !.task = t] IN
          \/ OrSkips(<<"task", t, OrRetry + 1>>) /\ orSweep' = next("save")
          \/ OrTypes(<<"task", t, OrRetry + 1>>) /\ orSweep' = next("resume typed")
    /\ UNCHANGED <<orLocked, orGoal, orTask, orMarker, orRecord, orAdvance, orKeys, orLost, orSetting>>

\* _upsert: only now is the record written.
OrSaves ==
    /\ orSweep.at = "save"
    /\ orRecord' = [state |-> orSweep.seen, retry |-> orSweep.retry]
    /\ orSweep' = [OrResting EXCEPT !.at = "advance", !.seen = orSweep.seen]
    /\ UNCHANGED <<orAgent, orLocked, orGoal, orTask, orMarker, orAdvance, orKeys, orTyped,
                   orLost, orSetting>>

\* advance_if_ready.  rec["phase"] is the first phase of the configuration when it is
\* first recorded and never changes, so the next phase is always the second; it may have
\* no approved text, and the report a failure marker.
OrMayAdvance ==
    /\ orSetting.advance /\ ~orLocked /\ orSweep.seen = "completed" /\ OrPhases >= 2
    /\ orAdvance[2] \notin {"dispatched", "verified"}
OrAdvances ==
    /\ orSweep.at = "advance"
    /\ \/ orSweep' = [OrResting EXCEPT !.at = "plan"] /\ UNCHANGED <<orAgent, orTyped>>
       \/ /\ OrMayAdvance
          /\ \/ OrSkips(<<"phase", 2, 0>>) /\ orSweep' = [OrResting EXCEPT !.at = "phase"]
             \/ OrTypes(<<"phase", 2, 0>>) /\ orSweep' = [OrResting EXCEPT !.at = "phase typed"]
    /\ UNCHANGED <<orLocked, orGoal, orTask, orMarker, orRecord, orAdvance, orKeys, orLost, orSetting>>
\* _record, before and after the agent is watched for a turn.
OrRecords(from, status, to) ==
    /\ orSweep.at = from
    /\ orAdvance' = [orAdvance EXCEPT ![2] = status]
    /\ orSweep' = [orSweep EXCEPT !.at = to]
    /\ UNCHANGED <<orAgent, orLocked, orGoal, orTask, orMarker, orRecord, orKeys, orTyped,
                   orLost, orSetting>>
OrPhaseRecorded ==
    \/ OrRecords("phase", "dispatched", "verify")
    \/ OrRecords("verify", IF orAgent.state = "working" THEN "verified" ELSE "dispatched_no_working", "plan")

\* Mutant: the dependencies are not looked at.
OrReadyAlone(tasks, t) == tasks[t] = "pending"

\* _deps_satisfied
OrReady(tasks, t) == tasks[t] = "pending" /\ \A u \in OrDepends[t] : tasks[u] \in OrSettled

\* tick, first half: the tasks are read, those with a marker completed, and the ones
\* that are ready found, in the list as it was read.  The agent is at rest by the
\* record of this sweep.
OrCompletes ==
    LET tasks == [t \in OrTasks |-> IF orTask[t] = "dispatched" /\ t \in orMarker
                                    THEN "completed" ELSE orTask[t]]
    IN  /\ orSweep.at = "plan"
        /\ IF orGoal = "active"
           THEN /\ orTask' = tasks
                /\ orSweep' = [OrResting EXCEPT !.at = "dispatch",
                                   !.ready = IF orRecord.state \in {"idle", "completed"}
                                             THEN {t \in OrTasks : OrReady(tasks, t)} ELSE {}]
           ELSE orTask' = orTask /\ orSweep' = OrResting
        /\ UNCHANGED <<orAgent, orLocked, orGoal, orMarker, orRecord, orAdvance, orKeys, orTyped,
                       orLost, orSetting>>

\* tick, second half: one dispatch.  A send that raises is none, and the next task is tried.
OrDispatches ==
    /\ orSweep.at = "dispatch"
    /\ \/ \E t \in orSweep.ready :
             LET next(at) == [orSweep EXCEPT !.at = at, !.task = t, !.ready = @ \ {t}] IN
             /\ \A u \in orSweep.ready : t <= u
             /\ \/ OrSkips(<<"task", t, 0>>) /\ orSweep' = next("mark")
                \/ OrTypes(<<"task", t, 0>>) /\ orSweep' = next("task typed")
                \/ orSweep' = next("dispatch") /\ UNCHANGED <<orAgent, orTyped>>
       \/ /\ orSweep.ready = {} /\ orSweep' = [OrResting EXCEPT !.at = "count"]
          /\ UNCHANGED <<orAgent, orTyped>>
    /\ UNCHANGED <<orLocked, orGoal, orTask, orMarker, orRecord, orAdvance, orKeys, orLost, orSetting>>
\* mark_dispatched
OrMarks ==
    /\ orSweep.at = "mark"
    /\ orTask' = [orTask EXCEPT ![orSweep.task] = "dispatched"]
    /\ orSweep' = [OrResting EXCEPT !.at = "count"]
    /\ UNCHANGED <<orAgent, orLocked, orGoal, orMarker, orRecord, orAdvance, orKeys, orTyped,
                   orLost, orSetting>>

\* The tasks are listed again; with all of them completed the goal is.
OrCounts ==
    /\ orSweep.at = "count"
    /\ orSweep' = IF \E t \in OrTasks : orTask[t] \in {"pending", "dispatched", "waiting_external"}
                  THEN OrResting ELSE [orSweep EXCEPT !.at = "close"]
    /\ UNCHANGED <<orAgent, orLocked, orGoal, orTask, orMarker, orRecord, orAdvance, orKeys,
                   orTyped, orLost, orSetting>>
OrCloses ==
    /\ orSweep.at = "close"
    /\ orGoal' = "complete" /\ orSweep' = OrResting
    /\ UNCHANGED <<orAgent, orLocked, orTask, orMarker, orRecord, orAdvance, orKeys, orTyped,
                   orLost, orSetting>>

----------------------------------------------------------------------------
(* The keys, and stops of the service *)

\* _record_delivery; when it raises the sweep goes on, a phase or a task that was typed
\* not being recorded as such.
OrKeyed(from, key, after, failed) ==
    /\ orSweep.at = from
    /\ \/ orKeys' = orKeys \cup {key} /\ orSweep' = [orSweep EXCEPT !.at = after] /\ orLost' = orLost
       \/ /\ orLost < orSetting.losses /\ orLost' = orLost + 1
          /\ orSweep' = [orSweep EXCEPT !.at = failed] /\ orKeys' = orKeys
    /\ UNCHANGED <<orAgent, orLocked, orGoal, orTask, orMarker, orRecord, orAdvance, orTyped, orSetting>>
OrRecordsKey ==
    \/ OrKeyed("resume typed", OrPending, "save", "save")
    \/ OrKeyed("phase typed", OrPending, "phase", "plan")
    \/ OrKeyed("task typed", OrPending, "mark", "dispatch")

\* _seen_delivery drops a key that is older than _IDEMPOTENCY_TTL_SECS.
OrKeyLapses(key) ==
    /\ key \in orKeys
    /\ orKeys' = orKeys \ {key} /\ orTyped' = [orTyped EXCEPT ![key] = 0]
    /\ UNCHANGED <<orAgent, orLocked, orGoal, orTask, orMarker, orRecord, orAdvance, orLost,
                   orSweep, orSetting>>

OrCrash ==
    /\ orSweep # OrResting /\ orSweep' = OrResting
    /\ IF orSweep.at \in {"resume typed", "phase typed", "task typed"}
       THEN orLost < orSetting.losses /\ orLost' = orLost + 1 ELSE orLost' = orLost
    /\ UNCHANGED <<orAgent, orLocked, orGoal, orTask, orMarker, orRecord, orAdvance, orKeys,
                   orTyped, orSetting>>

----------------------------------------------------------------------------
OrSweepStep ==
    \/ OrLooks \/ OrWatches \/ OrResumes \/ OrSaves \/ OrAdvances \/ OrPhaseRecorded
    \/ OrCompletes \/ OrDispatches \/ OrMarks \/ OrCounts \/ OrCloses \/ OrRecordsKey
OrNext ==
    \/ OrSweepStep \/ OrCrash
    \/ OrAgentWorks \/ OrAgentRests \/ OrReportAges \/ OrBudget \/ OrSetGoal
    \/ \E t \in OrTasks : OrAddTask(t) \/ OrSettles(t)
    \/ \E p \in 1..OrPhases : OrRollback(p)
    \/ \E key \in OrKeys : OrKeyLapses(key)
OrSpec == OrInit /\ [][OrNext]_OrVars

----------------------------------------------------------------------------
\* A task's text reaches the agent only after every task it depends on is completed or
\* waits for an outsider.  It is typed once as the dispatch and once as each of
\* MAX_RESUMES resumes, a phase's text once, while the key of that delivery lives: once
\* more only for a delivery whose key was never recorded.
OrInv ==
    /\ \A t \in OrTasks, n \in 0..OrMaxResumes :
          orTyped[<<"task", t, n>>] > 0 => \A u \in OrDepends[t] : orTask[u] \in OrSettled
    /\ \A key \in OrKeys : orTyped[key] <= 1 + orLost

\* "dispatches the EXACT owner-approved next-phase task text into the SAME agent session,
\* once, and verifies the agent returns to working": a phase recorded as verified was
\* delivered.
OrVerifiedWasDelivered ==
    \A p \in 1..OrPhases : orAdvance[p] = "verified" => <<"phase", p, 0>> \in orKeys
=============================================================================
