# Owner OS (ai-dev-runtime): verification project

TLA+ models of the parts of this repository whose correctness depends on order, failure and
concurrency, checked with TLC and, for the properties that matter most, proved with TLAPS.

## 1. The system

Owner OS is one FastAPI process (`src/api`, `src/core`) over SQLite. It runs development jobs in
background threads, drives Claude Code agents in tmux panes and on Windows PCs, and reports to an
owner who approves, cancels and revokes. Handlers written `async def` without an `await` between
their SQL statements are atomic with respect to one another; work started by `asyncio.to_thread` or
`threading.Thread` is not, and other processes (a second application, the `cli`) open the same
database.

### Inventory

| Component | State it keeps | Operations | Interacts with | What makes it correct |
|---|---|---|---|---|
| Windows device identity (`core/windows_bridge.py`) | `win_enrollment`, `win_device`, `win_nonce` | mint code, enroll, verify, rotate, revoke | the agent, over HTTP | a signature acts once; a code makes one device; nobody is locked out except by a lost answer |
| Windows command queue (`core/windows_bridge.py`, `api/v1.py`) | `win_command`, `win_workspace` | enqueue, lease, complete, expire, revoke, report | fabric, API, agent | started at most once, in order, answered once and truthfully, never hanging |
| Windows agent (`clients/windows`) | config file, loaded identity, batch in hand | poll, handle, report | queue, Claude | no success that did not happen; a failure is a backoff |
| Runtime job table (`core/job_store.py`) | `jobs` | create, approve, cancel, update, heartbeat, recover | pipeline, API, fabric, boot | live jobs are not swept; dead ones are |
| Job pipeline (`core/job_executor.py`, `job_workspace.py`, `job_kinds.py`) | job row, worktree, project tree | plan, back up, branch, edit, test, repair, commit, push, finish | planner, git, policy | truthful end, rollback leaves nothing of what its archive holds, worktree private to its job |
| Backup engine | archives, history | snapshot, rollback, retention | pipeline | what was archived comes back |
| OS task queue (`core/os_task_queue.py`) | `os_task` | enqueue, submit, advance, restore | actuator, transcripts, autopilot | one task at a time in order; done only when answered; what was received since the last attempt is closed |
| Lease and actuator (`core/control_plane/api.py`, `actuator.py`) | `resource_lease`, `cp_action` | acquire, release, actuate, verify, record | every controller that types | one writer per pane; a verified text is not typed again |
| Continuation watchdog | `cw_step`, `cw_target` | observe, decide, deliver, verify, block | panes | attempts capped; nobody sits silently on a line |
| Autopilot and governor | queue file, `governor_stage_delivery`, `governor_blocker`, gates, `queued_input_watch` | evaluate, nudge, block, submit | queue files, panes, task queue | nudges capped by stage; blockers raised once and seen |
| Context budget (two mechanisms) | `context_rotation`, `agent_context_rotation`, `cp_action`, delivery keys | measure, checkpoint, /clear, resume | actuator, agent control | one /clear per conversation, and one per lost record |
| Agent control | `deliveries`, `delivery_attribution`, `commander_events`, tmux sessions | send, answer, resume, stop, classify | tmux | once per key; the right caller on record; an agent at work is not idle |
| Permission prompts | `supervisor_prompts` | classify, press, verify | agents, two loops | every segment of what was read of a command is proven; one key per prompt |
| Direct agent lifecycle | `direct_agent_lifecycle` | sweep | inventory, transcripts | no false completion |
| Orchestrator | `agent_orchestrator`, `agent_phase_advance`, goals, tasks | sweep, resume, advance, dispatch | agent control | dependencies first; bounded resumes |
| Wake bridge, routes, chat registry, companion | `wake_audit`, `wake_send`, `wake_submitted`, `wake_delivery`, `wake_route`, `chat_registry` | decide, fold, expire, claim, send, prove, acknowledge, bind | events, the browser | nothing acknowledged unserved but by another hand; no phrase twice; folds stay in their class |
| Agent watch, closed loop | `agent_watch_state`, `wake_loop_watch` | scan, announce, register, re-wake, escalate | wake bridge, events | one re-wake and one escalation |
| CTO bridge, native owner OS | `cto_decision`, `native_outbox`, a cursor | latch, decide, retry, forward, escalate | event log, provider | nothing skipped, nothing decided twice |
| Delivery outbox, notifier, engine, shadow pinger | `notification`, `channel_health`, `pinger_shadow_state` | emit, refresh, drain, publish | Telegram, the same chat | sent means received; health is proven in this runtime |
| Policy engine, release controller, night shift, supervisor, stall doctor, fleet health, recovery | various | decisions over one request; sweeps | various | limits and cooldowns |
| Planner, router, portfolio, prospecting, formatting, diagnostics | none of their own | external calls, text, reports | models, web | not protocols |

How they meet. Every controller that types into an agent's pane is a thread of the same service or a
process of its own: they share the pane, not a lock, unless they go through the actuator's lease.
Everything that happens becomes an event in one log (`append_event`, which drops a key seen within
its window); the wake bridge, the CTO bridge, the outbox and the closed loop read that log. The owner
and the agents move at any time.

Hard behaviours: threads against the event loop on one table (select, then update); long-polls that
outlive their client; lost answers and posts that arrive late; a service that dies in any stage and
another process that recovers its jobs; timeouts against late results; git or a rollback failing
half-way; keystrokes that land in a pane that has moved on, verified by a screen that can be wrong
either way; a stop between the keystrokes and the row; keys that suppress a second event that is not
the first one. `PROJECT.json` lists them at their lines under `hazards`.

## 2. Modules

| Module | What it is |
|---|---|
| `WindowsIdentity`, `WindowsIdentityProofs`, `MCWindowsIdentity` | enrollment, signed requests, nonces, rotation, revocation; its proofs; a small instance (`MCIdentity.cfg`) |
| `WindowsBridge`, `WindowsBridgeProofs`, `MCWindowsBridge` | the command queue, its routes and the agent that drains it; its proofs; small instances (`MCBridge*.cfg`) |
| `CommandLedger` | what the queue promises for a command: the abstract specification |
| `RuntimeJobs`, `RuntimeJobsProofs`, `MCRuntimeJobs` | job table, pipeline, worktree, heartbeat and recovery; its proofs; small instances (`MCJobs*.cfg`) |
| `OsTasks` | task ledger, lease, actuator, several threads and a rival |
| `TaskLedger` | what the task queue promises for its tasks: the abstract specification |
| `ContinuationWatchdog` | the sweep that continues an idle agent |
| `ActuatorProofs` | proofs about `OsTasks` and `ContinuationWatchdog`, the two that type through the actuator |
| `Autopilot` | the commander's tick and the continuation governor |
| `ContextRotation` | both rotations of an agent's context |
| `DirectAgents` | the lifecycle of an agent outside a plan |
| `Orchestrator` | the orchestrator's sweep, watcher, phases and goal |
| `AgentControl` | classification, delivery by key, sessions, condition events |
| `PromptSupervisor` | classification of commands, the exceptions for a push and a service, and the two loops that press the key |
| `AgentControlProofs` | proofs about `AgentControl` and `PromptSupervisor`, which share the pane and the decision table, and about all parts of `MCPlane` |
| `WakeBridge` | decision, floors, folds, routes, claims and the browser's attempt |
| `ClosedLoop` | the watch of a pane and the watchdog over delivered wakes |
| `WakeProofs` | proofs about `WakeBridge` and `ClosedLoop` |
| `CtoBridge` | the consumer of the event log that asks a provider |
| `Outbox` | notices, channels, the engine's tick, the shadow pinger |
| `Mailbox` | what the outbox promises for its notices: the abstract specification |
| `EventProofs` | proofs about `Outbox` and `CtoBridge`, the consumers of the event log |
| `ControlProofs` | proofs about `Autopilot`, `ContextRotation`, `DirectAgents` and `Orchestrator`, and about all parts of `MCControl` |
| `MCControl`, `MCPlane`, `MCProgress` | small instances of the twelve above: `MCControl.cfg`, `MCPlane.cfg`, `MCProgress.cfg` |

The variables of each of the last twelve components have a prefix of their own (`cw`, `ap`, `rc`, `lf`,
`or`, `ac`, `sv`, `wk`, `cl`, `ct`, `ox`), because an MC module extends several. Where one of them meets
another only through a pane or the event log, the other is part of its environment: a pane, a line, a
dialog or an event that changes at any time. So an MC module moves one part at a time (`part`) and lets
the others stand still, and its state space is the sum of the parts, not their product. Where components do meet on shared state, they are in one module: the task queue, its
lease, the actuator and a rival controller in `OsTasks`; two rotations on one pane in
`ContextRotation`; two supervision loops on one prompt in `PromptSupervisor`; the watch, the
delivery and the watchdog in `ClosedLoop`; emitters, engine, channels and pinger in `Outbox`.

**WindowsIdentity.** A row of `win_enrollment`, `win_device` and `win_nonce` is a record; a signature
is the pair (device, secret), every secret a fresh number. `sent` keeps each request for ever and
`ServePoll`/`ServeRotate` may take any of them at any time, which is late, repeated and reordered
delivery. Each server handler is one step because the source runs it without an await. `Kept` is the
purge of `verify_request`, made before the nonce is looked up, exactly as the code does it. A machine
has a file (`Config.save`) and a process that read it once (`cmd_run`); `cmd_rotate` is a process of
its own. Bounds: `MaxTime` on the clock, `MaxSecret` on the secrets ever made.

**WindowsBridge.** One step is one SQL statement or transaction. `loop` is the handler in progress on
the event loop: `LeaseExpire`, `LeaseSelect`, `LeaseMark` are the three transactions of `lease`,
`CompleteRead` and `CompleteWrite` those of `complete`; while one is in progress no other handler
starts. `thread` are owner threads running `dispatch`, whose reads (`EnqueueCheck`), insert
(`EnqueueInsert`) and waits (`Wait`, which may expire the row it reads) fall between those steps. A
poll the client has left is an `orphan`: it is still served, and its answer reaches nobody. `agent`
is the process of a device: the batch in hand, the command in progress, and what it does when a post
fails (`PostFailed`). `wire` holds posted results until they are received or lost. Age is one bit
per row (`stale`). `runs` and `outcome` are history.

**OsTasks.** A row of `os_task` is `[state, attempts, conv, waited, stalled]`; the two flags say that
`ACK_TIMEOUT_SECS` and `WORK_STALL_SECS` have passed. A thread's steps are cut where another thread
can get in: the SELECT and the upsert of `acquire_lease`, the guards of `actuate` over one snapshot,
the keystrokes with their verification, the record behind the second fence, the ledger's row. `got`
and `replied` are what the transcripts show since the last attempt: every attempt, a refused one too,
moves `submitted_ts`, and `find_ack` does not look at messages before it (`SinceNow`), so a task the
agent has received may be sent again or fail. Verification (`DeliverAndVerify`) may err in both
directions except that a text still on the line is not called delivered. Tickers share one holder
name, as the code's do.

**ContinuationWatchdog.** One agent; `cwStep` is `cw_step` for its conversation, `cwPass` the pass
between its inventory, its snapshot and its keystrokes. The inventory may take a busy pane for an
idle one. A pass may type twice: `CwRetry` is the second typing of `deliver_and_verify` after a
verification that failed, and `CwConclude` writes the row. `cwStops` counts stops between keystrokes and
row. A dialog the owner has approved is never answered: `run_once` (863) names an undefined `log` there,
the NameError is caught (938) and nothing is typed.

**Autopilot.** `apConv` is the conversation of the pane with the one the transcript names, which lags
behind `/clear` or is unknown; the nudge counter starts again when the named one differs. `apQueue` is the project's queue file (pointer and stage status), edited by its project
only; `apNudge` the nudge counter with its cooldown; `apSeen` and `apGates` the blocker rows and the
owner's gates, written in two steps; `apWatch` the age of a line nobody submitted.

**ContextRotation.** `rotate` (by file size, through the actuator) and `evaluate` (by percentage,
through `agent_send`) on one pane. The newest conversation file lags behind the conversation, as it
does after `/clear`. A handoff is known by its hash (`rcFacts`). Keystrokes (`RcClear`, `RcClearAgain`),
verification with its record (`RcCheck`) and the key of `agent_send` (`RcSweepKey`) are steps of their
own, a stop may fall between any two (`RcCut`), and a key lapses (`RcKeyLapses`). `rcLost` counts the
`/clear`s typed whose record was lost.

**DirectAgents.** `lfSeen` is the inventory taken before the sweep; reports and conversations are read
during it. `lfKilled` is history.

**Orchestrator.** The sweep is cut where it commits: record, watcher, phase, tasks completed, dispatch,
mark, count, close. A delivery is `agent_send`: a look at the key, the typing, and the key (`OrRecordsKey`), which
outlives a stop but not its 24 hours (`OrKeyLapses`); `orLost` counts deliveries whose key was lost.
The owner may settle a task at any time, as completed or as waiting for an outsider (`OrSettles`).

**AgentControl.** A pane is the set of signs it shows together with what is true of it, and
`AcClassify` the ordered decision of `classify_state`. A request is a message, an answer or a stop; each
checks its key, types or kills and records, and may be cut off before the record. The rows of
`deliveries` and `delivery_attribution` lapse apart, as a repeated request renews only the second.
Sessions and condition events are parts of their own.

**PromptSupervisor.** A command is a sequence of segments (program, subcommand, options that matter, the
command it runs inside). What is read of it is a choice (`SvReads`): all of it, all but trailing rows of plain
words, which may be a whole segment or the subcommand of one (`SvCut`), with two lines run together,
since a newline separates nothing (`SvJoined`), or nothing. What `command`, `node` and `npx` run is not
looked at (`SvUnchecked`). `SvSafe` follows the resolver's order of checks. A wrapper asks the same
question of the command inside it: `SvSafeInside` is the recursive function that answers it, over the
commands that can stand inside another (`SvInside`, the union of the levels `SvNested`; a command of one
level holds only commands of the levels below). `SvPartsInside` collects the segments of a command in
the same way. The loops see a prompt, decide, verify and press over one decision table.

**WakeBridge.** `wkQueue` holds the wake rows in their order, `wkHeld` the events a floor held back,
`wkFolds` who was folded into whom. A poll retires, decides again, folds and selects; then come claim,
fire, latch, proof and acknowledgement, each its own commit. Other programs write the same table: a wake
may be marked invalid, which the next poll retires (`WkMarksInvalid`), or acknowledged by the watch after
a crash (`WkAcksElsewhere`). Floors, benches and ages are clocks that
may lapse at any time.

**ClosedLoop.** `clRow` is `agent_watch_state`, `clLog` the events of the pane with the key that
`append_event` compares. A run is shorter than the day of the longest window; an hour may pass at any
time. Emissions commit by themselves, so a stop may separate them from the row.

**CtoBridge.** `ctStep` is the tick: decide, queue, escalate, acknowledge, each a commit; `ctCursor` the
durable cursor; a stop may follow any of them and the next start may have a provider. A handler that
raises before the latch leaves a `handler_error` row (`CtStumbles`), one that raises after it leaves the
latch as it is.

**Outbox.** `oxNote` are the notices in the order of their ids, `oxChannel` the health rows with the
question whether this runtime proved them, `oxReceipts` and `oxProof` history. A send may land while
the process stops. Giving a notice up is two commits, the dead letter (`OxBuries`) and the event of its
alert (`OxAlerts`).

**RuntimeJobs.** A worker is a thread of `execute_async`; one step is a stage with the status write
that follows it. `job` is the table, `beat` the heartbeat as absent, fresh or stale, `worktree` who
made the directory at the job's path, `primary` the set of changes present in the project tree. A change
is an edit of a tracked file, of a loose one (untracked, or above the limit of a light snapshot) or a new
file (`Kinds`); the snapshot before a plan is full or light, as `job_executor` asks for it, and `Archived`
and `Extracted` say what it holds and gives back. The planner, the tests, the policy, the completion gate,
git and the rollback are choices among their outcomes. `Crash` is an exception no stage catches, `ServiceStops` the death of the process with its
daemon threads, `Boot` and `ForeignBoot` the recovery sweep run by the service or by another process
that boots the application. `Approvable` names the statuses in which the owner approves a job: the
code refuses only ended ones, so the passing runs assume an owner who approves what waits;
`MCJobsLeftover.cfg` shows what happens otherwise. `PulseFails` lets a heartbeat write raise.
`SlowSweeps` lets the sweep of another process stand still between its SELECT and its UPDATE
(`SweepRead`, `SweepWrite`).

**CommandLedger** is implemented by `WindowsBridge` under the mapping at its end (`Ledger`). A command is
queued, chosen, handed out, started, reported and answered, or refused. A refusal that comes after it was
chosen, or after its report was read, does not call it back: that is what a waiting owner does when it
expires a row between the SELECT and the UPDATE of another transaction.

**TaskLedger** is implemented by `OsTasks` under the mapping at its end (`TheLedger`), while one thread
ticks the queue. It knows no pane, lease, screen or thread: a task is added, sent in its turn, sent
again while attempts are left, taken back if it was not received, at work once it was, done when
answered, failed when it was not received in time or not answered. A new attempt forgets what was read
before (`Forget`).

**Mailbox** is implemented by `Outbox` under the mapping at its end (`OxMail`), which forgets keys,
channels and ticks: a notice is posted, sent or failed, perhaps received with the mark lost, given up
(`GiveUp`), then told of (`Tell`), and left alone; one whose giving-up was cut off is never told of.
`MCMailbox.cfg` (the outbox of `plane`, 18k states) shows `ImplementsMailbox` on a small instance.

## 3. Runs

Passing runs; the sizes are distinct states.

| Run | Instance | Shows |
|---|---|---|
| `windows_identity` (@windows_identity) | 2 codes, 2 devices, 1 machine, 2 nonces, skew 1, retention 2, drift 1, clock to 4 | `NoReplay` after purges and with clocks that run ahead; `CodeIsSingleUse`, `SecretHeld` under lost answers and rotations |
| `bridge_safety` (@bridge_safety) | 2 commands, 1 device, 1 waiting thread, batches of 2 | `AtMostOnce`, `DoneMeansRan`, `AnswerIsFinal`, `InOrder`, and the inductive `BridgeInv` |
| `bridge_ledger` (@bridge_ledger) | the same with batches of 1, the thread waiting or not | `ImplementsLedger` |
| `bridge_settles` (@bridge_settles) | 1 command, 2 threads, fairness | `Settles` |
| `jobs` (@jobs) | 1 job, 2 runs of it, in a worktree and in the tree, 1 repair, three kinds of job, full and light snapshots, failing rollbacks | `OneWorker`, `NoWorkBehindApproval`, `WorktreeHeld`, `WorktreeRemoved`, `Truthful`, `Earned`, `RolledBackClean`, `OwnerEditsSurvive` |
| `jobs_end` (@jobs_end) | 1 job, failing heartbeats, slow sweeps, fairness | `WorkEnds` |
| `control` (@control) | 2 tasks with a reset, or 1 with a rival; 1 agent and 1 stop for the watchdog; 2 stages or an owner who types; 1 rotation; 2 conversations; 2 tasks or 2 phases | `TaskInv`, `AcknowledgedIsNotResent`, `CwAttemptsCapped`, `CwVerifiedStands`, `ApNudgesCapped`, `RcClearedOnce`, `LfNoFalseCompletion`, `OrInv` |
| `plane` (@plane) | 2 events, 2 routes and 2 chats; 5 instances of the watch with 2 questions; 3 events of the bridge; 4 instances of the outbox; 1 key, 3 callers, 2 sessions; commands nested three deep | `WkInv`, `ClInv`, `CtInv`, `OxInv`, `AcInv`, `SvInv` |
| `progress` (@progress) | 1 task with a reset; 1 agent; 1 stage; fairness | `LinesAreReported`, `ReceivedIsSettled` |

What the less plain properties say:

- `RolledBackClean`: outside a worktree, a job whose rollback worked leaves none of its recorded changes
  in the project tree, but for loose files edited by a repair when the snapshot was a light one.
- `TaskInv`: one task is with the agent at a time, the oldest that has not ended, and a task is `done`
  only if the agent received and answered it. `AcknowledgedIsNotResent`: no thread types a task again
  once the ledger has seen its acknowledgement.
- `CwAttemptsCapped`, `CwVerifiedStands`: a step is typed at most `MAX_STEP_ATTEMPTS` times in a
  conversation, once more because the pass that reaches the cap may type twice, twice more per stop that
  lost a row; a verified one never again.
- `ApNudgesCapped`: a stage is nudged up to its cap in a conversation, whatever is refused and wherever
  the pointer moves, and once more when the first nudge came before the transcript named it.
- `RcClearedOnce`: `/clear` is typed once for a conversation until a verification fails, and once for a
  handoff while its key lives, and once more per record that was lost.
- `OrInv`: a task is delivered only after those it depends on are completed or wait for an outsider;
  each dispatch, resume and phase is typed once while its key lives, once more per key that was lost.
- `LfNoFalseCompletion`: an agent killed at work is never announced as completed.
- `WkInv`: a wake is acknowledged only when proven, too old, marked invalid or by another hand; folds stay
  within a class, a route or an agent; a phrase whose sending is on record is not sent again. `ClInv`: a
  delivered wake leads to at most one more and one escalation, in this order, and none of them is watched
  itself.
- `CtInv`: nothing is passed by the cursor without a record, nothing is decided twice, and nothing
  that waits for the owner is told to an agent. `OxInv`: sent means received; a dead letter has used its
  attempts; those without an alert are no more than the stops, and the one just being buried (a stop
  between the two commits leaves a notice given up that nobody is ever told of); the owner's channel is
  healthy only by this runtime's last send.
- `AcInv`: a text is typed once while its key lives, once more per request cut off before the record,
  and a key a message took was typed; the caller on record is the one who typed last; proof of activity
  wins over the look of a pane; one live agent per directory. `SvInv`: of what was read of a command for
  which a key was pressed, every segment is proven (a restart or a push stands alone); one loop presses
  once per prompt, once more per restart and per end of the window.
- `LinesAreReported`: a line left in the input is sent, taken away or brought to the owner.
  `ReceivedIsSettled`: a task the agent received since its last attempt is closed, while no other
  controller keeps the pane.

Runs that show a disagreement between the code and what the project says of itself (`findings`):
`jobs_cancel` (`CancelledStays`: the worker writes over a cancellation), `task_silent`
(`SubmittedIsSettled`: a task recorded as verified by mistake is refused at every retry and never
given up), `repeated_prompt` (`ClAnnouncedIsAnEvent`: the same question asked again within its key's
window is announced by no event).

More disagreements are stated in the modules, outside the list of runs. Those of the first group have
a configuration each, and TLC finds every one violated:

| Configuration | Property | What happens |
|---|---|---|
| `MCBridgeRefusal.cfg` | `RefusalIsFinal` | a row expired between complete's SELECT and UPDATE becomes done or failed |
| `MCBridgeExit.cfg` | `AgentNeverExits` | a connection that breaks while an answer is awaited ends the agent |
| `MCBridgeRevoke.cfg` | `NoLeaseAfterRevoke` | a device revoked between enqueue's check and its insert gets a pending row, and a poll already admitted leases it |
| `MCBridgeBusy.cfg` | `BusyIsARefusal` | a command behind a long turn waits instead of being refused |
| `MCJobsStuck.cfg` | `NeverStuck` | a service restarted within the stale window leaves its dead job in its stage |
| `MCJobsLeftover.cfg` | `LeftoverIsDead` | a job approved while it runs: the second worker removes the worktree of the first |
| `MCJobsDebris.cfg` | `NoDebris` | a plan that raises half-way is rolled back without the files it created |
| `MCJobsPulse.cfg` | `LiveNeverOrphaned` | a heartbeat write that raises ends the pulse of a live job |
| `MCJobsSweep.cfg` | `NoWorkBehindApproval` | a recovery held up between its SELECT and its UPDATE puts back a job started meanwhile |
| `MCJobsExit.cfg` | `EveryExitRemoves` | a branch that raises after `worktree add` leaves the worktree |

`MCTasksTwo.cfg` is no disagreement but the reason of an assumption: with two threads ticking the task
ledger TLC finds `TaskInv` violated in a few steps, since `advance` writes back the state it read and
revives a row the other has closed. Only `commander_autopilot.run_loop` ticks it, and `TasksInOrder`,
`NotTypedAgain` and `TasksAreALedger` (section 4) assume one ticker. With one, `MCTaskLedger.cfg` (the
tasks of `control`, 95k states) shows `ImplementsTaskLedger` on a small instance; with two that fails
as well.

The second group, each a definition at the end of its module (write it as the invariant of `MCPlane.cfg`
or `MCControl.cfg` to see the behaviour):

| Definition | What happens |
|---|---|
| `CtoBridge!CtFailureIsRecorded` | an exception after the latch leaves the row `latched`: the handler's INSERT OR IGNORE meets it, and nothing retries it |
| `Outbox!OxDeduped` | a failed notice is not looked at when its alert is emitted again, so both are delivered |
| `DirectAgents!LfKilledIsReported` | the sticky completed flag silences the interruption of later work in the same conversation |
| `Orchestrator!OrVerifiedWasDelivered` | a phase is recorded as verified because the agent was seen at work on something else |
| `WakeBridge!WkFoldedIsRetired` | a cooldown skip folded into a wake is decided again and offered as well |
| `PromptSupervisor!SvReadIsWhole` | rows of plain words are dropped and lines run together, so what is read of a command is safe and the command is not |
| `PromptSupervisor!SvConfirmedOnce` | two loops press for the same prompt |
| `ContextRotation!RcRecordedIsCleared` | the row says cleared though `/clear` reached nobody |

Why the bounds are enough. Two nonces and a clock of four pass the purge window twice. Two commands
are what order, batches and "the rest of the batch" need; one device suffices because commands of
different devices share nothing but the event loop, and the theorems cover any number. Two workers
are a job interrupted and run again; jobs in worktrees of their own share no state with one another,
so one job is checked. Outside worktrees two jobs at once do disturb each other; the source knows it,
and the model takes one job at a time. `InOrder` is about
commands one thread queues one after the other; threads that overlap have no order of their own.

In `control` two tasks are what order and requeueing need and one rival what the lease needs; two
attempts are the code's `MAX_ATTEMPTS`; one stop shows what a lost record does, and the properties
count stops, so that a second adds nothing new. In `plane` an instance of a component is a cast: the
events, panes or channels that take part and how often they may move; each cast was chosen for one
hazard (two events of a route to fold, a route that moves under a claim, a crash and a recovery, a
question asked twice, a channel that refuses, an alert emitted while it is retried), and a cast that
combined all would repeat them. The commands are every simple one, every wrapper around it and a
timeout around that: nesting deeper repeats the recursion.

`jobs` uses a `VIEW` that forgets what no action and no property reads any more: fields of an ended
worker, the changes it recorded that are neither in the tree nor in a live worker's snapshot (`Kept`,
`InReach`), and what a worker in a worktree changed beyond whether it did (`Apart`). Symmetry is used only in safety runs, over identifiers that are never
compared by order. Deadlock is not checked: codes, commands, jobs and secrets are finite and are used
up, casts end, and an owner may leave everything at rest.

### Fairness

`WindowsBridge!Fairness`: handlers that have begun finish; a row grows old; asyncio resumes every
open poll, among handlers that keep coming (strong fairness of `LeaseExpire` and of `PollArrives`,
whose guards are interrupted by other handlers on the loop); the scheduled task restarts an agent
that is down (`install.ps1`, RestartCount 999); the agent's own steps end by its timeouts. Nothing is
assumed of the network, the owner or the threads. `RuntimeJobs!Fairness`: every stage has a timeout,
so a thread that runs keeps moving; a heartbeat nobody pulses grows stale; the service is restarted
when it is down. A crash, a cancellation or a successful test is never assumed.

The loops of the control plane run for ever (`run_loop` of each, weak fairness of a tick) and clocks
advance (weak fairness of the flags that say a bound has passed). `TaskFairness` adds that the owner
answers a dialog and that a turn ends although it may ask on the way (strong fairness of
`AgentReplies`); `ReceivedIsSettled` says itself that no rival keeps the pane busy. Nothing is assumed
of what the agent does with a line, of the network or of the provider. `OxFairness`, `ClFairness` and
`WkFairness` are stated in their modules with the liveness properties `OxSettles`, `ClLoopEnds` and
`WkHeard`. The first holds on the outbox of `plane`; the other two were checked on single casts of one or
two events only, since their whole instances take more than five minutes. They are not among the runs.

## 4. Proofs

All proofs have the same outline: the initial states satisfy an inductive invariant, every step keeps
it (one lemma per action, or per group of actions with the same effect), and the property follows. The
invariant is the property with what it leans on; it is named below with the reason it is needed. An
assumption that is not on the shape of the constants names something the code leaves to its
surroundings; it is given with what happens without it.

### Windows bridge

`WindowsIdentityProofs`, for any devices, codes, machines and nonces:

- `TypeCorrect`, and `NeverReplayed` (`[]NoReplay`) from `ClockAssumption`, that a nonce is kept at
  least twice the skew. A request already served still has its row in `win_nonce`, or can no longer be
  fresh; the row is dated by the server's clock and the request by the device's, hence the factor two.
- `CodeMakesOneDevice` (`[]CodeIsSingleUse`): a code names a device only once used, and no device before
  it is in the table. `DeviceAssumption` says that the mark of an unused code is no device.
- `SecretIsHeld` (`[]SecretHeld`): a device is known to one machine (`OneMachine`), so the answer to a
  rotation returns to the only one that can need it, and the newest secret is in its hands or on the
  way to it (`Current`).

`WindowsBridgeProofs`, for any finite set of commands and any devices, workspaces and threads:

- `TypeCorrect`, `StartedAtMostOnce` (`[]AtMostOnce`), `SuccessIsReal` (`[]DoneMeansRan`),
  `FirstAnswerStands` (`AnswerIsFinal`), `BridgeHolds` (`[]BridgeInv`). `AtMostOnce` is not inductive:
  `BridgeInv` adds that a pending or unwritten row is in nobody's hands, nor are the rows a lease in
  progress has selected, that a command in a batch is in one batch and has not been started, that a
  live poll has an agent waiting for it, and that what the agent, the wire and a handler in progress
  carry is true. TLC checks `BridgeInv` in `bridge_safety` first.
- `QueueIsInOrder` (`InOrder`), with `OneThread`: two owner threads that overlap have no order of their
  own, and the rank of the second to check may be inserted first. `OrderInv` follows a command through
  the queue: the row about to be inserted is the newest; nothing queued behind a pending row was handed
  out; a lease selects a row only with those before it; nothing behind a command in a batch has started.
- `QueueIsALedger` (`ImplementsLedger`), whether threads wait or not: every step of the queue is a step of
  `CommandLedger` or a stutter, under the mapping at the end of `WindowsBridge`. A waiting owner may
  expire a row between the SELECT and the UPDATE of a lease or of `complete`, and the row is handed out or
  written all the same (`MCBridgeRefusal.cfg`); the ledger says so, by what was chosen and reported
  before the refusal. `LedgerInv` says that a lease marks some row (`LeaseSome`), that what is about to be
  written is leased or was expired since it was read (`WriteLeased`), and that an agent that asks has
  nothing left in its batch (`IdleBatches`).

### Runtime jobs

`RuntimeJobsProofs`, for any jobs, workers, kinds of job, number of repairs, approvals and dying
heartbeats:

- `TypeCorrect`, `CompletedIsSuccess` (`[]Truthful`) and `CompletedIsEarned` (`[]Earned`). A worker
  writes its row without reading it, so the argument is about the worker: `JobsIInv` says what a worker
  has passed at the place it has reached (`Fine`), and that the row of a job carries only what such a
  worker wrote. Every stage is first reduced to what it does to its worker, to its row and to the trees
  (`WorkerMoves`, `JobMoves`, `PlaceMoves`).
- `WorktreeIsRemoved` (`[]WorktreeRemoved`): a worker that has not started owns no worktree, and on
  every way out one that owns it passes the cleanup, or git failed there (`WorktreeIs`).
- `OneLiveWorker`, `WaitingIsIdle` and `WorktreeIsItsOwn` hold in every behaviour of `Spec` in which no
  worker is overruled (`[][Undisturbed]_vars`). The code lets three things overrule one, and TLC shows
  what each of them does: the owner approves the job it works on, which does not wait
  (`MCJobsLeftover.cfg`); its heartbeat ends with a write that raises (`MCJobsPulse.cfg`); a sweep that was
  held up puts back the job it was started on meanwhile (`MCJobsSweep.cfg`). Everything else those
  constants allow, approvals of waiting jobs, heartbeats, sweeps of any process, is in these behaviours.
  `HeldIInv` adds `Watched`, that the heartbeat of a live worker is fresh: it is what keeps a recovering
  process away from its job.
- `RollbackIsClean` (`[]RolledBackClean`) is about the same behaviours and needs `OneJob`: outside
  worktrees two jobs share the project tree, and the archive of one holds the changes of the other.
  `ChangesAre` says that the archive of a run holds none of its own changes and none of those a run before
  it has rolled back.
- `OwnerIsSpared` (`OwnerEditsSurvive`) assumes `IsRepo`, without which no job runs in a worktree,
  whatever the setting says.

### Control plane

Each for every value of the constants that the module's assumption admits:

| Module | Theorem | Proves | Invariant |
|---|---|---|---|
| `ActuatorProofs` | `TaskTypes`, `DoneIsAnswered` | `TaskTypeOK`, `DoneMeansAnswered`, for any number of tickers | a thread in flight carries a text (`Carries`); an agent's answer is not taken back |
| `ActuatorProofs` | `TasksInOrder`, `NotTypedAgain` | `TaskInv`, `AcknowledgedIsNotResent`, with `OneTicker` | the state a ticker in flight has read is still the row's, and a queued row it took is the oldest with nothing before it (`FromRow`); rows are added without gaps (`NoGap`); what the ledger saw acknowledged was received (`SeenIsGot`) |
| `ActuatorProofs` | `TasksAreALedger` | `ImplementsTaskLedger`, with `OneTicker`: every step of the queue, the actuator, the pane and the agent is a step of `TaskLedger` or a stutter | a text in a thread, on the line or at work is of a task that was added, and what is at work was received (`Knows`); only a task at work stalls (`StallsAtWork`), so a failure before the acknowledgement is one of attempts; a ticker counts on from its row and sends again only while attempts are left (`HoldsTries`); an attempt forgets in both what was read before (`Forget`) |
| `ActuatorProofs` | `CwTypeCorrect`, `AttemptsCapped`, `ExecutedStands` | `CwTypeOK`, `CwAttemptsCapped`, `CwVerifiedStands` | a typing is counted in its row or in the pass at hand, or lost by a stop (`Counted`), and a pass has typed only between its keystrokes and its row (`Phased`); an attempted step is executed or blocked (`Judged`); a step about to be typed is below its cap (`Due`) |
| `EventProofs` | `ReceiptsAreReal` | `OxInv` | the clauses of `OxInv` with the types, and that a refusal on record is this runtime's (`PushIsProven`); a notice given up without its alert is the one at hand or was cut off by a stop (`OxTellsAll`) |
| `EventProofs` | `OutboxIsAMailbox` | `ImplementsMailbox`: every step of a tick, an emission or a stop is a step of `Mailbox` or a stutter | what a tick still has to try was not given up, and nothing is left to try between ticks (`OxToTry`); an alert is of a notice given up (`OxAlertIsOfDead`) |
| `EventProofs` | `DecidedAndTold` | `CtInv` | the event on the way is the one at the cursor or a retry, undecided until its answer is recorded (`OnTheWay`) |
| `EventProofs` | `OxTypeCorrect`, `CtTypeCorrect` | `OxTypeOK`, `CtTypeOK` | what the engine and the pinger hold is a notice there is (`OxAtWork`); a row that may still be decided has an attempt left (`TriesLeft`) |
| `WakeProofs` | `WakesAreSound` | `WkInv` | one row for each event (`WkRows`); what the companion carries is not latched before the click and proven before it is acknowledged (`WkOfferHolds`); a folded wake had a row (`WkFoldedRow`) |
| `WakeProofs` | `ChainEnds` | `ClInv` | the log only grows, so what is said of an entry stays (`ClLogged`); a watch is of a delivered event that is no wake of the watchdog, and one that has woken again has its wake in the log (`WatchWell`) |
| `WakeProofs` | `WkTypeCorrect` | `WkTypeOK` | what is carried past the polls is an event, for a chat, by a route (`WkCarried`); the queue is no longer than the events are many, by the pigeonhole principle (`QueueIsBounded`) |
| `WakeProofs` | `ClTypeCorrect` | `ClTypeOK`; in it, that the watch announces no more often than the agent or the owner moved or an hour passed | an announcement is of news that is due, and pays for it with a move or an hour that was not announced yet (`NewsIsMade`); entries point into the log (`ClPointers`) |
| `AgentControlProofs` | `MessagesLandOnce` | `AcInv` | a request past its lookup holds a free key, and a free key was typed only for requests cut off (`KeyInv`); the caller on record typed last (`CallerInv`); one live session (`SessionInv`) |
| `AgentControlProofs` | `PressedOnce` | `SvOncePerLoop`, for any commands | a key is paid for by a decision on record, a loop still at its prompt, or a fault (`SvPaid`); a loop at the prompt shown holds what was read of it (`SvMeant`), and nothing is pressed on one not yet shown (`SvNotYet`) |
| `AgentControlProofs` | `PromptsAreProven` | `SvInv`: besides, that every segment of what was read and found safe is proven, inside any wrappers | the reading shown is one of the command asked for (`SvReadOf`); see below |
| `AgentControlProofs` | `AcTypeCorrect`, `SvTypeCorrect`, `PlaneTypes` | `AcTypeOK`, `SvTypeOK`, and `PlaneTypeOK`, the types of all parts of `MCPlane` | the types of each part, and that a text is typed no more often than `AcTypeOK` allows (`AcBounded`) |
| `ControlProofs` | `NudgesCapped` | `ApNudgesCapped` | a nudge is counted before it is sent; while the transcript lags, the conversation it does not name yet got no nudge or one, and a row under another id counts for at most one (`ApIInv`) |
| `ControlProofs` | `ClearedOnce` | `RcClearedOnce` | a `/clear` typed for a conversation is on the actuator's record, one typed for a handoff has taken its key, or it is awaited or lost (`RcRecorded`, `RcKeyed`) |
| `ControlProofs` | `NoFalseCompletion` | `LfNoFalseCompletion` | a live row of the conversation of a kill at work shows it at work |
| `ControlProofs` | `TypedInOrder` | `OrInv` | what was typed has its key, is about to record it or lost it (`OrCounted`); a dispatched task had its dependencies settled (`OrOrdered`), and what the sweep is about to type is a task it found ready (`OrAimed`) |
| `ControlProofs` | `ControlTypes` | `ControlTypeOK`, the types of all parts of `MCControl` | the types of each part; two `/clear`s that race open no conversation past the bound (`RcRoom`), and a sweep saves only a state it may save (`OrForm`, `OrAimed`) |

`ControlTypes` is composed: a behaviour of `ControlSpec` moves one part at a time, so it is a behaviour
of every part by itself (`PartsBehave`), and the six type theorems apply. So is `PlaneTypes`
(`PlanePartsBehave`).

`PromptsAreProven` is about recursive functions, and no induction over data is at hand. First the
functions satisfy their equations: a set of commands that vouch for each other is contained in a
greatest one, which is a solution for `SvSafeInside` (`SvSafeIsDefined`, as a segment is judged
monotonically in the commands inside it, `SvMonotone`), and the intersection of all closed families of
segments is one for `SvPartsInside` (`SvPartsIsDefined`). Then, if a command found safe had a segment
that is not proven, there would be one of least level (`Least`); the segment is not its own, so it is in
a command inside it, which is of a lower level and was found safe too (`SvInsideProven`).

The assumptions are on the constants alone (`TaskAssumption`, `CwAssumption`, `OxAssumption`,
`AcAssumption`, `CtAssumption`, `WkAssumption`, `ClAssumption`, `ApAssumption`, `RcAssumption`,
`LfAssumption`, `OrAssumption`, `SvAssumption`): caps and bounds are natural numbers, casts have the declared
shape, special values are none of the ordinary ones, and a command
nests finitely deep. Those about the system are named above with what happens without them: `OneTicker`,
which `core/commander_autopilot.py` provides (`MCTasksTwo.cfg`), `OneThread`, `OneMachine`,
`DeviceAssumption`, `ClockAssumption`, `OneJob`, `IsRepo`, and the behaviours of `Undisturbed`.

### Only model-checked

- All liveness (`Settles`, `WorkEnds`, `LinesAreReported`, `ReceivedIsSettled`): it rests on fairness and
  ENABLED.

## 5. Not modelled

HMAC, hashing, redaction and JSON; what Claude, git, the planner, a provider or a test does; the
archive's members and retention (`core/backup_engine.py`); log and audit rows; list and inspect
routes; the Windows agent's session files and its probe for a Claude started by hand; `reap_orphaned`,
`owner_blocked` and `direct_pane_control`, which nothing calls or writes; the recognition of a prompt,
a marker or a spinner in the text of a pane, whose results are choices; the parsers of queue files;
the DOM of the browser page. `PROJECT.json` lists every other part with its reason: decisions over one
request (policy engine, git writing, approved gates), reports (diagnostics, discovery, status), single
owner commands (releases), and sweeps that are planned (night shift, project supervisor, stall doctor,
session recovery).

## 6. Plan

1. `PolicyGate` and `Releases`: the completion gate over evidence, promotion, composed with
   `RuntimeJobs` in place of its choice.
2. `NightShift`, `ProjectSupervisor`, `SessionRecovery`.
