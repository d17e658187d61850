--------------------------- MODULE WindowsBridge ---------------------------
(***************************************************************************)
(* The command queue of the Windows bridge (core/windows_bridge.py, its    *)
(* routes in api/v1.py) and the agent that drains it                       *)
(* (clients/windows/owner_os_agent.py).                                    *)
(*                                                                         *)
(* Three kinds of process meet at the table win_command:                   *)
(*   - the event loop: the handlers of /windows/poll, /windows/result,     *)
(*     revoke and the reads run on it without an await between their SQL   *)
(*     statements, so at most one is in progress (variable loop);          *)
(*   - owner threads: /windows/command and the fabric run dispatch in a    *)
(*     worker thread, whose statements fall between those of the loop;     *)
(*   - the agent of each device, one command at a time, over a network     *)
(*     that loses answers and delays posts.                                *)
(* Each SQL transaction is one step.  Age is abstracted to one bit: a row  *)
(* older than COMMAND_TTL_SECS is stale.                                   *)
(***************************************************************************)
EXTENDS Integers, FiniteSets

CONSTANTS
    Commands,    \* command ids
    Devices,     \* enrolled devices
    Workspaces,  \* workspace ids
    Threads,     \* owner threads running dispatch
    Waits,       \* values of (wait_secs > 0) the owner uses
    MaxLease,    \* MAX_LEASE
    None         \* no command, no device

ASSUME BridgeAssumption ==
    /\ IsFiniteSet(Commands)
    /\ Waits \subseteq BOOLEAN
    /\ MaxLease \in Nat \ {0}
    /\ None \notin Commands \cup Devices \cup Workspaces

VARIABLES
    device,     \* win_device.status
    workspace,  \* win_workspace: "none" (no row), "enabled" or "disabled"
    cmd,        \* win_command
    thread,     \* owner threads
    loop,       \* the handler in progress on the event loop
    polls,      \* open long-polls of each device
    wire,       \* results posted and not yet received by the server
    local,      \* workspaces in the config the running agent has loaded
    agent,      \* the agent process of each device
    runs,       \* how many times each command was started (history)
    outcome     \* how its execution ended (history)

dbVars == <<device, workspace, cmd>>
agentVars == <<local, agent, runs, outcome>>
vars == <<dbVars, thread, loop, polls, wire, agentVars>>

----------------------------------------------------------------------------
(* State *)

Open == {"pending", "leased"}
Answered == {"done", "failed"}

\* _COMMAND_STATES, and "none" for no row.
Status == {"none", "pending", "leased", "done", "failed", "expired"}

Row == [status : Status,
        device : Devices \cup {None}, ws : Workspaces \cup {None},
        rank : Nat, stale : BOOLEAN]
NoRow == [status |-> "none", device |-> None, ws |-> None, rank |-> 0,
          stale |-> FALSE]

IdleThread == [at |-> "idle"]
Checked == [at : {"checked"}, c : Commands, d : Devices, w : Workspaces, rank : Nat]
Waiting == [at : {"waiting"}, c : Commands]

Post == [d : Devices, c : Commands, ok : BOOLEAN]
PollKinds == {"live", "orphan"}   \* orphan: the device has hung up
LeaseCall == [at : {"select", "mark"}, d : Devices, poll : PollKinds,
              rows : SUBSET Commands]
CompleteCall == [at : {"write"}, post : Post]
IdleLoop == [at |-> "idle"]

\* since: workspaces in which a turn ended since the batch was received.
\* down: not started, or the machine went off; exited: the process raised.
FreeAgent == [at : {"down", "exited", "idle", "polling", "batch"},
              batch : SUBSET Commands, cur : {None}, ok : {FALSE},
              since : SUBSET (Workspaces \cup {None})]
BusyAgent == [at : {"running", "posting", "awaiting"},
              batch : SUBSET Commands, cur : Commands, ok : BOOLEAN,
              since : SUBSET (Workspaces \cup {None})]
Stopped == [at |-> "down", batch |-> {}, cur |-> None, ok |-> FALSE, since |-> {}]
Exited == [Stopped EXCEPT !.at = "exited"]
Ready == [Stopped EXCEPT !.at = "idle"]

TypeOK ==
    /\ device \in [Devices -> {"active", "revoked"}]
    /\ workspace \in [Devices -> [Workspaces -> {"none", "enabled", "disabled"}]]
    /\ cmd \in [Commands -> Row]
    /\ thread \in [Threads -> {IdleThread} \cup Checked \cup Waiting]
    /\ loop \in {IdleLoop} \cup LeaseCall \cup CompleteCall
    /\ polls \in [Devices -> SUBSET PollKinds]
    /\ wire \subseteq Post
    /\ local \in [Devices -> SUBSET Workspaces]
    /\ agent \in [Devices -> FreeAgent \cup BusyAgent]
    /\ runs \in [Commands -> Nat]
    /\ outcome \in [Commands -> {"none", "ok", "error"}]

\* Devices are enrolled and their agents not yet started.
Init ==
    /\ device = [d \in Devices |-> "active"]
    /\ workspace = [d \in Devices |-> [w \in Workspaces |-> "none"]]
    /\ cmd = [c \in Commands |-> NoRow]
    /\ thread = [t \in Threads |-> IdleThread]
    /\ loop = IdleLoop
    /\ polls = [d \in Devices |-> {}]
    /\ wire = {}
    /\ local = [d \in Devices |-> {}]
    /\ agent = [d \in Devices |-> Stopped]
    /\ runs = [c \in Commands |-> 0]
    /\ outcome = [c \in Commands |-> "none"]

----------------------------------------------------------------------------
(* Owner threads: dispatch = enqueue, then perhaps wait_for_result *)

\* created_ts is taken when enqueue is called, not when the row is inserted.
Ranks == {cmd[c].rank : c \in {e \in Commands : cmd[e].status # "none"}}
         \cup {thread[t].rank : t \in {s \in Threads : thread[s].at = "checked"}}
NextRank == {r \in {0} \cup {q + 1 : q \in Ranks} : \A q \in Ranks : q < r}

AfterEnqueue(t, c) ==
    \E wait \in Waits :
        thread' = [thread EXCEPT ![t] =
            IF wait /\ cmd'[c].status \in Open
            THEN [at |-> "waiting", c |-> c] ELSE IdleThread]

\* enqueue's reads.  A known id is a lookup; otherwise the device must be
\* active and the workspace enabled.
EnqueueCheck(t, c, d, w) ==
    /\ thread[t].at = "idle"
    /\ \/ /\ cmd[c].status # "none"
          /\ cmd' = cmd
          /\ AfterEnqueue(t, c)
       \/ /\ cmd[c].status = "none"
          /\ device[d] = "active"
          /\ workspace[d][w] = "enabled"
          /\ \E r \in NextRank : thread' = [thread EXCEPT ![t] =
                 [at |-> "checked", c |-> c, d |-> d, w |-> w, rank |-> r]]
          /\ cmd' = cmd
    /\ UNCHANGED <<device, workspace, loop, polls, wire, agentVars>>

\* enqueue's INSERT.  A row another thread inserted first under the same id
\* fails the primary key and the call.
EnqueueInsert(t) ==
    /\ thread[t].at = "checked"
    /\ LET c == thread[t].c
       IN  IF cmd[c].status = "none"
           THEN /\ cmd' = [cmd EXCEPT ![c] =
                      [status |-> "pending", device |-> thread[t].d,
                       ws |-> thread[t].w, stale |-> FALSE,
                       rank |-> thread[t].rank]]
                /\ AfterEnqueue(t, c)
           ELSE cmd' = cmd /\ thread' = [thread EXCEPT ![t] = IdleThread]
    /\ UNCHANGED <<device, workspace, loop, polls, wire, agentVars>>

Overdue(c) == cmd[c].status \in Open /\ cmd[c].stale

\* get_command: the row being read is expired in place when it is overdue.
GetCommand(c) ==
    cmd' = IF Overdue(c) THEN [cmd EXCEPT ![c].status = "expired"] ELSE cmd

\* One turn of wait_for_result: it ends when the row is settled or, at any
\* time, when its own deadline passes.
Wait(t) ==
    /\ thread[t].at = "waiting"
    /\ GetCommand(thread[t].c)
    /\ \/ thread' = [thread EXCEPT ![t] = IdleThread]
       \/ cmd'[thread[t].c].status \in Open /\ thread' = thread
    /\ UNCHANGED <<device, workspace, loop, polls, wire, agentVars>>

----------------------------------------------------------------------------
(* How the agent takes the end of a post *)

\* On to the next command of the batch, or back to polling.
NextCommand(a) == [a EXCEPT !.at = IF a.batch = {} THEN "idle" ELSE "batch",
                            !.cur = None, !.ok = FALSE,
                            !.since = IF a.batch = {} THEN {} ELSE @]

\* handle(): a failed report of success is caught and reported as a failure;
\* a failed report of failure leaves handle(), dropping the rest of the batch,
\* for the backoff of run() or, when it is not an AgentError, for good.
PostFailed(a) == IF a.ok THEN {[a EXCEPT !.at = "posting", !.ok = FALSE]}
                 ELSE {Ready, Exited}

Awaits(m) == /\ agent[m.d].at = "awaiting"
             /\ agent[m.d].cur = m.c
             /\ agent[m.d].ok = m.ok

\* The server's answer arrives, unless the agent no longer waits for it; an
\* answer that is lost leaves the agent waiting until it gives up.
Acknowledge(m) ==
    \/ Awaits(m) /\ agent' = [agent EXCEPT ![m.d] = NextCommand(@)]
    \/ agent' = agent

----------------------------------------------------------------------------
(* The event loop *)

\* GET /windows/command/{id}
ReadStatus(c) ==
    /\ loop = IdleLoop
    /\ Overdue(c)
    /\ GetCommand(c)
    /\ UNCHANGED <<device, workspace, thread, loop, polls, wire, agentVars>>

\* revoke_device: the device and its open commands in one transaction.
RevokeDevice(d) ==
    /\ loop = IdleLoop
    /\ device[d] = "active"
    /\ device' = [device EXCEPT ![d] = "revoked"]
    /\ cmd' = [c \in Commands |->
          IF cmd[c].device = d /\ cmd[c].status \in Open
          THEN [cmd[c] EXCEPT !.status = "expired"] ELSE cmd[c]]
    /\ UNCHANGED <<workspace, thread, loop, polls, wire, agentVars>>

\* set_workspace_enabled
SetWorkspaceEnabled(d, w) ==
    /\ loop = IdleLoop
    /\ workspace[d][w] # "none"
    /\ \E s \in {"enabled", "disabled"} \ {workspace[d][w]} :
           workspace' = [workspace EXCEPT ![d][w] = s]
    /\ UNCHANGED <<device, cmd, thread, loop, polls, wire, agentVars>>

\* What report_workspaces leaves in the table: a reported workspace keeps its
\* switch or starts enabled, one no longer reported is deleted.
Reported(d) ==
    [w \in Workspaces |->
        IF w \notin local[d] THEN "none"
        ELSE IF workspace[d][w] = "none" THEN "enabled" ELSE workspace[d][w]]

\* windows_poll up to its first lease: the device is authenticated here and
\* only here, however long the poll then stays open.
PollArrives(d) ==
    /\ loop = IdleLoop
    /\ agent[d].at = "idle"
    /\ device[d] = "active"
    /\ workspace' = [workspace EXCEPT ![d] = Reported(d)]
    /\ polls' = [polls EXCEPT ![d] = @ \cup {"live"}]
    /\ agent' = [agent EXCEPT ![d].at = "polling"]
    /\ UNCHANGED <<device, cmd, thread, loop, wire, local, runs, outcome>>

\* Mutant: only rows nobody has leased expire.
LeaseExpirePending(d, p) ==
    /\ loop = IdleLoop
    /\ p \in polls[d]
    /\ cmd' = [c \in Commands |->
          IF Overdue(c) /\ cmd[c].status = "pending"
          THEN [cmd[c] EXCEPT !.status = "expired"] ELSE cmd[c]]
    /\ loop' = [at |-> "select", d |-> d, poll |-> p, rows |-> {}]
    /\ UNCHANGED <<device, workspace, thread, polls, wire, agentVars>>

\* lease, first transaction: expire_stale, for every device.
LeaseExpire(d, p) ==
    /\ loop = IdleLoop
    /\ p \in polls[d]
    /\ cmd' = [c \in Commands |->
          IF Overdue(c) THEN [cmd[c] EXCEPT !.status = "expired"] ELSE cmd[c]]
    /\ loop' = [at |-> "select", d |-> d, poll |-> p, rows |-> {}]
    /\ UNCHANGED <<device, workspace, thread, polls, wire, agentVars>>

\* Mutant: a leased row is handed out again.
PendingOrLeased(d) == {c \in Commands : cmd[c].status \in Open /\ cmd[c].device = d}

Pending(d) == {c \in Commands : cmd[c].status = "pending" /\ cmd[c].device = d}

Ahead(c, S) == {e \in S : cmd[e].rank < cmd[c].rank}

\* SELECT ... ORDER BY created_ts LIMIT max_commands
Oldest(S) == {c \in S : Cardinality(Ahead(c, S)) < MaxLease}

\* lease, the SELECT.  An empty answer keeps the poll open until its deadline.
LeaseSelect ==
    /\ loop.at = "select"
    /\ LET d == loop.d
           rows == Oldest(Pending(d))
       IN  \/ /\ rows # {}
              /\ loop' = [loop EXCEPT !.at = "mark", !.rows = rows]
              /\ UNCHANGED <<polls, agent>>
           \/ /\ rows = {}
              /\ loop' = IdleLoop
              /\ UNCHANGED <<polls, agent>>
           \/ /\ rows = {}
              /\ loop' = IdleLoop
              /\ polls' = [polls EXCEPT ![d] = @ \ {loop.poll}]
              /\ agent' = IF loop.poll = "live"
                          THEN [agent EXCEPT ![d] = Ready] ELSE agent
    /\ UNCHANGED <<dbVars, thread, wire, local, runs, outcome>>

\* lease, the UPDATEs: guarded by status, yet every selected row is answered.
\* The answer of a live poll reaches the agent or is lost; that of an orphan
\* reaches nobody.
LeaseMark ==
    /\ loop.at = "mark"
    /\ LET d == loop.d
       IN  /\ cmd' = [c \in Commands |->
                 IF c \in loop.rows /\ cmd[c].status = "pending"
                 THEN [cmd[c] EXCEPT !.status = "leased"] ELSE cmd[c]]
           /\ \/ /\ loop.poll = "live"
                 /\ polls' = [polls EXCEPT ![d] = @ \ {"live"}]
                 /\ agent' = [agent EXCEPT ![d] = [@ EXCEPT !.at = "batch", !.batch = loop.rows]]
              \/ /\ loop.poll = "live"
                 /\ polls' = [polls EXCEPT ![d] = @ \ {"live"}]
                 /\ agent' \in {[agent EXCEPT ![d] = s] : s \in {Ready, Exited}}
              \/ /\ loop.poll = "orphan"
                 /\ polls' = [polls EXCEPT ![d] = @ \ {"orphan"}]
                 /\ agent' = agent
    /\ loop' = IdleLoop
    /\ UNCHANGED <<device, workspace, thread, wire, local, runs, outcome>>

\* Mutant: complete() writes whatever the row says (no early return).
CompleteReadAlwaysWrites(m) ==
    /\ loop = IdleLoop
    /\ m \in wire
    /\ wire' = wire \ {m}
    /\ device[m.d] = "active"
    /\ loop' = [at |-> "write", post |-> m]
    /\ agent' = agent
    /\ UNCHANGED <<dbVars, thread, polls, local, runs, outcome>>

\* Mutant: expired is not treated as settled, as before 2026-08-29.
CompleteReadResurrects(m) ==
    /\ loop = IdleLoop
    /\ m \in wire
    /\ wire' = wire \ {m}
    /\ device[m.d] = "active"
    /\ \/ /\ cmd[m.c].status \notin Answered
          /\ loop' = [at |-> "write", post |-> m]
          /\ agent' = agent
       \/ /\ cmd[m.c].status \in Answered
          /\ loop' = loop
          /\ Acknowledge(m)
    /\ UNCHANGED <<dbVars, thread, polls, local, runs, outcome>>

\* windows_result: authentication and complete's SELECT.  An answered or
\* expired row is returned as it is; otherwise the UPDATE comes next.
CompleteRead(m) ==
    /\ loop = IdleLoop
    /\ m \in wire
    /\ wire' = wire \ {m}
    /\ \/ /\ device[m.d] = "active"
          /\ cmd[m.c].status \in Open
          /\ loop' = [at |-> "write", post |-> m]
          /\ agent' = agent
       \/ /\ device[m.d] = "active"
          /\ cmd[m.c].status \notin Open
          /\ loop' = loop
          /\ Acknowledge(m)
       \/ /\ device[m.d] = "revoked"
          /\ loop' = loop
          /\ agent' = agent
    /\ UNCHANGED <<dbVars, thread, polls, local, runs, outcome>>

\* Mutant: a failure is stored under a state outside _COMMAND_STATES.
CompleteWriteError ==
    /\ loop.at = "write"
    /\ LET m == loop.post
       IN  /\ cmd' = [cmd EXCEPT ![m.c].status = IF m.ok THEN "done" ELSE "error"]
           /\ Acknowledge(m)
    /\ loop' = IdleLoop
    /\ UNCHANGED <<device, workspace, thread, polls, wire, local, runs, outcome>>

\* complete's UPDATE, keyed by the command id alone.
CompleteWrite ==
    /\ loop.at = "write"
    /\ LET m == loop.post
       IN  /\ cmd' = [cmd EXCEPT ![m.c].status = IF m.ok THEN "done" ELSE "failed"]
           /\ Acknowledge(m)
    /\ loop' = IdleLoop
    /\ UNCHANGED <<device, workspace, thread, polls, wire, local, runs, outcome>>

\* A row passes COMMAND_TTL_SECS.
GrowStale(c) ==
    /\ cmd[c].status \in Open /\ ~cmd[c].stale
    /\ cmd' = [cmd EXCEPT ![c].stale = TRUE]
    /\ UNCHANGED <<device, workspace, thread, loop, polls, wire, agentVars>>

----------------------------------------------------------------------------
(* The agent *)

\* A new process loads the config, which the owner may have edited.
AgentStart(d) ==
    /\ agent[d].at \in {"down", "exited"}
    /\ \E W \in SUBSET Workspaces : local' = [local EXCEPT ![d] = W]
    /\ agent' = [agent EXCEPT ![d] = Ready]
    /\ UNCHANGED <<dbVars, thread, loop, polls, wire, runs, outcome>>

\* The server keeps serving a poll whose client is gone.
HangUp(d) ==
    /\ polls' = [polls EXCEPT ![d] = {"orphan" : p \in @}]
    /\ loop' = IF loop.at \in {"select", "mark"} /\ loop.d = d
               THEN [loop EXCEPT !.poll = "orphan"] ELSE loop

\* The machine goes off.  What it had leased stays leased.
AgentCrash(d) ==
    /\ agent[d].at \notin {"down", "exited"}
    /\ agent' = [agent EXCEPT ![d] = Stopped]
    /\ HangUp(d)
    /\ UNCHANGED <<dbVars, thread, wire, local, runs, outcome>>

\* The connection of an open poll breaks.  A refused connection is an
\* AgentError and backs off; an error while the answer is awaited is not.
PollDropped(d) ==
    /\ agent[d].at = "polling"
    /\ \E s \in {Ready, Exited} : agent' = [agent EXCEPT ![d] = s]
    /\ HangUp(d)
    /\ UNCHANGED <<dbVars, thread, wire, local, runs, outcome>>

\* Mutant: ORDER BY created_ts DESC.
IsLast(c, S) == c \in S /\ \A e \in S : cmd[e].rank <= cmd[c].rank

\* The batch is worked through in the order it was selected in.
IsFirst(c, S) == c \in S /\ Ahead(c, S) = {}

\* handle(): a workspace that is not in the loaded config is refused without
\* a run.
Handle(d) ==
    /\ agent[d].at = "batch"
    /\ \E c \in agent[d].batch :
       LET begun == [agent[d] EXCEPT !.batch = @ \ {c}, !.cur = c]
       IN  /\ IsFirst(c, agent[d].batch)
           /\ \/ /\ cmd[c].ws \in local[d]
                 /\ runs' = [runs EXCEPT ![c] = @ + 1]
                 /\ agent' = [agent EXCEPT ![d] = [begun EXCEPT !.at = "running"]]
              \/ /\ cmd[c].ws \notin local[d]
                 /\ agent' = [agent EXCEPT ![d] = [begun EXCEPT !.at = "posting"]]
                 /\ runs' = runs
    /\ UNCHANGED <<dbVars, thread, loop, polls, wire, local, outcome>>

\* Mutant: handle() reports success whatever the turn returned.
TurnEndsWell(d) ==
    /\ agent[d].at = "running"
    /\ \E ok \in BOOLEAN :
          /\ agent' = [agent EXCEPT ![d] =
                 [@ EXCEPT !.at = "posting", !.ok = TRUE,
                           !.since = agent[d].since \cup {cmd[agent[d].cur].ws}]]
          /\ outcome' = [outcome EXCEPT ![agent[d].cur] = IF ok THEN "ok" ELSE "error"]
    /\ UNCHANGED <<dbVars, thread, loop, polls, wire, local, runs>>

\* The turn ends: a reply, an error exit, or the timeout of the turn.
TurnEnds(d) ==
    /\ agent[d].at = "running"
    /\ \E ok \in BOOLEAN :
          /\ agent' = [agent EXCEPT ![d] =
                 [@ EXCEPT !.at = "posting", !.ok = ok,
                           !.since = agent[d].since \cup {cmd[agent[d].cur].ws}]]
          /\ outcome' = [outcome EXCEPT ![agent[d].cur] = IF ok THEN "ok" ELSE "error"]
    /\ UNCHANGED <<dbVars, thread, loop, polls, wire, local, runs>>

SendResult(d) ==
    /\ agent[d].at = "posting"
    /\ wire' = wire \cup {[d |-> d, c |-> agent[d].cur, ok |-> agent[d].ok]}
    /\ agent' = [agent EXCEPT ![d].at = "awaiting"]
    /\ UNCHANGED <<dbVars, thread, loop, polls, local, runs, outcome>>

\* No answer, an error answer, or no connection.
GiveUp(d) ==
    /\ agent[d].at = "awaiting"
    /\ \E a \in PostFailed(agent[d]) : agent' = [agent EXCEPT ![d] = a]
    /\ UNCHANGED <<dbVars, thread, loop, polls, wire, local, runs, outcome>>

LosePost(m) ==
    /\ wire' = wire \ {m}
    /\ UNCHANGED <<dbVars, thread, loop, polls, agentVars>>

----------------------------------------------------------------------------
Next ==
    \/ \E t \in Threads : EnqueueInsert(t) \/ Wait(t)
    \/ \E t \in Threads, c \in Commands, d \in Devices, w \in Workspaces :
           EnqueueCheck(t, c, d, w)
    \/ \E c \in Commands : ReadStatus(c) \/ GrowStale(c)
    \/ \E d \in Devices : RevokeDevice(d) \/ PollArrives(d)
    \/ \E d \in Devices, w \in Workspaces : SetWorkspaceEnabled(d, w)
    \/ \E d \in Devices, p \in PollKinds : LeaseExpire(d, p)
    \/ LeaseSelect \/ LeaseMark \/ CompleteWrite
    \/ \E m \in wire : CompleteRead(m) \/ LosePost(m)
    \/ \E d \in Devices :
           \/ AgentStart(d) \/ AgentCrash(d) \/ PollDropped(d) \/ Handle(d)
           \/ TurnEnds(d) \/ SendResult(d) \/ GiveUp(d)

Spec == Init /\ [][Next]_vars

\* Time passes; a handler that has begun runs to its end; asyncio resumes every
\* open poll in turn; the scheduled task restarts an agent that is down
\* (install.ps1: RestartCount 999), and the agent's own steps are bounded by
\* its timeouts.  Nothing is assumed of the network, the owner, or the
\* threads.
Fairness ==
    /\ WF_vars(LeaseSelect) /\ WF_vars(LeaseMark) /\ WF_vars(CompleteWrite)
    /\ \A c \in Commands : WF_vars(GrowStale(c))
    /\ \A d \in Devices :
          /\ SF_vars(\E p \in PollKinds : LeaseExpire(d, p))
          /\ SF_vars(PollArrives(d)) /\ WF_vars(AgentStart(d))
          /\ WF_vars(Handle(d)) /\ WF_vars(TurnEnds(d))
          /\ WF_vars(SendResult(d)) /\ WF_vars(GiveUp(d))

FairSpec == Spec /\ Fairness

----------------------------------------------------------------------------
(* Properties *)

\* A command is started at most once, whatever polls are lost, repeated or
\* left hanging: a row leaves "pending" before any agent can hold it.
AtMostOnce == \A c \in Commands : runs[c] <= 1

\* The owner is never told of a success that did not happen.
DoneMeansRan == \A c \in Commands : cmd[c].status = "done" => outcome[c] = "ok"

\* The first answer stands: reports repeated after a lost answer, late
\* expiries and revocations leave an answered row alone.
AnswerIsFinal ==
    [][\A c \in Commands : cmd[c].status \in Answered =>
           cmd'[c].status = cmd[c].status]_vars

\* Two commands to one device queued by one thread start in that order: once
\* the later one has started the earlier one never does.
InOrder ==
    [][\A c, e \in Commands :
          /\ cmd[c].status # "none" /\ cmd[e].status # "none"
          /\ cmd[c].device = cmd[e].device /\ cmd[c].rank < cmd[e].rank
          /\ runs[e] > 0
          => runs'[c] = runs[c]]_vars

\* No command hangs: while its device keeps coming back, every queued command
\* is answered or expires, though answers, polls and whole agents get lost.
Settles ==
    \A c \in Commands :
        cmd[c].status \in Open
            ~> (cmd[c].status \notin Open \/ \A d \in Devices : device[d] = "revoked")

\* The inductive invariant behind AtMostOnce, DoneMeansRan and AnswerIsFinal.
\* Untouched: no agent holds the command and none has started it.
Untouched(c) ==
    /\ runs[c] = 0
    /\ \A d \in Devices : c \notin agent[d].batch /\ agent[d].cur # c

UnhandedUntouched == \A c \in Commands : cmd[c].status \in {"none", "pending"} => Untouched(c)

RowsUntouched ==
    loop.at = "mark" => \A c \in loop.rows : cmd[c].status # "none" /\ Untouched(c)

\* A command in a batch is held once and not started; one being worked on is
\* worked on by one agent.
HeldOnce ==
    /\ \A d \in Devices : \A c \in agent[d].batch :
          /\ runs[c] = 0
          /\ \A e \in Devices : agent[e].cur # c /\ (e # d => c \notin agent[e].batch)
    /\ \A d, e \in Devices : agent[d].cur = agent[e].cur /\ agent[d].cur # None => d = e

\* A live poll is one its agent still waits for.
LivePolls ==
    /\ \A d \in Devices : "live" \in polls[d] => agent[d].at = "polling"
    /\ loop.at \in {"select", "mark"} /\ loop.poll = "live"
          => agent[loop.d].at = "polling"

\* What the agent, the wire and the handler in progress carry is true.
HonestAgent ==
    \A d \in Devices : LET a == agent[d] IN
        /\ a.at = "running" => runs[a.cur] = 1 /\ outcome[a.cur] = "none" /\ ~a.ok
        /\ a.ok => outcome[a.cur] = "ok"

HonestPosts ==
    /\ \A c \in Commands : runs[c] = 0 => outcome[c] = "none"
    /\ \A m \in wire : m.ok => outcome[m.c] = "ok"
    /\ loop.at = "write" => /\ loop.post.ok => outcome[loop.post.c] = "ok"
                            /\ cmd[loop.post.c].status \notin Answered

BridgeInv == /\ LivePolls /\ UnhandedUntouched /\ RowsUntouched /\ HeldOnce
             /\ HonestAgent /\ HonestPosts /\ AtMostOnce /\ DoneMeansRan

\* The ledger's view of the queue.
LedgerState(s) ==
    CASE s = "pending" -> "queued"
      [] s = "leased"  -> "handed"
      [] s = "done"    -> "succeeded"
      [] s = "expired" -> "refused"
      [] OTHER -> s
LedgerStatus == [c \in Commands |-> LedgerState(cmd[c].status)]
Started == {c \in Commands : runs[c] > 0}
Given == (UNION {agent[d].batch : d \in Devices}) \cup Started
Chosen == IF loop.at = "mark" THEN loop.rows ELSE {}
ReadReport == IF loop.at = "write" THEN {loop.post.c} ELSE {}

Ledger == INSTANCE CommandLedger
              WITH status <- LedgerStatus, given <- Given, started <- Started,
                   chosen <- Chosen, reported <- ReadReport

\* The queue implements the ledger, with owner threads that wait for their result and
\* expire the row they read between the SELECT and the UPDATE of a lease or of a report.
ImplementsLedger == Ledger!Spec

----------------------------------------------------------------------------
(* What the project says of itself and the code does not do *)

\* "Letting a late device flip expired -> done would retroactively turn a
\* refusal into a success" (windows_bridge.py): an expired row stays expired.
RefusalIsFinal ==
    [][\A c \in Commands : cmd[c].status = "expired" => cmd'[c].status = "expired"]_vars

\* "revoke the device server-side; either one ends all reachability" (docs):
\* nothing is leased to a revoked device.
NoLeaseAfterRevoke ==
    [][\A c \in Commands :
          cmd[c].status = "pending" /\ cmd'[c].status = "leased"
              => device[cmd[c].device] = "active"]_vars

\* "A second command while a turn is running is refused with `workspace busy`,
\* not queued behind it" (docs): a command the agent holds while a turn runs
\* in its workspace is not started after that turn.
BusyIsARefusal ==
    [][\A c \in Commands, d \in Devices :
          runs'[c] > runs[c] /\ c \in agent[d].batch
              => cmd[c].ws \notin agent[d].since]_vars

\* "Every failure is a backoff, never an exit" (owner_os_agent.py): the agent
\* process never ends on a network error.
AgentNeverExits == \A d \in Devices : agent[d].at # "exited"

=============================================================================
