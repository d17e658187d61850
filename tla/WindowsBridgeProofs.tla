------------------------ MODULE WindowsBridgeProofs ------------------------
(***************************************************************************)
(* Proofs about WindowsBridge for every set of commands, devices,          *)
(* workspaces and threads: types, at-most-once execution, the truth of     *)
(* "done", the finality of an answer, the order of one thread's commands,  *)
(* and that the queue implements CommandLedger when no thread waits.       *)
(***************************************************************************)
EXTENDS WindowsBridge, FiniteSetTheorems, TLAPS

----------------------------------------------------------------------------
(* Types of the values the actions build *)

Thread == {IdleThread} \cup Checked \cup Waiting
Agent == FreeAgent \cup BusyAgent
LoopType == {IdleLoop} \cup LeaseCall \cup CompleteCall

\* TypeOK with its record sets named, so that a leaf need not open them.
LEMMA Types ==
    TypeOK <=>
    /\ device \in [Devices -> {"active", "revoked"}]
    /\ workspace \in [Devices -> [Workspaces -> {"none", "enabled", "disabled"}]]
    /\ cmd \in [Commands -> Row]
    /\ thread \in [Threads -> Thread]
    /\ loop \in LoopType
    /\ polls \in [Devices -> SUBSET PollKinds]
    /\ wire \subseteq Post
    /\ local \in [Devices -> SUBSET Workspaces]
    /\ agent \in [Devices -> Agent]
    /\ runs \in [Commands -> Nat]
    /\ outcome \in [Commands -> {"none", "ok", "error"}]
BY DEF TypeOK, Thread, Agent, LoopType

\* A step that leaves a variable alone, or gives it a value of its type, is
\* all a type needs: the primed form of Types.
LEMMA TypesNext ==
    ASSUME device' \in [Devices -> {"active", "revoked"}],
           workspace' \in [Devices -> [Workspaces -> {"none", "enabled", "disabled"}]],
           cmd' \in [Commands -> Row],
           thread' \in [Threads -> Thread],
           loop' \in LoopType,
           polls' \in [Devices -> SUBSET PollKinds],
           wire' \subseteq Post,
           local' \in [Devices -> SUBSET Workspaces],
           agent' \in [Devices -> Agent],
           runs' \in [Commands -> Nat],
           outcome' \in [Commands -> {"none", "ok", "error"}]
    PROVE  TypeOK'
BY DEF TypeOK, Thread, Agent, LoopType

LEMMA RowStatus ==
    ASSUME NEW r \in Row, NEW s \in Status PROVE [r EXCEPT !.status = s] \in Row
BY DEF Row

LEMMA RowStale ==
    ASSUME NEW r \in Row PROVE [r EXCEPT !.stale = TRUE] \in Row
BY DEF Row

LEMMA Records ==
    /\ NoRow \in Row /\ IdleThread \in Thread /\ IdleLoop \in LoopType
    /\ Stopped \in Agent /\ Exited \in Agent /\ Ready \in Agent
BY DEF NoRow, Row, Status, IdleThread, Thread, Stopped, Exited, Ready, Agent, FreeAgent, LoopType

LEMMA NextCommandType ==
    ASSUME NEW a \in Agent PROVE NextCommand(a) \in Agent
BY DEF NextCommand, Agent, FreeAgent, BusyAgent

LEMMA AcknowledgeType ==
    ASSUME agent \in [Devices -> Agent], NEW m \in Post, Acknowledge(m)
    PROVE  agent' \in [Devices -> Agent]
<1>1. m.d \in Devices
  BY DEF Post
<1>2. NextCommand(agent[m.d]) \in Agent
  BY <1>1, NextCommandType
<1>3. QED
  BY <1>2 DEF Acknowledge

LEMMA AfterEnqueueType ==
    ASSUME thread \in [Threads -> Thread], NEW t \in Threads, NEW c \in Commands,
           AfterEnqueue(t, c)
    PROVE  thread' \in [Threads -> Thread]
<1>1. [at |-> "waiting", c |-> c] \in Thread
  BY DEF Thread, Waiting
<1>2. QED
  BY <1>1, Records DEF AfterEnqueue

LEMMA GetCommandType ==
    ASSUME cmd \in [Commands -> Row], NEW c \in Commands, GetCommand(c)
    PROVE  cmd' \in [Commands -> Row]
<1>1. [cmd[c] EXCEPT !.status = "expired"] \in Row
  BY RowStatus DEF Status
<1>2. QED
  BY <1>1 DEF GetCommand

LEMMA LoopKinds ==
    ASSUME loop \in LoopType
    PROVE  /\ loop.at \in {"select", "mark"} => loop \in LeaseCall
           /\ loop.at = "write" => loop \in CompleteCall
BY DEF LoopType, IdleLoop, LeaseCall, CompleteCall

LEMMA HangUpType ==
    ASSUME polls \in [Devices -> SUBSET PollKinds], loop \in LoopType,
           NEW d \in Devices, HangUp(d)
    PROVE  polls' \in [Devices -> SUBSET PollKinds] /\ loop' \in LoopType
<1>1. polls' \in [Devices -> SUBSET PollKinds]
  BY DEF HangUp, PollKinds
<1>2. loop \in LeaseCall => [loop EXCEPT !.poll = "orphan"] \in LeaseCall
  BY DEF LeaseCall, PollKinds
<1>3. QED
  BY <1>1, <1>2, LoopKinds DEF HangUp, LoopType

----------------------------------------------------------------------------
(* Types: the owner threads *)

LEMMA RanksAreNumbers == ASSUME TypeOK PROVE Ranks \subseteq Nat /\ NextRank \subseteq Nat
<1>1. cmd \in [Commands -> Row] /\ thread \in [Threads -> Thread]
  BY Types
<1>2. \A c \in Commands : cmd[c].rank \in Nat
  BY <1>1 DEF Row
<1>3. ASSUME NEW t \in Threads, thread[t].at = "checked" PROVE thread[t].rank \in Nat
  <2>1. thread[t] \in Checked
    BY <1>1, <1>3 DEF Thread, IdleThread, Waiting
  <2>2. QED
    BY <2>1 DEF Checked
<1>4. Ranks \subseteq Nat
  BY <1>2, <1>3 DEF Ranks
<1>5. QED
  BY <1>4 DEF NextRank

LEMMA TypeEnqueueCheck ==
    ASSUME TypeOK, NEW t \in Threads, NEW c \in Commands, NEW d \in Devices,
           NEW w \in Workspaces, EnqueueCheck(t, c, d, w)
    PROVE  TypeOK'
<1>1. \A r \in NextRank :
         [at |-> "checked", c |-> c, d |-> d, w |-> w, rank |-> r] \in Thread
  BY RanksAreNumbers DEF Thread, Checked
<1>2. thread \in [Threads -> Thread]
  BY Types
<1>3. thread' \in [Threads -> Thread]
  <2>1. CASE AfterEnqueue(t, c)
    BY <1>2, <2>1, AfterEnqueueType
  <2>2. CASE \E r \in NextRank : thread' = [thread EXCEPT ![t] =
               [at |-> "checked", c |-> c, d |-> d, w |-> w, rank |-> r]]
    BY <1>1, <1>2, <2>2
  <2>3. QED
    BY <2>1, <2>2 DEF EnqueueCheck
<1>4. /\ cmd' = cmd
      /\ UNCHANGED <<device, workspace, loop, polls, wire, agentVars>>
  BY DEF EnqueueCheck
<1>5. QED
  BY <1>3, <1>4, Types, TypesNext DEF agentVars

LEMMA TypeEnqueueInsert ==
    ASSUME TypeOK, NEW t \in Threads, EnqueueInsert(t) PROVE TypeOK'
<1>1. cmd \in [Commands -> Row] /\ thread \in [Threads -> Thread]
  BY Types
<1>2. thread[t] \in Checked
  BY <1>1 DEF EnqueueInsert, Thread, IdleThread, Waiting, Checked
<1>3. thread[t].c \in Commands
  BY <1>2 DEF Checked
<1>4. thread[t].rank \in Nat
  BY <1>2 DEF Checked
<1>5. [status |-> "pending", device |-> thread[t].d, ws |-> thread[t].w, stale |-> FALSE,
       rank |-> thread[t].rank] \in Row
  BY <1>2, <1>4 DEF Row, Status, Checked
<1>6. cmd' \in [Commands -> Row]
  BY <1>1, <1>3, <1>5 DEF EnqueueInsert
<1>7. thread' \in [Threads -> Thread]
  BY <1>1, <1>3, AfterEnqueueType, Records DEF EnqueueInsert
<1>8. UNCHANGED <<device, workspace, loop, polls, wire, agentVars>>
  BY DEF EnqueueInsert
<1>9. QED
  BY <1>6, <1>7, <1>8, Types, TypesNext DEF agentVars

LEMMA TypeWait ==
    ASSUME TypeOK, NEW t \in Threads, Wait(t) PROVE TypeOK'
<1>1. cmd \in [Commands -> Row] /\ thread \in [Threads -> Thread]
  BY Types
<1>2. thread[t].c \in Commands
  BY <1>1 DEF Wait, Thread, IdleThread, Waiting, Checked
<1>3. cmd' \in [Commands -> Row]
  BY <1>1, <1>2, GetCommandType DEF Wait
<1>4. thread' \in [Threads -> Thread]
  BY <1>1, Records DEF Wait
<1>5. UNCHANGED <<device, workspace, loop, polls, wire, agentVars>>
  BY DEF Wait
<1>6. QED
  BY <1>3, <1>4, <1>5, Types, TypesNext DEF agentVars

----------------------------------------------------------------------------
(* Types: the event loop *)

LEMMA TypeReadStatus ==
    ASSUME TypeOK, NEW c \in Commands, ReadStatus(c) PROVE TypeOK'
<1>1. cmd' \in [Commands -> Row]
  BY Types, GetCommandType DEF ReadStatus
<1>2. UNCHANGED <<device, workspace, thread, loop, polls, wire, agentVars>>
  BY DEF ReadStatus
<1>3. QED
  BY <1>1, <1>2, Types, TypesNext DEF agentVars

\* Every bulk UPDATE of the table that only expires rows.
LEMMA ExpireType ==
    ASSUME cmd \in [Commands -> Row], NEW S
    PROVE  [c \in Commands |-> IF c \in S THEN [cmd[c] EXCEPT !.status = "expired"]
                                          ELSE cmd[c]] \in [Commands -> Row]
<1>1. \A c \in Commands : [cmd[c] EXCEPT !.status = "expired"] \in Row
  BY RowStatus DEF Status
<1>2. QED
  BY <1>1

LEMMA TypeRevokeDevice ==
    ASSUME TypeOK, NEW d \in Devices, RevokeDevice(d) PROVE TypeOK'
<1> DEFINE S == {c \in Commands : cmd[c].device = d /\ cmd[c].status \in Open}
<1>1. cmd' = [c \in Commands |-> IF c \in S THEN [cmd[c] EXCEPT !.status = "expired"]
                                            ELSE cmd[c]]
  BY DEF RevokeDevice
<1>2. cmd' \in [Commands -> Row]
  <2> HIDE DEF S
  <2> QED BY <1>1, Types, ExpireType
<1>3. device' \in [Devices -> {"active", "revoked"}]
  BY Types DEF RevokeDevice
<1>4. UNCHANGED <<workspace, thread, loop, polls, wire, agentVars>>
  BY DEF RevokeDevice
<1>5. QED
  BY <1>2, <1>3, <1>4, Types, TypesNext DEF agentVars

LEMMA TypeSetWorkspaceEnabled ==
    ASSUME TypeOK, NEW d \in Devices, NEW w \in Workspaces, SetWorkspaceEnabled(d, w)
    PROVE  TypeOK'
<1>1. workspace \in [Devices -> [Workspaces -> {"none", "enabled", "disabled"}]]
  BY Types
<1>2. workspace' \in [Devices -> [Workspaces -> {"none", "enabled", "disabled"}]]
  BY <1>1 DEF SetWorkspaceEnabled
<1>3. UNCHANGED <<device, cmd, thread, loop, polls, wire, agentVars>>
  BY DEF SetWorkspaceEnabled
<1>4. QED
  BY <1>2, <1>3, Types, TypesNext DEF agentVars

LEMMA TypePollArrives ==
    ASSUME TypeOK, NEW d \in Devices, PollArrives(d) PROVE TypeOK'
<1>1. workspace \in [Devices -> [Workspaces -> {"none", "enabled", "disabled"}]]
  BY Types
<1>2. workspace' \in [Devices -> [Workspaces -> {"none", "enabled", "disabled"}]]
  BY <1>1 DEF PollArrives, Reported
<1>3. polls' \in [Devices -> SUBSET PollKinds]
  BY Types DEF PollArrives, PollKinds
<1>4. agent \in [Devices -> Agent] /\ agent[d] \in FreeAgent
  BY Types DEF PollArrives, Agent, FreeAgent, BusyAgent
<1>5. [agent[d] EXCEPT !.at = "polling"] \in Agent
  BY <1>4 DEF Agent, FreeAgent
<1>6. agent' \in [Devices -> Agent]
  BY <1>4, <1>5 DEF PollArrives
<1>7. UNCHANGED <<device, cmd, thread, loop, wire, local, runs, outcome>>
  BY DEF PollArrives
<1>8. QED
  BY <1>2, <1>3, <1>6, <1>7, Types, TypesNext

LEMMA TypeLeaseExpire ==
    ASSUME TypeOK, NEW d \in Devices, NEW p \in PollKinds, LeaseExpire(d, p)
    PROVE  TypeOK'
<1> DEFINE S == {c \in Commands : Overdue(c)}
<1>1. cmd' = [c \in Commands |-> IF c \in S THEN [cmd[c] EXCEPT !.status = "expired"]
                                            ELSE cmd[c]]
  BY DEF LeaseExpire
<1>2. cmd' \in [Commands -> Row]
  <2> HIDE DEF S
  <2> QED BY <1>1, Types, ExpireType
<1>3. loop' \in LoopType
  BY DEF LeaseExpire, LoopType, LeaseCall
<1>4. UNCHANGED <<device, workspace, thread, polls, wire, agentVars>>
  BY DEF LeaseExpire
<1>5. QED
  BY <1>2, <1>3, <1>4, Types, TypesNext DEF agentVars

LEMMA TypeLeaseSelect ==
    ASSUME TypeOK, LeaseSelect PROVE TypeOK'
<1>1. loop \in LeaseCall
  BY Types, LoopKinds DEF LeaseSelect
<1>2. Oldest(Pending(loop.d)) \subseteq Commands
  BY DEF Oldest, Pending
<1>3. [loop EXCEPT !.at = "mark", !.rows = Oldest(Pending(loop.d))] \in LoopType
  BY <1>1, <1>2 DEF LoopType, LeaseCall
<1>4. loop' \in LoopType
  BY <1>3, Records DEF LeaseSelect
<1>5. polls' \in [Devices -> SUBSET PollKinds]
  <2>1. polls \in [Devices -> SUBSET PollKinds] /\ loop.d \in Devices
    BY <1>1, Types DEF LeaseCall
  <2>2. QED
    BY <2>1 DEF LeaseSelect
<1>6. agent' \in [Devices -> Agent]
  BY Types, Records DEF LeaseSelect
<1>7. UNCHANGED <<dbVars, thread, wire, local, runs, outcome>>
  BY DEF LeaseSelect
<1>8. QED
  BY <1>4, <1>5, <1>6, <1>7, Types, TypesNext DEF dbVars

LEMMA TypeCompleteRead ==
    ASSUME TypeOK, NEW m \in wire, CompleteRead(m) PROVE TypeOK'
<1>1. m \in Post /\ wire' \subseteq Post
  BY Types DEF CompleteRead
<1>2. [at |-> "write", post |-> m] \in LoopType
  BY <1>1 DEF LoopType, CompleteCall
<1>3. loop' \in LoopType
  BY <1>2, Types DEF CompleteRead
<1>4. agent' \in [Devices -> Agent]
  BY <1>1, Types, AcknowledgeType DEF CompleteRead
<1>5. UNCHANGED <<dbVars, thread, polls, local, runs, outcome>>
  BY DEF CompleteRead
<1>6. QED
  BY <1>1, <1>3, <1>4, <1>5, Types, TypesNext DEF dbVars

LEMMA TypeCompleteWrite ==
    ASSUME TypeOK, CompleteWrite PROVE TypeOK'
<1>1. loop \in CompleteCall /\ loop.post \in Post /\ loop.post.c \in Commands
  BY Types, LoopKinds DEF CompleteWrite, CompleteCall, Post
<1>2. cmd' \in [Commands -> Row]
  <2>1. cmd \in [Commands -> Row]
    BY Types
  <2>2. \A s \in {"done", "failed"} : [cmd[loop.post.c] EXCEPT !.status = s] \in Row
    BY <1>1, <2>1, RowStatus DEF Status
  <2>3. QED
    BY <1>1, <2>1, <2>2 DEF CompleteWrite
<1>3. agent' \in [Devices -> Agent]
  BY <1>1, Types, AcknowledgeType DEF CompleteWrite
<1>4. loop' \in LoopType
  BY Records DEF CompleteWrite
<1>5. UNCHANGED <<device, workspace, thread, polls, wire, local, runs, outcome>>
  BY DEF CompleteWrite
<1>6. QED
  BY <1>2, <1>3, <1>4, <1>5, Types, TypesNext

LEMMA TypeGrowStale ==
    ASSUME TypeOK, NEW c \in Commands, GrowStale(c) PROVE TypeOK'
<1>1. cmd' \in [Commands -> Row]
  BY Types, RowStale DEF GrowStale
<1>2. UNCHANGED <<device, workspace, thread, loop, polls, wire, agentVars>>
  BY DEF GrowStale
<1>3. QED
  BY <1>1, <1>2, Types, TypesNext DEF agentVars

LEMMA TypeLeaseMark ==
    ASSUME TypeOK, LivePolls, LeaseMark PROVE TypeOK'
<1>1. loop \in LeaseCall /\ loop.d \in Devices /\ loop.rows \subseteq Commands
  BY Types, LoopKinds DEF LeaseMark, LeaseCall
<1>2. cmd' \in [Commands -> Row]
  <2>1. \A c \in Commands : cmd[c] \in Row /\ [cmd[c] EXCEPT !.status = "leased"] \in Row
    BY Types, RowStatus DEF Status
  <2>2. QED
    BY <2>1 DEF LeaseMark
<1>3. polls' \in [Devices -> SUBSET PollKinds]
  BY <1>1, Types DEF LeaseMark
<1>4. agent' \in [Devices -> Agent]
  <2>1. CASE /\ loop.poll = "live"
             /\ agent' = [agent EXCEPT ![loop.d] =
                              [@ EXCEPT !.at = "batch", !.batch = loop.rows]]
    <3>1. agent[loop.d] \in FreeAgent
      BY <1>1, <2>1, Types DEF LeaseMark, LivePolls, Agent, BusyAgent
    <3>2. [agent[loop.d] EXCEPT !.at = "batch", !.batch = loop.rows] \in Agent
      BY <1>1, <3>1 DEF Agent, FreeAgent
    <3>3. QED
      BY <2>1, <3>2, Types
  <2>2. CASE agent' \in {[agent EXCEPT ![loop.d] = s] : s \in {Ready, Exited}} \/ agent' = agent
    BY <2>2, Types, Records
  <2>3. QED
    BY <2>1, <2>2 DEF LeaseMark
<1>5. loop' \in LoopType
  BY Records DEF LeaseMark
<1>6. UNCHANGED <<device, workspace, thread, wire, local, runs, outcome>>
  BY DEF LeaseMark
<1>7. QED
  BY <1>2, <1>3, <1>4, <1>5, <1>6, Types, TypesNext

----------------------------------------------------------------------------
(* Types: the agent *)

LEMMA TypeAgentStart ==
    ASSUME TypeOK, NEW d \in Devices, AgentStart(d) PROVE TypeOK'
<1>1. local' \in [Devices -> SUBSET Workspaces]
  BY Types DEF AgentStart
<1>2. agent' \in [Devices -> Agent]
  BY Types, Records DEF AgentStart
<1>3. UNCHANGED <<dbVars, thread, loop, polls, wire, runs, outcome>>
  BY DEF AgentStart
<1>4. QED
  BY <1>1, <1>2, <1>3, Types, TypesNext DEF dbVars

LEMMA TypeAgentDown ==
    ASSUME TypeOK, NEW d \in Devices, AgentCrash(d) \/ PollDropped(d) PROVE TypeOK'
<1>1. polls' \in [Devices -> SUBSET PollKinds] /\ loop' \in LoopType
  BY Types, HangUpType DEF AgentCrash, PollDropped
<1>2. agent' \in [Devices -> Agent]
  BY Types, Records DEF AgentCrash, PollDropped
<1>3. UNCHANGED <<dbVars, thread, wire, local, runs, outcome>>
  BY DEF AgentCrash, PollDropped
<1>4. QED
  BY <1>1, <1>2, <1>3, Types, TypesNext DEF dbVars

LEMMA TypeHandle ==
    ASSUME TypeOK, NEW d \in Devices, Handle(d) PROVE TypeOK'
<1>1. agent \in [Devices -> Agent] /\ agent[d] \in FreeAgent
  BY Types DEF Handle, Agent, FreeAgent, BusyAgent
<1>2. \A c \in agent[d].batch, at \in {"running", "posting"} :
          [[agent[d] EXCEPT !.batch = @ \ {c}, !.cur = c] EXCEPT !.at = at] \in Agent
  BY <1>1 DEF Agent, FreeAgent, BusyAgent
<1>3. agent' \in [Devices -> Agent]
  BY <1>1, <1>2 DEF Handle
<1>4. runs' \in [Commands -> Nat]
  BY <1>1, Types DEF Handle, FreeAgent
<1>5. UNCHANGED <<dbVars, thread, loop, polls, wire, local, outcome>>
  BY DEF Handle
<1>6. QED
  BY <1>3, <1>4, <1>5, Types, TypesNext DEF dbVars

LEMMA BusyAgents ==
    ASSUME TypeOK, NEW d \in Devices,
           agent[d].at \in {"running", "posting", "awaiting"}
    PROVE  agent[d] \in BusyAgent
BY Types DEF Agent, FreeAgent, BusyAgent

LEMMA TypeTurnEnds ==
    ASSUME TypeOK, NEW d \in Devices, TurnEnds(d) PROVE TypeOK'
<1>1. agent[d] \in BusyAgent
  BY BusyAgents DEF TurnEnds
<1>2. agent[d].cur \in Commands
  BY <1>1 DEF BusyAgent
<1>3. cmd[agent[d].cur].ws \in Workspaces \cup {None}
  BY <1>2, Types DEF Row
<1>4. \A ok \in BOOLEAN :
          [agent[d] EXCEPT !.at = "posting", !.ok = ok,
                           !.since = agent[d].since \cup {cmd[agent[d].cur].ws}] \in Agent
  BY <1>1, <1>3 DEF Agent, BusyAgent
<1>5. agent' \in [Devices -> Agent]
  <2>1. PICK ok \in BOOLEAN :
            agent' = [agent EXCEPT ![d] =
                [@ EXCEPT !.at = "posting", !.ok = ok,
                          !.since = agent[d].since \cup {cmd[agent[d].cur].ws}]]
    BY DEF TurnEnds
  <2> DEFINE a == [agent[d] EXCEPT !.at = "posting", !.ok = ok,
                                   !.since = agent[d].since \cup {cmd[agent[d].cur].ws}]
  <2>2. a \in Agent /\ agent' = [agent EXCEPT ![d] = a]
    BY <1>4, <2>1
  <2> HIDE DEF a
  <2>3. QED
    BY <2>2, Types
<1>6. outcome' \in [Commands -> {"none", "ok", "error"}]
  BY <1>2, Types DEF TurnEnds
<1>7. UNCHANGED <<dbVars, thread, loop, polls, wire, local, runs>>
  BY DEF TurnEnds
<1>8. QED
  BY <1>5, <1>6, <1>7, Types, TypesNext DEF dbVars

LEMMA TypeSendResult ==
    ASSUME TypeOK, NEW d \in Devices, SendResult(d) PROVE TypeOK'
<1>1. agent[d] \in BusyAgent
  BY BusyAgents DEF SendResult
<1>2. [agent[d] EXCEPT !.at = "awaiting"] \in Agent
  BY <1>1 DEF Agent, BusyAgent
<1>3. agent' \in [Devices -> Agent]
  BY <1>2, Types DEF SendResult
<1>4. [d |-> d, c |-> agent[d].cur, ok |-> agent[d].ok] \in Post
  BY <1>1 DEF BusyAgent, Post
<1>5. wire' \subseteq Post
  BY <1>4, Types DEF SendResult
<1>6. UNCHANGED <<dbVars, thread, loop, polls, local, runs, outcome>>
  BY DEF SendResult
<1>7. QED
  BY <1>3, <1>5, <1>6, Types, TypesNext DEF dbVars

LEMMA TypeGiveUp ==
    ASSUME TypeOK, NEW d \in Devices, GiveUp(d) PROVE TypeOK'
<1>1. agent[d] \in BusyAgent
  BY BusyAgents DEF GiveUp
<1>2. [agent[d] EXCEPT !.at = "posting", !.ok = FALSE] \in Agent
  BY <1>1 DEF Agent, BusyAgent
<1>3. agent' \in [Devices -> Agent]
  BY <1>2, Types, Records DEF GiveUp, PostFailed
<1>4. UNCHANGED <<dbVars, thread, loop, polls, wire, local, runs, outcome>>
  BY DEF GiveUp
<1>5. QED
  BY <1>3, <1>4, Types, TypesNext DEF dbVars

LEMMA TypeLosePost ==
    ASSUME TypeOK, NEW m \in wire, LosePost(m) PROVE TypeOK'
<1>1. wire' \subseteq Post
  BY Types DEF LosePost
<1>2. UNCHANGED <<dbVars, thread, loop, polls, agentVars>>
  BY DEF LosePost
<1>3. QED
  BY <1>1, <1>2, Types, TypesNext DEF dbVars, agentVars

LEMMA TypeInit == Init => TypeOK
<1> SUFFICES ASSUME Init PROVE TypeOK
  OBVIOUS
<1>1. /\ cmd \in [Commands -> Row]
      /\ thread \in [Threads -> Thread]
      /\ loop \in LoopType
      /\ agent \in [Devices -> Agent]
  BY Records DEF Init
<1>2. /\ device \in [Devices -> {"active", "revoked"}]
      /\ workspace \in [Devices -> [Workspaces -> {"none", "enabled", "disabled"}]]
      /\ polls \in [Devices -> SUBSET PollKinds]
      /\ wire \subseteq Post
      /\ local \in [Devices -> SUBSET Workspaces]
      /\ runs \in [Commands -> Nat]
      /\ outcome \in [Commands -> {"none", "ok", "error"}]
  BY DEF Init
<1>3. QED
  BY <1>1, <1>2, Types

LEMMA TypeStep ==
    ASSUME TypeOK, LivePolls, [Next]_vars PROVE TypeOK'
<1>1. CASE UNCHANGED vars
  BY <1>1, Types, TypesNext DEF vars, dbVars, agentVars
<1>2. ASSUME NEW t \in Threads, EnqueueInsert(t) \/ Wait(t) PROVE TypeOK'
  BY <1>2, TypeEnqueueInsert, TypeWait
<1>3. ASSUME NEW t \in Threads, NEW c \in Commands, NEW d \in Devices,
             NEW w \in Workspaces, EnqueueCheck(t, c, d, w)
      PROVE  TypeOK'
  BY <1>3, TypeEnqueueCheck
<1>4. ASSUME NEW c \in Commands, ReadStatus(c) \/ GrowStale(c) PROVE TypeOK'
  BY <1>4, TypeReadStatus, TypeGrowStale
<1>5. ASSUME NEW d \in Devices,
             \/ RevokeDevice(d) \/ PollArrives(d) \/ AgentStart(d) \/ AgentCrash(d)
             \/ PollDropped(d) \/ Handle(d) \/ TurnEnds(d) \/ SendResult(d) \/ GiveUp(d)
      PROVE  TypeOK'
  BY <1>5, TypeRevokeDevice, TypePollArrives, TypeAgentStart, TypeAgentDown,
     TypeHandle, TypeTurnEnds, TypeSendResult, TypeGiveUp
<1>6. ASSUME NEW d \in Devices, NEW w \in Workspaces, SetWorkspaceEnabled(d, w)
      PROVE  TypeOK'
  BY <1>6, TypeSetWorkspaceEnabled
<1>7. ASSUME NEW d \in Devices, NEW p \in PollKinds, LeaseExpire(d, p) PROVE TypeOK'
  BY <1>7, TypeLeaseExpire
<1>8. CASE LeaseSelect \/ LeaseMark \/ CompleteWrite
  BY <1>8, TypeLeaseSelect, TypeLeaseMark, TypeCompleteWrite
<1>9. ASSUME NEW m \in wire, CompleteRead(m) \/ LosePost(m) PROVE TypeOK'
  BY <1>9, TypeCompleteRead, TypeLosePost
<1>10. QED
  BY <1>1, <1>2, <1>3, <1>4, <1>5, <1>6, <1>7, <1>8, <1>9 DEF Next

----------------------------------------------------------------------------
(* The inductive invariant.  Most steps are quiet: they start and end no     *)
(* turn, agents only let go of what they hold, and no row becomes fresh.     *)

Fresh == {"none", "pending"}

\* The agent of d keeps what it had, or drops some of it.
Lets(d) ==
    \/ agent'[d] = agent[d]
    \/ /\ agent'[d].batch \subseteq agent[d].batch
       /\ agent'[d].cur \in {agent[d].cur, None}
       /\ agent'[d].at # "running"
       /\ agent'[d].ok => agent[d].ok /\ agent'[d].cur = agent[d].cur

NoneFresh ==
    \A c \in Commands : /\ cmd'[c].status \in Fresh => cmd[c].status \in Fresh
                        /\ cmd'[c].status = "none" => cmd[c].status = "none"

Quiet ==
    /\ UNCHANGED <<runs, outcome>>
    /\ NoneFresh
    /\ \A d \in Devices : Lets(d)

LEMMA NoneIsNoCommand == \A c \in Commands : c # None
BY BridgeAssumption

LEMMA QuietStep ==
    ASSUME TypeOK, BridgeInv, Quiet
    PROVE  /\ \A c \in Commands : Untouched(c) => Untouched(c)'
           /\ UnhandedUntouched' /\ HeldOnce' /\ HonestAgent' /\ AtMostOnce'
<1>1. \A c \in Commands : Untouched(c) => Untouched(c)'
  BY NoneIsNoCommand DEF Quiet, Lets, Untouched
<1>2. UnhandedUntouched'
  BY <1>1 DEF Quiet, NoneFresh, Fresh, UnhandedUntouched, BridgeInv
<1>3. HeldOnce'
  <2>1. \A d \in Devices : agent'[d].batch \subseteq agent[d].batch
                           /\ agent'[d].cur \in {agent[d].cur, None}
    BY DEF Quiet, Lets
  <2>2. \A d \in Devices : agent[d].batch \subseteq Commands
    BY Types DEF Agent, FreeAgent, BusyAgent
  <2>3. QED
    BY <2>1, <2>2, NoneIsNoCommand DEF Quiet, HeldOnce, BridgeInv
<1>4. HonestAgent'
  BY DEF Quiet, Lets, HonestAgent, BridgeInv
<1>5. AtMostOnce'
  BY DEF Quiet, AtMostOnce, BridgeInv
<1>6. QED
  BY <1>1, <1>2, <1>3, <1>4, <1>5

\* The selected rows of a lease in progress stay as they are.
LEMMA QuietRows ==
    ASSUME TypeOK, BridgeInv, Quiet,
           loop'.at = "mark" => loop.at = "mark" /\ loop'.rows = loop.rows
    PROVE  RowsUntouched'
<1>1. ASSUME loop'.at = "mark", NEW c \in loop'.rows
      PROVE  cmd'[c].status # "none" /\ Untouched(c)'
  <2>1. c \in Commands /\ cmd[c].status # "none" /\ Untouched(c)
    BY <1>1, Types, LoopKinds DEF LeaseCall, RowsUntouched, BridgeInv
  <2>2. QED
    BY <2>1, QuietStep DEF Quiet, NoneFresh
<1>2. QED
  BY <1>1 DEF RowsUntouched

\* Steps that touch the table only: rows are inserted, expire or grow stale.
LEMMA QueueStep ==
    ASSUME TypeOK, BridgeInv, UNCHANGED <<loop, polls, wire, agentVars>>,
           \A c \in Commands :
               \/ cmd'[c].status = cmd[c].status
               \/ cmd[c].status = "none" /\ cmd'[c].status = "pending"
               \/ cmd[c].status \in Open /\ cmd'[c].status = "expired"
    PROVE  BridgeInv'
<1>1. Quiet
  BY DEF Quiet, NoneFresh, Fresh, Lets, agentVars, Open
<1>2. LivePolls'
  BY DEF LivePolls, BridgeInv, agentVars
<1>3. RowsUntouched'
  BY <1>1, QuietRows
<1>4. HonestPosts'
  <2>1. loop.at = "write" => loop.post.c \in Commands
    BY Types, LoopKinds DEF CompleteCall, Post
  <2>2. QED
    BY <2>1 DEF HonestPosts, BridgeInv, agentVars, Answered, Open
<1>5. DoneMeansRan'
  BY DEF DoneMeansRan, BridgeInv, agentVars, Open
<1>6. QED
  BY <1>1, <1>2, <1>3, <1>4, <1>5, QuietStep DEF BridgeInv

LEMMA GetCommandStatus ==
    ASSUME cmd \in [Commands -> Row], NEW r \in Commands, GetCommand(r)
    PROVE  \A c \in Commands : \/ cmd'[c].status = cmd[c].status
                               \/ cmd[c].status \in Open /\ cmd'[c].status = "expired"
BY DEF GetCommand, Overdue, Row

\* Every step of the owner threads and every bulk expiry.
LEMMA InvThreads ==
    ASSUME TypeOK, BridgeInv, NEW t \in Threads,
           \/ EnqueueInsert(t) \/ Wait(t)
           \/ \E c \in Commands, d \in Devices, w \in Workspaces : EnqueueCheck(t, c, d, w)
    PROVE  BridgeInv'
<1>1. cmd \in [Commands -> Row] /\ thread \in [Threads -> Thread]
  BY Types
<1>2. CASE EnqueueInsert(t)
  <2>1. \A c \in Commands : \/ cmd'[c].status = cmd[c].status
                            \/ cmd[c].status = "none" /\ cmd'[c].status = "pending"
    BY <1>1, <1>2 DEF EnqueueInsert
  <2>2. QED
    BY <1>2, <2>1, QueueStep DEF EnqueueInsert
<1>3. CASE Wait(t)
  <2>1. thread[t].c \in Commands
    BY <1>1, <1>3 DEF Wait, Thread, IdleThread, Waiting, Checked
  <2>2. QED
    BY <1>1, <1>3, <2>1, GetCommandStatus, QueueStep DEF Wait
<1>4. CASE \E c \in Commands, d \in Devices, w \in Workspaces : EnqueueCheck(t, c, d, w)
  BY <1>4, QueueStep DEF EnqueueCheck
<1>5. QED
  BY <1>2, <1>3, <1>4

LEMMA InvTable ==
    ASSUME TypeOK, BridgeInv,
           \/ \E c \in Commands : ReadStatus(c) \/ GrowStale(c)
           \/ \E d \in Devices : RevokeDevice(d)
           \/ \E d \in Devices, w \in Workspaces : SetWorkspaceEnabled(d, w)
    PROVE  BridgeInv'
<1>1. cmd \in [Commands -> Row]
  BY Types
<1>2. ASSUME NEW c \in Commands, ReadStatus(c) PROVE BridgeInv'
  BY <1>1, <1>2, GetCommandStatus, QueueStep DEF ReadStatus
<1>3. ASSUME NEW c \in Commands, GrowStale(c) PROVE BridgeInv'
  <2>1. \A e \in Commands : cmd'[e].status = cmd[e].status
    BY <1>1, <1>3 DEF GrowStale, Row
  <2>2. QED
    BY <1>3, <2>1, QueueStep DEF GrowStale
<1>4. ASSUME NEW d \in Devices, RevokeDevice(d) PROVE BridgeInv'
  <2>1. \A c \in Commands : \/ cmd'[c].status = cmd[c].status
                            \/ cmd[c].status \in Open /\ cmd'[c].status = "expired"
    BY <1>1, <1>4 DEF RevokeDevice, Row
  <2>2. QED
    BY <1>4, <2>1, QueueStep DEF RevokeDevice
<1>5. ASSUME NEW d \in Devices, NEW w \in Workspaces, SetWorkspaceEnabled(d, w)
      PROVE  BridgeInv'
  BY <1>5, QueueStep DEF SetWorkspaceEnabled
<1>6. QED
  BY <1>2, <1>3, <1>4, <1>5

LEMMA InvPollArrives ==
    ASSUME TypeOK, BridgeInv, NEW d \in Devices, PollArrives(d) PROVE BridgeInv'
<1>1. agent \in [Devices -> Agent] /\ polls \in [Devices -> SUBSET PollKinds]
  BY Types
<1>2. agent[d] \in FreeAgent
  BY <1>1 DEF PollArrives, Agent, FreeAgent, BusyAgent
<1>3. /\ agent'[d] = [agent[d] EXCEPT !.at = "polling"]
      /\ \A e \in Devices \ {d} : agent'[e] = agent[e]
  BY <1>1 DEF PollArrives
<1>4. Lets(d)
  BY <1>2, <1>3 DEF Lets, FreeAgent
<1>5. Quiet
  BY <1>3, <1>4 DEF Quiet, NoneFresh, Lets, PollArrives
<1>6. LivePolls'
  <2>1. agent'[d].at = "polling"
    BY <1>2, <1>3 DEF FreeAgent
  <2>2. loop' = IdleLoop
    BY DEF PollArrives
  <2>3. \A e \in Devices \ {d} : polls'[e] = polls[e]
    BY <1>1 DEF PollArrives
  <2>4. QED
    BY <1>3, <2>1, <2>2, <2>3 DEF LivePolls, BridgeInv, IdleLoop
<1>7. HonestPosts' /\ DoneMeansRan'
  BY DEF PollArrives, HonestPosts, DoneMeansRan, BridgeInv
<1>8. RowsUntouched'
  BY <1>5, QuietRows DEF PollArrives
<1>9. QED
  BY <1>5, <1>6, <1>7, <1>8, QuietStep DEF BridgeInv

LEMMA InvLeaseExpire ==
    ASSUME TypeOK, BridgeInv, NEW d \in Devices, NEW p \in PollKinds, LeaseExpire(d, p)
    PROVE  BridgeInv'
<1>1. cmd \in [Commands -> Row]
  BY Types
<1>2. \A c \in Commands : \/ cmd'[c].status = cmd[c].status
                          \/ cmd[c].status \in Open /\ cmd'[c].status = "expired"
  BY <1>1 DEF LeaseExpire, Overdue, Row
<1>3. loop' = [at |-> "select", d |-> d, poll |-> p, rows |-> {}] /\ p \in polls[d]
      /\ UNCHANGED <<polls, wire, agentVars>>
  BY DEF LeaseExpire
<1>4. Quiet
  BY <1>2, <1>3 DEF Quiet, NoneFresh, Fresh, Lets, agentVars, Open
<1>5. LivePolls'
  BY <1>3 DEF LivePolls, BridgeInv, agentVars
<1>6. RowsUntouched' /\ HonestPosts'
  BY <1>3 DEF RowsUntouched, HonestPosts, BridgeInv, agentVars
<1>7. DoneMeansRan'
  BY <1>2, <1>3 DEF DoneMeansRan, BridgeInv, agentVars, Open
<1>8. QED
  BY <1>4, <1>5, <1>6, <1>7, QuietStep DEF BridgeInv

LEMMA InvLeaseSelect ==
    ASSUME TypeOK, BridgeInv, LeaseSelect PROVE BridgeInv'
<1>1. loop \in LeaseCall /\ agent \in [Devices -> Agent] /\ polls \in [Devices -> SUBSET PollKinds]
  BY Types, LoopKinds DEF LeaseSelect
<1>2. loop.d \in Devices
  BY <1>1 DEF LeaseCall
<1>3. UNCHANGED <<cmd, wire, runs, outcome>>
  BY DEF LeaseSelect, dbVars
<1>4. agent' = agent \/ (loop.poll = "live" /\ agent' = [agent EXCEPT ![loop.d] = Ready])
  BY DEF LeaseSelect
<1>5. Quiet
  BY <1>1, <1>2, <1>3, <1>4 DEF Quiet, NoneFresh, Lets, Ready, Stopped
<1>6. CASE loop' = [loop EXCEPT !.at = "mark", !.rows = Oldest(Pending(loop.d))]
           /\ UNCHANGED <<polls, agent>>
  <2>1. /\ loop'.at = "mark" /\ loop'.d = loop.d /\ loop'.poll = loop.poll
        /\ loop'.rows = Oldest(Pending(loop.d))
    BY <1>1, <1>6 DEF LeaseCall
  <2>2. LivePolls'
    BY <1>6, <2>1 DEF LeaseSelect, LivePolls, BridgeInv
  <2>3. RowsUntouched'
    <3>1. \A c \in loop'.rows : c \in Commands /\ cmd[c].status = "pending"
      BY <2>1 DEF Oldest, Pending
    <3>2. QED
      BY <1>3, <1>5, <3>1, QuietStep DEF RowsUntouched, UnhandedUntouched, BridgeInv
  <2>4. HonestPosts' /\ DoneMeansRan'
    BY <1>3, <2>1 DEF HonestPosts, DoneMeansRan, BridgeInv
  <2>5. QED
    BY <1>5, <2>2, <2>3, <2>4, QuietStep DEF BridgeInv
<1>7. CASE loop' = IdleLoop
  <2>1. LivePolls'
    <3>1. CASE agent' = agent
      <4>1. \A d \in Devices : polls'[d] \subseteq polls[d]
        BY <1>1, <1>2 DEF LeaseSelect
      <4>2. QED
        BY <1>7, <3>1, <4>1 DEF LivePolls, BridgeInv, IdleLoop
    <3>2. CASE polls' = [polls EXCEPT ![loop.d] = @ \ {loop.poll}]
               /\ loop.poll = "live" /\ agent' = [agent EXCEPT ![loop.d] = Ready]
      BY <1>1, <1>2, <1>7, <3>2 DEF LivePolls, BridgeInv, IdleLoop
    <3>3. QED
      BY <3>1, <3>2 DEF LeaseSelect
  <2>2. RowsUntouched' /\ HonestPosts' /\ DoneMeansRan'
    BY <1>3, <1>7 DEF RowsUntouched, HonestPosts, DoneMeansRan, BridgeInv, IdleLoop
  <2>3. QED
    BY <1>5, <2>1, <2>2, QuietStep DEF BridgeInv
<1>8. QED
  BY <1>6, <1>7 DEF LeaseSelect

LEMMA InvLeaseMark ==
    ASSUME TypeOK, BridgeInv, LeaseMark PROVE BridgeInv'
<1> DEFINE D == loop.d
<1>1. /\ loop \in LeaseCall /\ cmd \in [Commands -> Row]
      /\ agent \in [Devices -> Agent] /\ polls \in [Devices -> SUBSET PollKinds]
  BY Types, LoopKinds DEF LeaseMark
<1>2. D \in Devices /\ loop.rows \subseteq Commands
  BY <1>1 DEF LeaseCall
<1>3. loop' = IdleLoop /\ UNCHANGED <<wire, runs, outcome>>
  BY DEF LeaseMark
<1>4. \A c \in Commands :
          \/ cmd'[c].status = cmd[c].status /\ (c \in loop.rows => cmd[c].status # "pending")
          \/ c \in loop.rows /\ cmd[c].status = "pending" /\ cmd'[c].status = "leased"
  BY <1>1 DEF LeaseMark, Row
<1>5. NoneFresh
  BY <1>4 DEF NoneFresh, Fresh
<1>6. /\ RowsUntouched' /\ HonestPosts' /\ DoneMeansRan' /\ AtMostOnce'
  BY <1>3, <1>4 DEF RowsUntouched, HonestPosts, DoneMeansRan, AtMostOnce, BridgeInv, IdleLoop
<1>7. polls' = [polls EXCEPT ![D] = @ \ {loop.poll}]
  BY DEF LeaseMark
<1>8. CASE agent' = agent /\ loop.poll = "orphan"
  <2>1. Quiet
    BY <1>3, <1>5, <1>8 DEF Quiet, Lets
  <2>2. LivePolls'
    BY <1>1, <1>2, <1>3, <1>7, <1>8 DEF LivePolls, BridgeInv, IdleLoop
  <2>3. QED
    BY <1>6, <2>1, <2>2, QuietStep DEF BridgeInv
<1>9. CASE loop.poll = "live" /\ agent' \in {[agent EXCEPT ![D] = s] : s \in {Ready, Exited}}
  <2>1. Quiet
    BY <1>1, <1>2, <1>3, <1>5, <1>9 DEF Quiet, Lets, Ready, Exited, Stopped
  <2>2. LivePolls'
    BY <1>1, <1>2, <1>3, <1>7, <1>9 DEF LivePolls, BridgeInv, IdleLoop
  <2>3. QED
    BY <1>6, <2>1, <2>2, QuietStep DEF BridgeInv
<1>10. CASE /\ loop.poll = "live"
            /\ agent' = [agent EXCEPT ![D] = [@ EXCEPT !.at = "batch", !.batch = loop.rows]]
  <2>1. agent[D] \in FreeAgent
    BY <1>1, <1>2, <1>10 DEF LeaseMark, LivePolls, BridgeInv, Agent, BusyAgent
  <2>2. /\ agent'[D].at = "batch" /\ agent'[D].batch = loop.rows
        /\ agent'[D].cur = None /\ ~agent'[D].ok
        /\ \A d \in Devices \ {D} : agent'[d] = agent[d]
    BY <1>1, <1>2, <1>10, <2>1 DEF FreeAgent
  <2>3. \A c \in loop.rows : cmd[c].status # "none" /\ Untouched(c)
    BY DEF LeaseMark, RowsUntouched, BridgeInv
  <2>4. LivePolls'
    BY <1>1, <1>2, <1>3, <1>7, <1>10, <2>2 DEF LivePolls, BridgeInv, IdleLoop
  <2>5. UnhandedUntouched'
    <3>1. SUFFICES ASSUME NEW c \in Commands, cmd'[c].status \in {"none", "pending"}
                   PROVE  Untouched(c)'
      BY DEF UnhandedUntouched
    <3>2. c \notin loop.rows /\ cmd[c].status \in {"none", "pending"}
      BY <1>4, <2>3, <3>1
    <3>3. Untouched(c)
      BY <3>2 DEF UnhandedUntouched, BridgeInv
    <3>4. QED
      BY <1>3, <2>2, <3>2, <3>3, NoneIsNoCommand DEF Untouched
  <2>6. HeldOnce'
    <3>1. \A d \in Devices : agent'[d].cur \in {agent[d].cur, None}
      BY <2>2
    <3>2. ASSUME NEW d \in Devices, NEW c \in agent'[d].batch
          PROVE  /\ runs'[c] = 0
                 /\ \A e \in Devices : agent'[e].cur # c /\ (e # d => c \notin agent'[e].batch)
      <4>1. c \in Commands
        BY <1>1, <1>2, <2>2, <3>2 DEF Agent, FreeAgent, BusyAgent
      <4>2. QED
        BY <1>3, <2>2, <2>3, <3>1, <3>2, <4>1, NoneIsNoCommand
        DEF Untouched, HeldOnce, BridgeInv
    <3>3. \A d, e \in Devices : agent'[d].cur = agent'[e].cur /\ agent'[d].cur # None => d = e
      BY <3>1 DEF HeldOnce, BridgeInv
    <3>4. QED
      BY <3>2, <3>3 DEF HeldOnce
  <2>7. HonestAgent'
    BY <1>3, <2>2 DEF HonestAgent, BridgeInv
  <2>8. QED
    BY <1>6, <2>4, <2>5, <2>6, <2>7 DEF BridgeInv
<1>11. QED
  BY <1>8, <1>9, <1>10 DEF LeaseMark

LEMMA AcknowledgeLets ==
    ASSUME TypeOK, NEW m \in Post, Acknowledge(m)
    PROVE  /\ \A d \in Devices : Lets(d)
           /\ \A d \in Devices : agent[d].at = "polling" => agent'[d].at = "polling"
<1>1. agent \in [Devices -> Agent] /\ m.d \in Devices
  BY Types DEF Post
<1>2. CASE Awaits(m) /\ agent' = [agent EXCEPT ![m.d] = NextCommand(@)]
  <2>1. agent[m.d] \in BusyAgent
    BY <1>1, <1>2, BusyAgents DEF Awaits
  <2>2. /\ agent'[m.d].batch = agent[m.d].batch /\ agent'[m.d].cur = None
        /\ agent'[m.d].at # "running" /\ agent'[m.d].ok = FALSE
    BY <1>1, <1>2, <2>1 DEF NextCommand, BusyAgent
  <2>3. \A d \in Devices \ {m.d} : agent'[d] = agent[d]
    BY <1>1, <1>2
  <2>4. QED
    BY <1>2, <2>2, <2>3 DEF Lets, Awaits
<1>3. CASE agent' = agent
  BY <1>3 DEF Lets
<1>4. QED
  BY <1>2, <1>3 DEF Acknowledge

LEMMA InvCompleteRead ==
    ASSUME TypeOK, BridgeInv, NEW m \in wire, CompleteRead(m) PROVE BridgeInv'
<1>1. m \in Post /\ m.c \in Commands
  BY Types DEF Post
<1>2. /\ UNCHANGED <<cmd, runs, outcome, polls>> /\ wire' \subseteq wire /\ loop = IdleLoop
      /\ agent' = agent \/ Acknowledge(m)
  BY DEF CompleteRead, dbVars
<1>3. /\ \A d \in Devices : Lets(d)
      /\ \A d \in Devices : agent[d].at = "polling" => agent'[d].at = "polling"
  BY <1>1, <1>2, AcknowledgeLets DEF Lets
<1>4. Quiet
  BY <1>2, <1>3 DEF Quiet, NoneFresh
<1>5. \/ loop' = IdleLoop
      \/ loop' = [at |-> "write", post |-> m] /\ cmd[m.c].status \in Open
  BY DEF CompleteRead
<1>6. LivePolls'
  BY <1>2, <1>3, <1>5 DEF LivePolls, BridgeInv, IdleLoop
<1>7. RowsUntouched' /\ DoneMeansRan'
  BY <1>2, <1>5 DEF RowsUntouched, DoneMeansRan, BridgeInv, IdleLoop
<1>8. HonestPosts'
  BY <1>2, <1>5 DEF HonestPosts, BridgeInv, IdleLoop, Open, Answered
<1>9. QED
  BY <1>4, <1>6, <1>7, <1>8, QuietStep DEF BridgeInv

LEMMA InvCompleteWrite ==
    ASSUME TypeOK, BridgeInv, CompleteWrite PROVE BridgeInv'
<1>1. /\ loop.post \in Post /\ loop.post.c \in Commands /\ cmd \in [Commands -> Row]
  BY Types, LoopKinds DEF CompleteWrite, CompleteCall, Post
<1>2. /\ UNCHANGED <<runs, outcome, polls, wire>> /\ loop' = IdleLoop
      /\ Acknowledge(loop.post)
  BY DEF CompleteWrite
<1>3. \A c \in Commands :
          cmd'[c].status = IF c = loop.post.c THEN IF loop.post.ok THEN "done" ELSE "failed"
                                              ELSE cmd[c].status
  BY <1>1 DEF CompleteWrite, Row
<1>4. Quiet
  BY <1>1, <1>2, <1>3, AcknowledgeLets DEF Quiet, NoneFresh, Fresh
<1>5. LivePolls'
  BY <1>1, <1>2, AcknowledgeLets DEF LivePolls, BridgeInv, IdleLoop
<1>6. RowsUntouched' /\ HonestPosts'
  BY <1>2 DEF RowsUntouched, HonestPosts, BridgeInv, IdleLoop
<1>7. DoneMeansRan'
  BY <1>2, <1>3 DEF DoneMeansRan, HonestPosts, BridgeInv, CompleteWrite
<1>8. QED
  BY <1>4, <1>5, <1>6, <1>7, QuietStep DEF BridgeInv

LEMMA HangUpKeeps ==
    ASSUME TypeOK, NEW d \in Devices, HangUp(d)
    PROVE  /\ \A e \in Devices \ {d} : polls'[e] = polls[e]
           /\ "live" \notin polls'[d]
           /\ loop'.at = loop.at
           /\ loop.at = "mark" => loop'.rows = loop.rows
           /\ loop.at = "write" => loop' = loop
           /\ loop.at \in {"select", "mark"} =>
                 loop'.d = loop.d /\ (loop'.poll = loop.poll \/ loop'.poll = "orphan")
           /\ loop.at \in {"select", "mark"} /\ loop.d = d => loop'.poll = "orphan"
<1>1. polls \in [Devices -> SUBSET PollKinds] /\ loop \in LoopType
  BY Types
<1>2. "live" \notin polls'[d] /\ \A e \in Devices \ {d} : polls'[e] = polls[e]
  BY <1>1 DEF HangUp
<1>3. CASE loop.at \in {"select", "mark"}
  BY <1>1, <1>2, <1>3, LoopKinds DEF HangUp, LeaseCall
<1>4. CASE loop.at \notin {"select", "mark"}
  BY <1>2, <1>4 DEF HangUp
<1>5. QED
  BY <1>3, <1>4

LEMMA InvAgentDown ==
    ASSUME TypeOK, BridgeInv, NEW d \in Devices, AgentCrash(d) \/ PollDropped(d)
    PROVE  BridgeInv'
<1>1. agent \in [Devices -> Agent]
  BY Types
<1>2. /\ UNCHANGED <<cmd, wire, runs, outcome>>
      /\ HangUp(d)
      /\ \A e \in Devices \ {d} : agent'[e] = agent[e]
      /\ agent'[d] \in {Stopped, Ready, Exited}
  BY <1>1 DEF AgentCrash, PollDropped, dbVars
<1>3. Quiet
  BY <1>2 DEF Quiet, NoneFresh, Lets, Ready, Exited, Stopped
<1>4. LivePolls'
  <2>1. \A e \in Devices : "live" \in polls'[e] => agent'[e].at = "polling"
    BY <1>2, HangUpKeeps DEF LivePolls, BridgeInv
  <2>2. ASSUME loop'.at \in {"select", "mark"}, loop'.poll = "live"
        PROVE  agent'[loop'.d].at = "polling"
    <3>1. loop.at \in {"select", "mark"} /\ loop.poll = "live" /\ loop.d # d /\ loop'.d = loop.d
      BY <1>2, <2>2, HangUpKeeps
    <3>2. loop.d \in Devices
      BY <3>1, Types, LoopKinds DEF LeaseCall
    <3>3. QED
      BY <1>2, <3>1, <3>2 DEF LivePolls, BridgeInv
  <2>3. QED
    BY <2>1, <2>2 DEF LivePolls
<1>5. RowsUntouched'
  BY <1>2, <1>3, HangUpKeeps, QuietRows
<1>6. HonestPosts' /\ DoneMeansRan'
  BY <1>2, HangUpKeeps DEF HonestPosts, DoneMeansRan, BridgeInv
<1>7. QED
  BY <1>3, <1>4, <1>5, <1>6, QuietStep DEF BridgeInv

LEMMA LoopDevice ==
    ASSUME TypeOK PROVE loop.at \in {"select", "mark"} => loop.d \in Devices
BY Types, LoopKinds DEF LeaseCall

\* An agent that moves on its own, away from any poll.
LEMMA InvAgentAlone ==
    ASSUME TypeOK, BridgeInv, NEW d \in Devices, NEW a,
           agent' = [agent EXCEPT ![d] = a], Lets(d), agent[d].at # "polling",
           UNCHANGED <<cmd, loop, polls, runs, outcome>>,
           \A m \in wire' : m \in wire \/ (m.ok => outcome[m.c] = "ok")
    PROVE  BridgeInv'
<1>1. agent \in [Devices -> Agent]
  BY Types
<1>2. \A e \in Devices \ {d} : agent'[e] = agent[e]
  BY <1>1
<1>3. Quiet
  BY <1>2 DEF Quiet, NoneFresh, Lets
<1>4. LivePolls'
  BY <1>2, LoopDevice DEF LivePolls, BridgeInv
<1>5. RowsUntouched'
  BY <1>3, QuietRows
<1>6. HonestPosts' /\ DoneMeansRan'
  BY DEF HonestPosts, DoneMeansRan, BridgeInv
<1>7. QED
  BY <1>3, <1>4, <1>5, <1>6, QuietStep DEF BridgeInv

LEMMA InvAgentMoves ==
    ASSUME TypeOK, BridgeInv, NEW d \in Devices,
           AgentStart(d) \/ SendResult(d) \/ GiveUp(d)
    PROVE  BridgeInv'
<1>1. agent \in [Devices -> Agent]
  BY Types
<1>2. CASE AgentStart(d)
  <2>1. agent' = [agent EXCEPT ![d] = Ready]
    BY <1>2 DEF AgentStart
  <2>2. Lets(d)
    BY <1>1, <2>1 DEF Lets, Ready, Stopped
  <2>3. QED
    BY <1>2, <2>1, <2>2, InvAgentAlone DEF AgentStart, dbVars
<1>3. CASE SendResult(d)
  <2>1. agent[d] \in BusyAgent
    BY <1>3, BusyAgents DEF SendResult
  <2>2. agent' = [agent EXCEPT ![d] = [agent[d] EXCEPT !.at = "awaiting"]]
    BY <1>3 DEF SendResult
  <2>3. Lets(d)
    BY <1>1, <2>1, <2>2 DEF Lets, BusyAgent
  <2>4. \A m \in wire' : m \in wire \/ (m.ok => outcome[m.c] = "ok")
    BY <1>3 DEF SendResult, HonestAgent, BridgeInv
  <2>5. QED
    BY <1>3, <2>2, <2>3, <2>4, InvAgentAlone DEF SendResult, dbVars
<1>4. CASE GiveUp(d)
  <2>1. agent[d] \in BusyAgent
    BY <1>4, BusyAgents DEF GiveUp
  <2>2. PICK a \in PostFailed(agent[d]) : agent' = [agent EXCEPT ![d] = a]
    BY <1>4 DEF GiveUp
  <2>3. a \in {[agent[d] EXCEPT !.at = "posting", !.ok = FALSE], Ready, Exited}
    BY <2>2 DEF PostFailed
  <2>4. Lets(d)
    BY <1>1, <2>1, <2>2, <2>3 DEF Lets, BusyAgent, Ready, Exited, Stopped
  <2>5. QED
    BY <1>4, <2>2, <2>4, InvAgentAlone DEF GiveUp, dbVars
<1>5. QED
  BY <1>2, <1>3, <1>4

LEMMA InvHandle ==
    ASSUME TypeOK, BridgeInv, NEW d \in Devices, Handle(d) PROVE BridgeInv'
<1>1. agent \in [Devices -> Agent] /\ runs \in [Commands -> Nat] /\ agent[d] \in FreeAgent
  BY Types DEF Handle, Agent, FreeAgent, BusyAgent
<1>2. PICK c \in agent[d].batch :
          LET begun == [agent[d] EXCEPT !.batch = @ \ {c}, !.cur = c]
          IN  \/ /\ runs' = [runs EXCEPT ![c] = @ + 1]
                 /\ agent' = [agent EXCEPT ![d] = [begun EXCEPT !.at = "running"]]
              \/ /\ agent' = [agent EXCEPT ![d] = [begun EXCEPT !.at = "posting"]]
                 /\ runs' = runs
  BY DEF Handle
<1>3. c \in Commands /\ runs[c] = 0
  BY <1>1 DEF FreeAgent, HeldOnce, BridgeInv
<1>4. /\ agent'[d].batch = agent[d].batch \ {c} /\ agent'[d].cur = c /\ ~agent'[d].ok
      /\ agent'[d].at \in {"running", "posting"}
      /\ agent'[d].at = "running" => runs'[c] = 1
      /\ runs'[c] <= 1
      /\ \A e \in Devices \ {d} : agent'[e] = agent[e]
      /\ \A e \in Commands \ {c} : runs'[e] = runs[e]
  <2> DEFINE begun == [agent[d] EXCEPT !.batch = @ \ {c}, !.cur = c]
  <2>1. /\ begun.batch = agent[d].batch \ {c} /\ begun.cur = c /\ begun.ok = FALSE
        /\ \A at : [begun EXCEPT !.at = at].at = at
        /\ \A at : [begun EXCEPT !.at = at].batch = begun.batch
        /\ \A at : [begun EXCEPT !.at = at].cur = begun.cur
        /\ \A at : [begun EXCEPT !.at = at].ok = begun.ok
    BY <1>1 DEF FreeAgent
  <2>2. \/ /\ runs' = [runs EXCEPT ![c] = @ + 1]
           /\ agent' = [agent EXCEPT ![d] = [begun EXCEPT !.at = "running"]]
        \/ /\ agent' = [agent EXCEPT ![d] = [begun EXCEPT !.at = "posting"]]
           /\ runs' = runs
    BY <1>2
  <2> HIDE DEF begun
  <2>3. \E at \in {"running", "posting"} : agent'[d] = [begun EXCEPT !.at = at]
    BY <1>1, <2>2
  <2>4. /\ \A e \in Devices \ {d} : agent'[e] = agent[e]
        /\ \A e \in Commands \ {c} : runs'[e] = runs[e]
        /\ runs'[c] <= 1
    BY <1>1, <1>3, <2>2
  <2>5. agent'[d].at = "running" => runs'[c] = 1
    <3>1. CASE runs' = [runs EXCEPT ![c] = @ + 1]
      BY <1>1, <1>3, <3>1
    <3>2. CASE agent' = [agent EXCEPT ![d] = [begun EXCEPT !.at = "posting"]]
      <4>1. agent'[d] = [begun EXCEPT !.at = "posting"]
        BY <1>1, <3>2
      <4>2. agent'[d].at = "posting"
        BY <2>1, <4>1
      <4>3. QED
        BY <4>2
    <3>3. QED
      BY <2>2, <3>1, <3>2
  <2>6. QED
    BY <2>1, <2>3, <2>4, <2>5
<1>5. UNCHANGED <<cmd, loop, polls, wire, outcome>> /\ agent[d].at = "batch"
  BY DEF Handle, dbVars
<1>6. \A e \in Commands : Untouched(e) => e # c /\ Untouched(e)'
  BY <1>2, <1>4 DEF Untouched
<1>7. UnhandedUntouched'
  BY <1>5, <1>6 DEF UnhandedUntouched, BridgeInv
<1>8. RowsUntouched'
  <2>1. loop.at = "mark" => loop.rows \subseteq Commands
    BY Types, LoopKinds DEF LeaseCall
  <2>2. QED
    BY <1>5, <1>6, <2>1 DEF RowsUntouched, BridgeInv
<1>9. HeldOnce'
  <2>1. \A e \in Devices : c \notin agent'[e].batch /\ (e # d => agent'[e].cur # c)
    BY <1>2, <1>4 DEF HeldOnce, BridgeInv
  <2>2. \A e \in Devices : agent'[e].batch \subseteq agent[e].batch
    BY <1>4
  <2>3. \A e \in Devices : agent[e].batch \subseteq Commands
    BY <1>1 DEF Agent, FreeAgent, BusyAgent
  <2>4. ASSUME NEW e \in Devices, NEW x \in agent'[e].batch
        PROVE  /\ runs'[x] = 0
               /\ \A f \in Devices : agent'[f].cur # x /\ (f # e => x \notin agent'[f].batch)
    <3>1. x # c /\ x \in agent[e].batch /\ x \in Commands
      BY <2>1, <2>2, <2>3, <2>4
    <3>2. QED
      BY <1>4, <2>2, <3>1 DEF HeldOnce, BridgeInv
  <2>5. \A e, f \in Devices : agent'[e].cur = agent'[f].cur /\ agent'[e].cur # None => e = f
    BY <1>4, <2>1 DEF HeldOnce, BridgeInv
  <2>6. QED
    BY <2>4, <2>5 DEF HeldOnce
<1>10. HonestAgent'
  <2>1. ASSUME NEW e \in Devices, e # d
        PROVE  /\ agent'[e].at = "running" =>
                      runs'[agent'[e].cur] = 1 /\ outcome[agent'[e].cur] = "none" /\ ~agent'[e].ok
               /\ agent'[e].ok => outcome[agent'[e].cur] = "ok"
    <3>1. agent'[e] = agent[e] /\ agent[e].cur # c
      BY <1>2, <1>4, <2>1 DEF HeldOnce, BridgeInv
    <3>2. agent[e].at = "running" => agent[e].cur \in Commands
      BY BusyAgents DEF BusyAgent
    <3>3. QED
      BY <1>4, <3>1, <3>2 DEF HonestAgent, BridgeInv
  <2>2. outcome[c] = "none"
    BY <1>3 DEF HonestPosts, BridgeInv
  <2>3. QED
    BY <1>4, <1>5, <2>1, <2>2 DEF HonestAgent
<1>11. HonestPosts' /\ AtMostOnce'
  BY <1>3, <1>4, <1>5 DEF HonestPosts, AtMostOnce, BridgeInv
<1>12. LivePolls' /\ DoneMeansRan'
  BY <1>4, <1>5, LoopDevice DEF LivePolls, DoneMeansRan, BridgeInv
<1>13. QED
  BY <1>7, <1>8, <1>9, <1>10, <1>11, <1>12 DEF BridgeInv

LEMMA InvTurnEnds ==
    ASSUME TypeOK, BridgeInv, NEW d \in Devices, TurnEnds(d) PROVE BridgeInv'
<1> DEFINE c == agent[d].cur
<1>1. agent \in [Devices -> Agent] /\ agent[d] \in BusyAgent
      /\ outcome \in [Commands -> {"none", "ok", "error"}]
  BY Types, BusyAgents DEF TurnEnds
<1>2. c \in Commands /\ c # None /\ runs[c] = 1 /\ outcome[c] = "none"
  BY <1>1, NoneIsNoCommand DEF BusyAgent, TurnEnds, HonestAgent, BridgeInv
<1>3. /\ agent'[d].batch = agent[d].batch /\ agent'[d].cur = c /\ agent'[d].at = "posting"
      /\ agent'[d].ok => outcome'[c] = "ok"
      /\ \A e \in Devices \ {d} : agent'[e] = agent[e]
      /\ \A e \in Commands \ {c} : outcome'[e] = outcome[e]
  BY <1>1, <1>2 DEF TurnEnds, BusyAgent
<1>4. UNCHANGED <<cmd, loop, polls, wire, runs>> /\ agent[d].at = "running"
  BY DEF TurnEnds, dbVars
<1>5. \A e \in Devices : agent'[e].batch = agent[e].batch /\ agent'[e].cur = agent[e].cur
  BY <1>3
<1>6. UnhandedUntouched' /\ HeldOnce' /\ AtMostOnce'
  BY <1>4, <1>5 DEF UnhandedUntouched, Untouched, HeldOnce, AtMostOnce, BridgeInv
<1>7. RowsUntouched'
  BY <1>4, <1>5 DEF RowsUntouched, Untouched, BridgeInv
<1>8. HonestAgent'
  <2>1. ASSUME NEW e \in Devices, e # d, agent[e].at = "running" \/ agent[e].ok
        PROVE  agent[e].cur \in Commands \ {c}
    <3>1. agent[e] \in BusyAgent
      BY <1>1, <2>1, BusyAgents DEF Agent, FreeAgent
    <3>2. QED
      BY <1>2, <2>1, <3>1 DEF BusyAgent, HeldOnce, BridgeInv
  <2>2. QED
    BY <1>3, <1>4, <2>1 DEF HonestAgent, BridgeInv
<1>9. HonestPosts'
  <2>1. \A m \in wire : m.c \in Commands
    BY Types DEF Post
  <2>2. loop.at = "write" => loop.post.c \in Commands
    BY Types, LoopKinds DEF CompleteCall, Post
  <2>3. QED
    BY <1>2, <1>3, <1>4, <2>1, <2>2 DEF HonestPosts, BridgeInv
<1>10. LivePolls' /\ DoneMeansRan'
  BY <1>2, <1>3, <1>4, LoopDevice DEF LivePolls, DoneMeansRan, BridgeInv
<1>11. QED
  BY <1>6, <1>7, <1>8, <1>9, <1>10 DEF BridgeInv

LEMMA InvLosePost ==
    ASSUME TypeOK, BridgeInv, NEW m \in wire, LosePost(m) PROVE BridgeInv'
<1>1. UNCHANGED <<cmd, loop, polls, agent, runs, outcome>> /\ wire' \subseteq wire
  BY DEF LosePost, dbVars, agentVars
<1>2. Quiet
  BY <1>1 DEF Quiet, NoneFresh, Lets
<1>3. RowsUntouched'
  BY <1>1, <1>2, QuietRows
<1>4. LivePolls' /\ HonestPosts' /\ DoneMeansRan'
  BY <1>1 DEF LivePolls, HonestPosts, DoneMeansRan, BridgeInv
<1>5. QED
  BY <1>2, <1>3, <1>4, QuietStep DEF BridgeInv

LEMMA InvInit == Init => BridgeInv
<1> SUFFICES ASSUME Init PROVE BridgeInv
  OBVIOUS
<1>1. /\ \A c \in Commands : cmd[c].status = "none" /\ runs[c] = 0 /\ outcome[c] = "none"
      /\ \A d \in Devices : agent[d] = Stopped /\ polls[d] = {}
      /\ loop.at = "idle" /\ wire = {}
  BY DEF Init, NoRow, IdleLoop
<1>2. Stopped.at = "down" /\ Stopped.batch = {} /\ Stopped.cur = None /\ Stopped.ok = FALSE
  BY DEF Stopped
<1>3. LivePolls /\ RowsUntouched /\ AtMostOnce /\ DoneMeansRan
  BY <1>1 DEF LivePolls, RowsUntouched, AtMostOnce, DoneMeansRan
<1>4. UnhandedUntouched /\ HeldOnce
  BY <1>1, <1>2, NoneIsNoCommand DEF UnhandedUntouched, Untouched, HeldOnce
<1>5. HonestAgent /\ HonestPosts
  BY <1>1, <1>2 DEF HonestAgent, HonestPosts
<1>6. QED
  BY <1>3, <1>4, <1>5 DEF BridgeInv

LEMMA InvStep ==
    ASSUME TypeOK, BridgeInv, [Next]_vars PROVE BridgeInv'
<1>1. CASE UNCHANGED vars
  <2>1. UNCHANGED <<cmd, loop, polls, wire, agentVars>>
    BY <1>1 DEF vars, dbVars
  <2>2. QED
    BY <2>1, QueueStep
<1>2. ASSUME NEW t \in Threads,
             \/ EnqueueInsert(t) \/ Wait(t)
             \/ \E c \in Commands, d \in Devices, w \in Workspaces : EnqueueCheck(t, c, d, w)
      PROVE  BridgeInv'
  BY <1>2, InvThreads
<1>3. CASE \/ \E c \in Commands : ReadStatus(c) \/ GrowStale(c)
           \/ \E d \in Devices : RevokeDevice(d)
           \/ \E d \in Devices, w \in Workspaces : SetWorkspaceEnabled(d, w)
  BY <1>3, InvTable
<1>4. ASSUME NEW d \in Devices,
             \/ PollArrives(d) \/ AgentStart(d) \/ AgentCrash(d) \/ PollDropped(d)
             \/ Handle(d) \/ TurnEnds(d) \/ SendResult(d) \/ GiveUp(d)
      PROVE  BridgeInv'
  BY <1>4, InvPollArrives, InvAgentMoves, InvAgentDown, InvHandle, InvTurnEnds
<1>5. ASSUME NEW d \in Devices, NEW p \in PollKinds, LeaseExpire(d, p) PROVE BridgeInv'
  BY <1>5, InvLeaseExpire
<1>6. CASE LeaseSelect \/ LeaseMark \/ CompleteWrite
  BY <1>6, InvLeaseSelect, InvLeaseMark, InvCompleteWrite
<1>7. ASSUME NEW m \in wire, CompleteRead(m) \/ LosePost(m) PROVE BridgeInv'
  BY <1>7, InvCompleteRead, InvLosePost
<1>8. QED
  BY <1>1, <1>2, <1>3, <1>4, <1>5, <1>6, <1>7 DEF Next

\* TypeOK and BridgeInv are inductive together: the type of an agent that
\* receives a batch rests on LivePolls.
THEOREM Inductive == Spec => [](TypeOK /\ BridgeInv)
<1>1. Init => TypeOK /\ BridgeInv
  BY TypeInit, InvInit
<1>2. TypeOK /\ BridgeInv /\ [Next]_vars => (TypeOK /\ BridgeInv)'
  <2>1. BridgeInv => LivePolls
    BY DEF BridgeInv
  <2>2. QED
    BY <2>1, TypeStep, InvStep
<1>3. QED
  BY <1>1, <1>2, PTL DEF Spec

\* Type correctness of the queue, the event loop, the threads and the agents.
THEOREM TypeCorrect == Spec => []TypeOK
BY Inductive, PTL

\* What the queue, a lease in progress, the batches, the wire and the agents
\* know of a command agrees in every behaviour (lease, complete, run, handle).
THEOREM BridgeHolds == Spec => []BridgeInv
BY Inductive, PTL

\* No command is started twice, for any number of devices, threads, polls and
\* lost answers (lease and complete in windows_bridge.py, handle in the agent).
THEOREM StartedAtMostOnce == Spec => []AtMostOnce
<1>1. TypeOK /\ BridgeInv => AtMostOnce
  BY DEF BridgeInv
<1>2. QED
  BY <1>1, Inductive, PTL

\* A command recorded as done did run and did succeed.
THEOREM SuccessIsReal == Spec => []DoneMeansRan
<1>1. TypeOK /\ BridgeInv => DoneMeansRan
  BY DEF BridgeInv
<1>2. QED
  BY <1>1, Inductive, PTL

LEMMA AnswerStep ==
    ASSUME TypeOK, BridgeInv, [Next]_vars, NEW c \in Commands, cmd[c].status \in Answered
    PROVE  cmd'[c].status = cmd[c].status
<1>1. cmd \in [Commands -> Row] /\ thread \in [Threads -> Thread]
  BY Types
<1>2. /\ cmd[c].status \notin Open /\ cmd[c].status # "none" /\ cmd[c].status # "pending"
  BY DEF Answered, Open
<1>3. CASE UNCHANGED cmd
  BY <1>3
<1>4. ASSUME NEW t \in Threads, EnqueueInsert(t) PROVE cmd'[c].status = cmd[c].status
  BY <1>1, <1>2, <1>4 DEF EnqueueInsert
<1>5. ASSUME NEW t \in Threads, Wait(t) PROVE cmd'[c].status = cmd[c].status
  <2>1. thread[t].c \in Commands
    BY <1>1, <1>5 DEF Wait, Thread, IdleThread, Waiting, Checked
  <2>2. QED
    BY <1>1, <1>2, <1>5, <2>1, GetCommandStatus DEF Wait
<1>6. ASSUME NEW e \in Commands, ReadStatus(e) \/ GrowStale(e)
      PROVE  cmd'[c].status = cmd[c].status
  BY <1>1, <1>2, <1>6, GetCommandStatus DEF ReadStatus, GrowStale, Row
<1>7. CASE \/ \E d \in Devices : RevokeDevice(d)
           \/ \E d \in Devices, p \in PollKinds : LeaseExpire(d, p)
  BY <1>1, <1>2, <1>7 DEF RevokeDevice, LeaseExpire, Overdue
<1>8. CASE LeaseMark
  BY <1>1, <1>2, <1>8 DEF LeaseMark
<1>9. CASE CompleteWrite
  <2>1. c # loop.post.c
    BY <1>9 DEF CompleteWrite, HonestPosts, BridgeInv
  <2>2. QED
    BY <1>1, <1>9, <2>1 DEF CompleteWrite
<1>10. QED
  <2>1. CASE UNCHANGED vars
    BY <1>3, <2>1 DEF vars, dbVars
  <2>2. CASE Next
    <3>1. ASSUME NEW t \in Threads, NEW e \in Commands, NEW d \in Devices,
                 NEW w \in Workspaces, EnqueueCheck(t, e, d, w)
          PROVE  UNCHANGED cmd
      BY <3>1 DEF EnqueueCheck
    <3>2. ASSUME NEW d \in Devices,
                 \/ PollArrives(d) \/ AgentStart(d) \/ AgentCrash(d) \/ PollDropped(d)
                 \/ Handle(d) \/ TurnEnds(d) \/ SendResult(d) \/ GiveUp(d)
          PROVE  UNCHANGED cmd
      BY <3>2 DEF PollArrives, AgentStart, AgentCrash, PollDropped, Handle, TurnEnds,
                  SendResult, GiveUp, dbVars
    <3>3. ASSUME NEW d \in Devices, NEW w \in Workspaces, SetWorkspaceEnabled(d, w)
          PROVE  UNCHANGED cmd
      BY <3>3 DEF SetWorkspaceEnabled
    <3>4. ASSUME LeaseSelect \/ \E m \in wire : CompleteRead(m) \/ LosePost(m)
          PROVE  UNCHANGED cmd
      BY <3>4 DEF LeaseSelect, CompleteRead, LosePost, dbVars
    <3>5. QED
      BY <1>3, <1>4, <1>5, <1>6, <1>7, <1>8, <1>9, <2>2, <3>1, <3>2, <3>3, <3>4 DEF Next
  <2>3. QED
    BY <2>1, <2>2

\* The first answer recorded for a command is never overwritten, by late
\* reports, expiry or revocation (complete, get_command, revoke_device).
THEOREM FirstAnswerStands == Spec => AnswerIsFinal
<1>1. TypeOK /\ BridgeInv /\ [Next]_vars
      => [\A c \in Commands : cmd[c].status \in Answered =>
              cmd'[c].status = cmd[c].status]_vars
  BY AnswerStep
<1>2. QED
  BY <1>1, Inductive, PTL DEF Spec, AnswerIsFinal

----------------------------------------------------------------------------
(* What is posted was handed out: a report on the wire, or being written,    *)
(* is about a row that is past "pending".                                     *)

PostsHanded ==
    /\ \A m \in wire : cmd[m.c].status \notin Fresh
    /\ loop.at = "write" => cmd[loop.post.c].status \notin Fresh

\* Expiry touches open rows, the insert only a free id, a lease only pending
\* rows, an answer whatever row it names.
LEMMA RowsNotRenewed == ASSUME TypeOK, [Next]_vars PROVE NoneFresh
<1>1. cmd \in [Commands -> Row] /\ thread \in [Threads -> Thread]
  BY Types
<1>2. CASE UNCHANGED cmd
  BY <1>2 DEF NoneFresh
<1>3. ASSUME NEW t \in Threads, EnqueueInsert(t) PROVE NoneFresh
  <2>1. \A c \in Commands : \/ cmd'[c].status = cmd[c].status
                            \/ cmd[c].status = "none" /\ cmd'[c].status = "pending"
    BY <1>1, <1>3 DEF EnqueueInsert
  <2>2. QED
    BY <2>1 DEF NoneFresh, Fresh
<1>4. ASSUME NEW t \in Threads, Wait(t) PROVE NoneFresh
  <2>1. thread[t].c \in Commands
    BY <1>1, <1>4 DEF Wait, Thread, IdleThread, Waiting, Checked
  <2>2. QED
    BY <1>1, <1>4, <2>1, GetCommandStatus DEF Wait, NoneFresh, Fresh
<1>5. ASSUME NEW e \in Commands, ReadStatus(e) \/ GrowStale(e) PROVE NoneFresh
  <2>1. \A c \in Commands : cmd'[c].status \in {cmd[c].status, "expired"}
    BY <1>1, <1>5, GetCommandStatus DEF ReadStatus, GrowStale, Row
  <2>2. QED
    BY <2>1 DEF NoneFresh, Fresh
<1>6. CASE \/ \E d \in Devices : RevokeDevice(d)
           \/ \E d \in Devices, p \in PollKinds : LeaseExpire(d, p)
  <2>1. \A c \in Commands : cmd'[c].status \in {cmd[c].status, "expired"}
    BY <1>1, <1>6 DEF RevokeDevice, LeaseExpire, Row
  <2>2. QED
    BY <2>1 DEF NoneFresh, Fresh
<1>7. CASE LeaseMark
  <2>1. \A c \in Commands : cmd'[c].status \in {cmd[c].status, "leased"}
    BY <1>1, <1>7 DEF LeaseMark, Row
  <2>2. QED
    BY <2>1 DEF NoneFresh, Fresh
<1>8. CASE CompleteWrite
  <2>1. \A c \in Commands : cmd'[c].status \in {cmd[c].status, "done", "failed"}
    BY <1>1, <1>8 DEF CompleteWrite, Row
  <2>2. QED
    BY <2>1 DEF NoneFresh, Fresh
<1>9. ASSUME NEW t \in Threads, NEW e \in Commands, NEW d \in Devices,
             NEW w \in Workspaces, EnqueueCheck(t, e, d, w)
      PROVE  UNCHANGED cmd
  BY <1>9 DEF EnqueueCheck
<1>10. ASSUME NEW d \in Devices,
              \/ PollArrives(d) \/ AgentStart(d) \/ AgentCrash(d) \/ PollDropped(d)
              \/ Handle(d) \/ TurnEnds(d) \/ SendResult(d) \/ GiveUp(d)
       PROVE  UNCHANGED cmd
  BY <1>10 DEF PollArrives, AgentStart, AgentCrash, PollDropped, Handle, TurnEnds,
               SendResult, GiveUp, dbVars
<1>11. ASSUME NEW d \in Devices, NEW w \in Workspaces, SetWorkspaceEnabled(d, w)
       PROVE  UNCHANGED cmd
  BY <1>11 DEF SetWorkspaceEnabled
<1>12. ASSUME LeaseSelect \/ \E m \in wire : CompleteRead(m) \/ LosePost(m)
       PROVE  UNCHANGED cmd
  BY <1>12 DEF LeaseSelect, CompleteRead, LosePost, dbVars
<1>13. CASE UNCHANGED vars
  BY <1>2, <1>13 DEF vars, dbVars
<1>14. QED
  BY <1>2, <1>3, <1>4, <1>5, <1>6, <1>7, <1>8, <1>9, <1>10, <1>11, <1>12, <1>13 DEF Next

\* Where a post and a write come from.
LEMMA PostsFrom ==
    ASSUME TypeOK, [Next]_vars
    PROVE  /\ \A m \in wire' : \/ m \in wire
                               \/ \E d \in Devices : /\ agent[d].at = "posting"
                                                     /\ m.c = agent[d].cur
           /\ loop'.at = "write" => \/ loop' = loop
                                    \/ loop'.post \in wire
<1> DEFINE A == \A m \in wire' : \/ m \in wire
                                 \/ \E d \in Devices : /\ agent[d].at = "posting"
                                                       /\ m.c = agent[d].cur
           B == loop'.at = "write" => loop' = loop \/ loop'.post \in wire
<1>1. CASE UNCHANGED <<wire, loop>>
  BY <1>1
<1>2. ASSUME NEW t \in Threads,
             \/ EnqueueInsert(t) \/ Wait(t)
             \/ \E c \in Commands, d \in Devices, w \in Workspaces : EnqueueCheck(t, c, d, w)
      PROVE  UNCHANGED <<wire, loop>>
  BY <1>2 DEF EnqueueInsert, Wait, EnqueueCheck
<1>3. ASSUME \/ \E c \in Commands : ReadStatus(c) \/ GrowStale(c)
             \/ \E d \in Devices : RevokeDevice(d) \/ PollArrives(d)
             \/ \E d \in Devices, w \in Workspaces : SetWorkspaceEnabled(d, w)
      PROVE  UNCHANGED <<wire, loop>>
  BY <1>3 DEF ReadStatus, GrowStale, RevokeDevice, SetWorkspaceEnabled, PollArrives
<1>4. ASSUME NEW d \in Devices, AgentStart(d) \/ Handle(d) \/ TurnEnds(d) \/ GiveUp(d)
      PROVE  UNCHANGED <<wire, loop>>
  BY <1>4 DEF AgentStart, Handle, TurnEnds, GiveUp
<1>5. ASSUME NEW d \in Devices, SendResult(d) PROVE A /\ B
  BY <1>5 DEF SendResult
<1>6. ASSUME NEW d \in Devices, AgentCrash(d) \/ PollDropped(d) PROVE A /\ B
  <2>1. loop.at \in {"select", "mark"} => loop'.at = loop.at
    BY <1>6, Types, LoopKinds DEF AgentCrash, PollDropped, HangUp, LeaseCall
  <2>2. loop.at \notin {"select", "mark"} => loop' = loop
    BY <1>6 DEF AgentCrash, PollDropped, HangUp
  <2>3. wire' = wire
    BY <1>6 DEF AgentCrash, PollDropped
  <2>4. QED
    BY <2>1, <2>2, <2>3
<1>7. ASSUME NEW d \in Devices, NEW p \in PollKinds, LeaseExpire(d, p) PROVE A /\ B
  BY <1>7 DEF LeaseExpire
<1>8. CASE LeaseSelect
  <2>1. loop \in LeaseCall
    BY <1>8, Types, LoopKinds DEF LeaseSelect
  <2>2. [loop EXCEPT !.at = "mark", !.rows = Oldest(Pending(loop.d))].at = "mark"
    BY <2>1 DEF LeaseCall
  <2>3. loop'.at # "write"
    <3>1. loop' \in {IdleLoop, [loop EXCEPT !.at = "mark", !.rows = Oldest(Pending(loop.d))]}
      BY <1>8 DEF LeaseSelect
    <3>2. IdleLoop.at = "idle"
      BY DEF IdleLoop
    <3>3. QED
      BY <2>2, <3>1, <3>2
  <2>4. wire' = wire
    BY <1>8 DEF LeaseSelect
  <2>5. QED
    BY <2>3, <2>4
<1>9. CASE LeaseMark \/ CompleteWrite
  BY <1>9 DEF LeaseMark, CompleteWrite, IdleLoop
<1>10. ASSUME NEW m \in wire, CompleteRead(m) \/ LosePost(m) PROVE A /\ B
  BY <1>10 DEF CompleteRead, LosePost
<1>11. CASE UNCHANGED vars
  BY <1>11 DEF vars
<1>12. QED
  BY <1>1, <1>2, <1>3, <1>4, <1>5, <1>6, <1>7, <1>8, <1>9, <1>10, <1>11 DEF Next

LEMMA PostsStep ==
    ASSUME TypeOK, BridgeInv, PostsHanded, [Next]_vars PROVE PostsHanded'
<1>1. NoneFresh
  BY RowsNotRenewed
<1>2. ASSUME NEW d \in Devices, agent[d].at = "posting"
      PROVE  agent[d].cur \in Commands /\ cmd[agent[d].cur].status \notin Fresh
  <2>1. agent[d].cur \in Commands
    BY <1>2, BusyAgents DEF BusyAgent
  <2>2. ~Untouched(agent[d].cur)
    BY DEF Untouched
  <2>3. QED
    BY <2>1, <2>2 DEF UnhandedUntouched, Fresh, BridgeInv
<1>3. ASSUME NEW m \in wire' PROVE cmd'[m.c].status \notin Fresh
  <2>1. m.c \in Commands /\ cmd[m.c].status \notin Fresh
    BY <1>2, <1>3, PostsFrom, Types DEF PostsHanded, Post
  <2>2. QED
    BY <1>1, <2>1 DEF NoneFresh
<1>4. ASSUME loop'.at = "write" PROVE cmd'[loop'.post.c].status \notin Fresh
  <2>1. loop'.post.c \in Commands /\ cmd[loop'.post.c].status \notin Fresh
    <3>1. CASE loop' = loop
      BY <1>4, <3>1, Types, LoopKinds DEF PostsHanded, CompleteCall, Post
    <3>2. CASE loop'.post \in wire
      BY <3>2, Types DEF PostsHanded, Post
    <3>3. QED
      BY <1>4, <3>1, <3>2, PostsFrom
  <2>2. QED
    BY <1>1, <2>1 DEF NoneFresh
<1>5. QED
  BY <1>3, <1>4 DEF PostsHanded

----------------------------------------------------------------------------
(* Order: the commands one thread queues to a device start in the order they *)
(* were queued in.                                                            *)

\* With two threads the rank of the second to check may be inserted first.
OneThread == \A s, t \in Threads : s = t

\* e was queued after c, to the same device.
Behind(c, e) ==
    /\ cmd[c].status # "none" /\ cmd[e].status # "none"
    /\ cmd[c].device = cmd[e].device /\ cmd[c].rank < cmd[e].rank

\* The row about to be inserted is the newest.
NewestLast ==
    \A t \in Threads : thread[t].at = "checked" =>
        \A c \in Commands : cmd[c].status # "none" => cmd[c].rank < thread[t].rank

\* A device holds, and is about to get, its own commands.
OwnBatches ==
    /\ \A d \in Devices : \A c \in agent[d].batch : cmd[c].device = d
    /\ loop.at = "mark" => \A c \in loop.rows : cmd[c].device = loop.d

\* While a row is pending nothing queued behind it was handed out,
PendingFirst ==
    \A c, e \in Commands : Behind(c, e) /\ cmd[c].status = "pending" => Untouched(e)

\* a lease takes a row only with those before it,
RowsFirst ==
    loop.at = "mark" =>
        \A c, e \in Commands : Behind(c, e) =>
            /\ e \in loop.rows /\ cmd[c].status = "pending" => c \in loop.rows
            /\ c \in loop.rows => Untouched(e)

\* and while one is in a batch nothing behind it has started.
BatchFirst ==
    \A d \in Devices : \A c \in agent[d].batch :
        \A e \in Commands : Behind(c, e) => runs[e] = 0

OrderInv == NewestLast /\ OwnBatches /\ PendingFirst /\ RowsFirst /\ BatchFirst

\* Rows keep their device and rank, and only a new one becomes pending.
RowsKept ==
    \A c \in Commands :
        /\ cmd'[c].device = cmd[c].device /\ cmd'[c].rank = cmd[c].rank
        /\ cmd'[c].status = "none" <=> cmd[c].status = "none"
        /\ cmd'[c].status = "pending" => cmd[c].status = "pending"

\* No turn starts and agents only let go of what they hold.
Looser ==
    /\ runs' = runs
    /\ \A d \in Devices : /\ agent'[d].batch \subseteq agent[d].batch
                          /\ agent'[d].cur \in {agent[d].cur, None}

\* A lease in progress is the one there was.
SameLease ==
    loop'.at = "mark" => loop.at = "mark" /\ loop'.rows = loop.rows /\ loop'.d = loop.d

\* A thread that has checked is the one that had, or it takes the newest rank.
SameThreads ==
    \A t \in Threads : thread'[t].at = "checked" =>
        \/ thread'[t] = thread[t]
        \/ \A c \in Commands : cmd[c].status # "none" => cmd[c].rank < thread'[t].rank

LEMMA RowsAreCommands ==
    ASSUME TypeOK
    PROVE  /\ loop.at = "mark" => loop.rows \subseteq Commands /\ loop.d \in Devices
           /\ \A d \in Devices : agent[d].batch \subseteq Commands
           /\ \A c \in Commands : cmd[c].rank \in Nat
<1>1. loop.at = "mark" => loop.rows \subseteq Commands /\ loop.d \in Devices
  BY Types, LoopKinds DEF LeaseCall
<1>2. \A d \in Devices : agent[d].batch \subseteq Commands
  BY Types DEF Agent, FreeAgent, BusyAgent
<1>3. \A c \in Commands : cmd[c].rank \in Nat
  BY Types DEF Row
<1>4. QED
  BY <1>1, <1>2, <1>3

LEMMA BehindKept ==
    ASSUME RowsKept, NEW c \in Commands, NEW e \in Commands
    PROVE  Behind(c, e)' <=> Behind(c, e)
BY DEF RowsKept, Behind

LEMMA LooserUntouched ==
    ASSUME Looser, NEW c \in Commands, Untouched(c) PROVE Untouched(c)'
BY NoneIsNoCommand DEF Looser, Untouched

\* Most steps leave the order as it is.
LEMMA OrderQuiet ==
    ASSUME TypeOK, BridgeInv, OrderInv, RowsKept, Looser, SameLease, SameThreads
    PROVE  OrderInv'
<1>1. NewestLast'
  <2> SUFFICES ASSUME NEW t \in Threads, thread'[t].at = "checked",
                      NEW c \in Commands, cmd'[c].status # "none"
               PROVE  cmd'[c].rank < thread'[t].rank
    BY DEF NewestLast
  <2>1. cmd[c].status # "none" /\ cmd'[c].rank = cmd[c].rank
    BY DEF RowsKept
  <2>2. QED
    BY <2>1 DEF SameThreads, NewestLast, OrderInv
<1>2. OwnBatches'
  <2>1. ASSUME NEW d \in Devices, NEW c \in agent'[d].batch PROVE cmd'[c].device = d
    <3>1. c \in agent[d].batch /\ c \in Commands
      BY RowsAreCommands DEF Looser
    <3>2. QED
      BY <3>1 DEF RowsKept, OwnBatches, OrderInv
  <2>2. ASSUME loop'.at = "mark", NEW c \in loop'.rows PROVE cmd'[c].device = loop'.d
    <3>1. loop.at = "mark" /\ c \in loop.rows /\ c \in Commands /\ loop'.d = loop.d
      BY <2>2, RowsAreCommands DEF SameLease
    <3>2. QED
      BY <3>1 DEF RowsKept, OwnBatches, OrderInv
  <2>3. QED
    BY <2>1, <2>2 DEF OwnBatches
<1>3. PendingFirst'
  <2> SUFFICES ASSUME NEW c \in Commands, NEW e \in Commands, Behind(c, e)',
                      cmd'[c].status = "pending"
               PROVE  Untouched(e)'
    BY DEF PendingFirst
  <2>1. Behind(c, e) /\ cmd[c].status = "pending"
    BY BehindKept DEF RowsKept
  <2>2. Untouched(e)
    BY <2>1 DEF PendingFirst, OrderInv
  <2>3. QED
    BY <2>2, LooserUntouched
<1>4. RowsFirst'
  <2> SUFFICES ASSUME loop'.at = "mark", NEW c \in Commands, NEW e \in Commands, Behind(c, e)'
               PROVE  /\ e \in loop'.rows /\ cmd'[c].status = "pending" => c \in loop'.rows
                      /\ c \in loop'.rows => Untouched(e)'
    BY DEF RowsFirst
  <2>1. loop.at = "mark" /\ loop'.rows = loop.rows /\ Behind(c, e)
    BY BehindKept DEF SameLease
  <2>2. e \in loop.rows /\ cmd[c].status = "pending" => c \in loop.rows
    BY <2>1 DEF RowsFirst, OrderInv
  <2>3. c \in loop.rows => Untouched(e)
    BY <2>1 DEF RowsFirst, OrderInv
  <2>4. cmd'[c].status = "pending" => cmd[c].status = "pending"
    BY DEF RowsKept
  <2>5. Untouched(e) => Untouched(e)'
    BY LooserUntouched
  <2>6. QED
    BY <2>1, <2>2, <2>3, <2>4, <2>5
<1>5. BatchFirst'
  <2> SUFFICES ASSUME NEW d \in Devices, NEW c \in agent'[d].batch, NEW e \in Commands,
                      Behind(c, e)'
               PROVE  runs'[e] = 0
    BY DEF BatchFirst
  <2>1. c \in agent[d].batch /\ c \in Commands
    BY RowsAreCommands DEF Looser
  <2>2. Behind(c, e)
    BY <2>1, BehindKept
  <2>3. QED
    BY <2>1, <2>2 DEF Looser, BatchFirst, OrderInv
<1>6. QED
  BY <1>1, <1>2, <1>3, <1>4, <1>5 DEF OrderInv

LEMMA ExpiredRowsKept ==
    ASSUME cmd \in [Commands -> Row], NEW S \in SUBSET Commands,
           \A c \in S : cmd[c].status \in Open,
           \A c \in Commands :
               cmd'[c] = IF c \in S THEN [cmd[c] EXCEPT !.status = "expired"] ELSE cmd[c]
    PROVE  RowsKept
BY DEF RowsKept, Open, Row

LEMMA GetCommandKeeps ==
    ASSUME cmd \in [Commands -> Row], NEW c \in Commands, GetCommand(c)
    PROVE  RowsKept
<1>1. \A e \in Commands :
          cmd'[e] = IF e \in {x \in {c} : Overdue(x)}
                    THEN [cmd[e] EXCEPT !.status = "expired"] ELSE cmd[e]
  BY DEF GetCommand
<1>2. \A e \in {x \in {c} : Overdue(x)} : cmd[e].status \in Open
  BY DEF Overdue
<1>3. QED
  <2> DEFINE S == {x \in {c} : Overdue(x)}
  <2>1. S \in SUBSET Commands
    OBVIOUS
  <2> HIDE DEF S
  <2>2. QED
    BY <1>1, <1>2, <2>1, ExpiredRowsKept DEF S

LEMMA StillRows == ASSUME UNCHANGED cmd PROVE RowsKept
BY DEF RowsKept

LEMMA StillAgents == ASSUME UNCHANGED <<agent, runs>> PROVE Looser
BY DEF Looser

LEMMA StillThreads == ASSUME UNCHANGED thread PROVE SameThreads
BY DEF SameThreads

LEMMA StillLease == ASSUME UNCHANGED loop PROVE SameLease
BY DEF SameLease

LEMMA LetsLooser ==
    ASSUME UNCHANGED runs, \A d \in Devices : Lets(d) PROVE Looser
BY DEF Looser, Lets

\* The agent of one device moves and the others stay.
LEMMA OneLooser ==
    ASSUME agent \in [Devices -> Agent], NEW d \in Devices, UNCHANGED runs,
           agent'[d].batch \subseteq agent[d].batch,
           agent'[d].cur \in {agent[d].cur, None},
           \A e \in Devices \ {d} : agent'[e] = agent[e]
    PROVE  Looser
BY DEF Looser

LEMMA OrderCheck ==
    ASSUME TypeOK, BridgeInv, OrderInv, NEW t \in Threads, NEW c \in Commands,
           NEW d \in Devices, NEW w \in Workspaces, EnqueueCheck(t, c, d, w)
    PROVE  OrderInv'
<1>1. thread \in [Threads -> Thread] /\ UNCHANGED <<cmd, agent, runs, loop>>
  BY Types DEF EnqueueCheck, agentVars
<1>2. CASE AfterEnqueue(t, c)
  <2>1. \A s \in Threads : thread'[s] = thread[s] \/ thread'[s].at # "checked"
    BY <1>1, <1>2 DEF AfterEnqueue, IdleThread
  <2>2. SameThreads
    BY <2>1 DEF SameThreads
  <2>3. QED
    BY <1>1, <2>2, StillRows, StillAgents, StillLease, OrderQuiet
<1>3. ASSUME NEW r \in NextRank,
             thread' = [thread EXCEPT ![t] =
                 [at |-> "checked", c |-> c, d |-> d, w |-> w, rank |-> r]]
      PROVE  OrderInv'
  <2>1. \A e \in Commands : cmd[e].status # "none" => cmd[e].rank < r
    BY <1>3 DEF NextRank, Ranks
  <2>2. thread'[t].rank = r /\ \A s \in Threads \ {t} : thread'[s] = thread[s]
    BY <1>1, <1>3
  <2>3. SameThreads
    BY <2>1, <2>2 DEF SameThreads
  <2>4. QED
    BY <1>1, <2>3, StillRows, StillAgents, StillLease, OrderQuiet
<1>4. QED
  BY <1>2, <1>3 DEF EnqueueCheck

LEMMA OrderWait ==
    ASSUME TypeOK, BridgeInv, OrderInv, NEW t \in Threads, Wait(t) PROVE OrderInv'
<1>1. cmd \in [Commands -> Row] /\ thread \in [Threads -> Thread]
  BY Types
<1>2. thread[t].c \in Commands
  BY <1>1 DEF Wait, Thread, IdleThread, Waiting, Checked
<1>3. RowsKept
  BY <1>1, <1>2, GetCommandKeeps DEF Wait
<1>4. \A s \in Threads : thread'[s] = thread[s] \/ thread'[s].at # "checked"
  BY <1>1 DEF Wait, IdleThread
<1>5. SameThreads
  BY <1>4 DEF SameThreads
<1>6. UNCHANGED <<agent, runs, loop>>
  BY DEF Wait, agentVars
<1>7. QED
  BY <1>3, <1>5, <1>6, StillAgents, StillLease, OrderQuiet

\* The reads, revoke and the workspace switch.
LEMMA OrderTable ==
    ASSUME TypeOK, BridgeInv, OrderInv,
           \/ \E c \in Commands : ReadStatus(c) \/ GrowStale(c)
           \/ \E d \in Devices : RevokeDevice(d)
           \/ \E d \in Devices, w \in Workspaces : SetWorkspaceEnabled(d, w)
    PROVE  OrderInv'
<1>1. cmd \in [Commands -> Row]
  BY Types
<1>2. UNCHANGED <<thread, loop, agent, runs>>
  BY DEF ReadStatus, GrowStale, RevokeDevice, SetWorkspaceEnabled, agentVars
<1>3. RowsKept
  <2>1. ASSUME NEW c \in Commands, ReadStatus(c) PROVE RowsKept
    BY <1>1, <2>1, GetCommandKeeps DEF ReadStatus
  <2>2. ASSUME NEW c \in Commands, GrowStale(c) PROVE RowsKept
    BY <1>1, <2>2 DEF GrowStale, RowsKept, Row
  <2>3. ASSUME NEW d \in Devices, RevokeDevice(d) PROVE RowsKept
    <3> DEFINE S == {c \in Commands : cmd[c].device = d /\ cmd[c].status \in Open}
    <3>1. /\ S \in SUBSET Commands
          /\ \A c \in S : cmd[c].status \in Open
          /\ \A c \in Commands :
                cmd'[c] = IF c \in S THEN [cmd[c] EXCEPT !.status = "expired"] ELSE cmd[c]
      BY <2>3 DEF RevokeDevice
    <3> HIDE DEF S
    <3>2. QED
      BY <1>1, <3>1, ExpiredRowsKept
  <2>4. ASSUME NEW d \in Devices, NEW w \in Workspaces, SetWorkspaceEnabled(d, w)
        PROVE  RowsKept
    BY <2>4, StillRows DEF SetWorkspaceEnabled
  <2>5. QED
    BY <2>1, <2>2, <2>3, <2>4
<1>4. QED
  BY <1>2, <1>3, StillThreads, StillAgents, StillLease, OrderQuiet

LEMMA OrderExpire ==
    ASSUME TypeOK, BridgeInv, OrderInv, NEW d \in Devices, NEW p \in PollKinds,
           LeaseExpire(d, p)
    PROVE  OrderInv'
<1> DEFINE S == {c \in Commands : Overdue(c)}
<1>1. /\ S \in SUBSET Commands
      /\ \A c \in S : cmd[c].status \in Open
      /\ \A c \in Commands :
            cmd'[c] = IF c \in S THEN [cmd[c] EXCEPT !.status = "expired"] ELSE cmd[c]
  BY DEF LeaseExpire, Overdue
<1>2. RowsKept
  <2> HIDE DEF S
  <2> QED BY <1>1, Types, ExpiredRowsKept
<1>3. SameLease
  BY DEF LeaseExpire, SameLease
<1>4. UNCHANGED <<thread, agent, runs>>
  BY DEF LeaseExpire, agentVars
<1>5. QED
  BY <1>2, <1>3, <1>4, StillThreads, StillAgents, OrderQuiet

LEMMA OrderCompletes ==
    ASSUME TypeOK, BridgeInv, PostsHanded, OrderInv,
           CompleteWrite \/ \E m \in wire : CompleteRead(m) \/ LosePost(m)
    PROVE  OrderInv'
<1>1. cmd \in [Commands -> Row]
  BY Types
<1>2. CASE CompleteWrite
  <2>1. /\ loop.post \in Post /\ loop.post.c \in Commands
    BY <1>2, Types, LoopKinds DEF CompleteWrite, CompleteCall, Post
  <2>2. Looser
    BY <1>2, <2>1, AcknowledgeLets, LetsLooser DEF CompleteWrite
  <2>3. cmd[loop.post.c].status # "none"
    BY <1>2 DEF PostsHanded, Fresh, CompleteWrite
  <2>4. RowsKept
    BY <1>1, <1>2, <2>1, <2>3 DEF CompleteWrite, RowsKept, Row
  <2>5. SameLease /\ UNCHANGED thread
    BY <1>2 DEF CompleteWrite, SameLease, IdleLoop
  <2>6. QED
    BY <2>2, <2>4, <2>5, StillThreads, OrderQuiet
<1>3. ASSUME NEW m \in wire, CompleteRead(m) PROVE OrderInv'
  <2>1. m \in Post
    BY Types
  <2>2. UNCHANGED <<runs, cmd, thread>> /\ (agent' = agent \/ Acknowledge(m))
    BY <1>3 DEF CompleteRead, dbVars
  <2>3. Looser
    BY <2>1, <2>2, AcknowledgeLets, LetsLooser, StillAgents
  <2>4. SameLease
    BY <1>3 DEF CompleteRead, SameLease, IdleLoop
  <2>5. QED
    BY <2>2, <2>3, <2>4, StillRows, StillThreads, OrderQuiet
<1>4. ASSUME NEW m \in wire, LosePost(m) PROVE OrderInv'
  <2>1. UNCHANGED <<cmd, thread, loop, agent, runs>>
    BY <1>4 DEF LosePost, dbVars, agentVars
  <2>2. QED
    BY <2>1, StillRows, StillThreads, StillAgents, StillLease, OrderQuiet
<1>5. QED
  BY <1>2, <1>3, <1>4

\* The agent's steps, but for the start of a turn.
LEMMA OrderAgent ==
    ASSUME TypeOK, BridgeInv, OrderInv, NEW d \in Devices,
           \/ PollArrives(d) \/ AgentStart(d) \/ TurnEnds(d) \/ SendResult(d) \/ GiveUp(d)
    PROVE  OrderInv'
<1>1. agent \in [Devices -> Agent]
  BY Types
<1>2. UNCHANGED <<cmd, thread, loop, runs>>
  BY DEF PollArrives, AgentStart, TurnEnds, SendResult, GiveUp, dbVars
<1>3. \A e \in Devices \ {d} : agent'[e] = agent[e]
  BY <1>1 DEF PollArrives, AgentStart, TurnEnds, SendResult, GiveUp
<1>4. agent'[d].batch \subseteq agent[d].batch /\ agent'[d].cur \in {agent[d].cur, None}
  <2>1. CASE PollArrives(d)
    <3>1. agent[d] \in FreeAgent
      BY <1>1, <2>1 DEF PollArrives, Agent, FreeAgent, BusyAgent
    <3>2. QED
      BY <1>1, <2>1, <3>1 DEF PollArrives, FreeAgent
  <2>2. CASE AgentStart(d)
    BY <1>1, <2>2 DEF AgentStart, Ready, Stopped
  <2>3. CASE TurnEnds(d)
    <3>1. agent[d] \in BusyAgent
      BY <2>3, BusyAgents DEF TurnEnds
    <3>2. PICK ok \in BOOLEAN :
              agent' = [agent EXCEPT ![d] =
                  [@ EXCEPT !.at = "posting", !.ok = ok,
                            !.since = agent[d].since \cup {cmd[agent[d].cur].ws}]]
      BY <2>3 DEF TurnEnds
    <3>3. agent'[d] = [agent[d] EXCEPT !.at = "posting", !.ok = ok,
                            !.since = agent[d].since \cup {cmd[agent[d].cur].ws}]
      BY <1>1, <3>2
    <3>4. agent'[d].batch = agent[d].batch /\ agent'[d].cur = agent[d].cur
      BY <3>1, <3>3 DEF BusyAgent
    <3>5. QED
      BY <3>4
  <2>4. CASE SendResult(d)
    <3>1. agent[d] \in BusyAgent
      BY <2>4, BusyAgents DEF SendResult
    <3>2. QED
      BY <1>1, <2>4, <3>1 DEF SendResult, BusyAgent
  <2>5. CASE GiveUp(d)
    <3>1. agent[d] \in BusyAgent
      BY <2>5, BusyAgents DEF GiveUp
    <3>2. agent'[d] \in {Ready, Exited, [agent[d] EXCEPT !.at = "posting", !.ok = FALSE]}
      BY <1>1, <2>5 DEF GiveUp, PostFailed
    <3>3. QED
      BY <3>1, <3>2 DEF BusyAgent, Ready, Exited, Stopped
  <2>6. QED
    BY <2>1, <2>2, <2>3, <2>4, <2>5
<1>5. Looser
  BY <1>1, <1>2, <1>3, <1>4, OneLooser
<1>6. QED
  BY <1>2, <1>5, StillRows, StillThreads, StillLease, OrderQuiet

LEMMA OrderDown ==
    ASSUME TypeOK, BridgeInv, OrderInv, NEW d \in Devices, AgentCrash(d) \/ PollDropped(d)
    PROVE  OrderInv'
<1>1. agent \in [Devices -> Agent]
  BY Types
<1>2. /\ UNCHANGED <<cmd, thread, runs>>
      /\ HangUp(d)
      /\ \A e \in Devices \ {d} : agent'[e] = agent[e]
      /\ agent'[d] \in {Stopped, Ready, Exited}
  BY <1>1 DEF AgentCrash, PollDropped, dbVars
<1>3. Looser
  BY <1>1, <1>2, OneLooser DEF Ready, Exited, Stopped
<1>4. SameLease
  BY <1>2, HangUpKeeps DEF SameLease
<1>5. QED
  BY <1>2, <1>3, <1>4, StillRows, StillThreads, OrderQuiet

----------------------------------------------------------------------------
(* Order: the steps that hand commands on *)

\* A row is inserted behind every other of its device.
LEMMA OrderInsert ==
    ASSUME OneThread, TypeOK, BridgeInv, OrderInv, NEW t \in Threads, EnqueueInsert(t)
    PROVE  OrderInv'
<1>1. cmd \in [Commands -> Row] /\ thread \in [Threads -> Thread]
  BY Types
<1>2. thread[t] \in Checked
  BY <1>1 DEF EnqueueInsert, Thread, IdleThread, Waiting, Checked
<1>3. PICK n \in Commands : n = thread[t].c /\ thread[t].rank \in Nat
  BY <1>2 DEF Checked
<1>4. UNCHANGED <<loop, agent, runs>>
  BY DEF EnqueueInsert, agentVars
<1>5. \A s \in Threads : thread'[s].at # "checked"
  <2>1. thread'[t].at # "checked"
    BY <1>1 DEF EnqueueInsert, AfterEnqueue, IdleThread
  <2>2. QED
    BY <2>1 DEF OneThread
<1>6. CASE cmd[n].status # "none"
  <2>1. UNCHANGED cmd
    BY <1>3, <1>6 DEF EnqueueInsert
  <2>2. SameThreads
    BY <1>5 DEF SameThreads
  <2>3. QED
    BY <1>4, <2>1, <2>2, StillRows, StillAgents, StillLease, OrderQuiet
<1>7. CASE cmd[n].status = "none"
  <2>1. /\ cmd'[n].status = "pending" /\ cmd'[n].rank = thread[t].rank
        /\ \A c \in Commands \ {n} : cmd'[c] = cmd[c]
    BY <1>1, <1>3, <1>7 DEF EnqueueInsert
  <2>2. \A c \in Commands : cmd[c].status # "none" => cmd[c].rank < thread[t].rank
    BY <1>2 DEF EnqueueInsert, NewestLast, OrderInv
  <2>3. Untouched(n) /\ Untouched(n)'
    <3>1. Untouched(n)
      BY <1>7 DEF UnhandedUntouched, BridgeInv
    <3>2. QED
      BY <1>4, <3>1 DEF Untouched
  <2>4. \A c \in Commands : Untouched(c) => Untouched(c)'
    BY <1>4 DEF Untouched
  <2>5. ASSUME NEW c \in Commands, NEW e \in Commands, Behind(c, e)'
        PROVE  c # n /\ (e = n \/ Behind(c, e)) /\ cmd'[c] = cmd[c]
    <3>1. c # n
      <4>1. SUFFICES ASSUME c = n PROVE FALSE
        OBVIOUS
      <4>2. cmd'[n].rank < cmd'[e].rank /\ cmd'[e].status # "none"
        BY <2>5, <4>1 DEF Behind
      <4>3. CASE e = n
        BY <1>3, <2>1, <4>2, <4>3
      <4>4. CASE e # n
        <5>1. cmd[e].rank < thread[t].rank /\ thread[t].rank < cmd[e].rank
          BY <2>1, <2>2, <4>2, <4>4
        <5>2. cmd[e].rank \in Nat
          BY RowsAreCommands
        <5>3. QED
          BY <1>3, <5>1, <5>2
      <4>5. QED
        BY <4>3, <4>4
    <3>2. QED
      BY <2>1, <2>5, <3>1 DEF Behind
  <2>6. NewestLast'
    BY <1>5 DEF NewestLast
  <2>7. OwnBatches'
    <3>1. \A d \in Devices : n \notin agent[d].batch
      BY <2>3 DEF Untouched
    <3>2. loop.at = "mark" => n \notin loop.rows
      BY <1>7 DEF RowsUntouched, BridgeInv
    <3>3. QED
      BY <1>4, <2>1, <3>1, <3>2, RowsAreCommands DEF OwnBatches, OrderInv
  <2>8. PendingFirst'
    BY <2>3, <2>4, <2>5 DEF PendingFirst, OrderInv
  <2>9. RowsFirst'
    <3> SUFFICES ASSUME loop'.at = "mark", NEW c \in Commands, NEW e \in Commands, Behind(c, e)'
                 PROVE  /\ e \in loop'.rows /\ cmd'[c].status = "pending" => c \in loop'.rows
                        /\ c \in loop'.rows => Untouched(e)'
      BY DEF RowsFirst
    <3>1. CASE e = n
      <4>1. n \notin loop.rows
        BY <1>4, <1>7 DEF RowsUntouched, BridgeInv
      <4>2. QED
        BY <1>4, <2>3, <3>1, <4>1
    <3>2. CASE Behind(c, e)
      <4>1. cmd'[c] = cmd[c]
        BY <2>5
      <4>2. QED
        BY <1>4, <2>4, <3>2, <4>1 DEF RowsFirst, OrderInv
    <3>3. QED
      BY <2>5, <3>1, <3>2
  <2>10. BatchFirst'
    <3> SUFFICES ASSUME NEW d \in Devices, NEW c \in agent'[d].batch, NEW e \in Commands,
                        Behind(c, e)'
                 PROVE  runs'[e] = 0
      BY DEF BatchFirst
    <3>1. c \in agent[d].batch /\ c \in Commands
      BY <1>4, RowsAreCommands
    <3>2. e = n => runs[e] = 0
      BY <2>3 DEF Untouched
    <3>3. QED
      BY <1>4, <2>5, <3>1, <3>2 DEF BatchFirst, OrderInv
  <2>11. QED
    BY <2>6, <2>7, <2>8, <2>9, <2>10 DEF OrderInv
<1>8. QED
  BY <1>6, <1>7

LEMMA AheadGrows ==
    ASSUME TypeOK, NEW S \in SUBSET Commands, NEW c \in S, NEW e \in S,
           cmd[c].rank < cmd[e].rank, e \in Oldest(S)
    PROVE  c \in Oldest(S)
<1>1. \A x \in Commands : cmd[x].rank \in Nat
  BY RowsAreCommands
<1>2. Ahead(c, S) \subseteq Ahead(e, S)
  BY <1>1 DEF Ahead
<1>3. IsFiniteSet(Ahead(e, S)) /\ IsFiniteSet(Ahead(c, S))
  <2>1. Ahead(e, S) \subseteq Commands /\ Ahead(c, S) \subseteq Commands
    BY DEF Ahead
  <2>2. QED
    BY <2>1, BridgeAssumption, FS_Subset
<1>4. Cardinality(Ahead(c, S)) <= Cardinality(Ahead(e, S))
  BY <1>2, <1>3, FS_Subset
<1>5. Cardinality(Ahead(c, S)) \in Nat /\ Cardinality(Ahead(e, S)) \in Nat
  BY <1>3, FS_CardinalityType
<1>6. Cardinality(Ahead(e, S)) < MaxLease
  BY DEF Oldest
<1>7. Cardinality(Ahead(c, S)) < MaxLease
  BY <1>4, <1>5, <1>6, BridgeAssumption
<1>8. QED
  BY <1>7 DEF Oldest

\* The SELECT takes the oldest pending rows of its device.
LEMMA OrderSelect ==
    ASSUME TypeOK, BridgeInv, OrderInv, LeaseSelect PROVE OrderInv'
<1>1. loop \in LeaseCall /\ agent \in [Devices -> Agent]
  BY Types, LoopKinds DEF LeaseSelect
<1>2. loop.d \in Devices
  BY <1>1 DEF LeaseCall
<1>3. UNCHANGED <<cmd, thread, runs>>
  BY DEF LeaseSelect, dbVars
<1>4. agent' = agent \/ agent' = [agent EXCEPT ![loop.d] = Ready]
  BY DEF LeaseSelect
<1>5. Looser
  BY <1>1, <1>2, <1>3, <1>4 DEF Looser, Ready, Stopped
<1>6. CASE loop' = IdleLoop
  <2>1. SameLease
    BY <1>6 DEF SameLease, IdleLoop
  <2>2. QED
    BY <1>3, <1>5, <2>1, StillRows, StillThreads, OrderQuiet
<1>7. CASE loop' = [loop EXCEPT !.at = "mark", !.rows = Oldest(Pending(loop.d))]
  <2>1. PICK S \in SUBSET Commands : S = Pending(loop.d)
    BY DEF Pending
  <2>2. loop'.at = "mark" /\ loop'.rows = Oldest(S) /\ loop'.d = loop.d
    BY <1>1, <1>7, <2>1 DEF LeaseCall
  <2>3. \A c \in Commands : c \in S <=> cmd[c].status = "pending" /\ cmd[c].device = loop.d
    BY <2>1 DEF Pending
  <2>4. Oldest(S) \subseteq S
    BY DEF Oldest
  <2>5. NewestLast'
    BY <1>3 DEF NewestLast, OrderInv
  <2>6. OwnBatches'
    BY <1>3, <1>5, <2>2, <2>3, <2>4, RowsAreCommands DEF Looser, OwnBatches, OrderInv
  <2>7. \A c, e \in Commands : Behind(c, e)' <=> Behind(c, e)
    BY <1>3 DEF Behind
  <2>8. \A c \in Commands : Untouched(c) => Untouched(c)'
    BY <1>5, LooserUntouched
  <2>9. PendingFirst'
    BY <1>3, <2>7, <2>8 DEF PendingFirst, OrderInv
  <2>10. RowsFirst'
    <3> SUFFICES ASSUME NEW c \in Commands, NEW e \in Commands, Behind(c, e)
                 PROVE  /\ e \in Oldest(S) /\ cmd[c].status = "pending" => c \in Oldest(S)
                        /\ c \in Oldest(S) => Untouched(e)'
      BY <1>3, <2>2, <2>7 DEF RowsFirst
    <3>1. ASSUME e \in Oldest(S), cmd[c].status = "pending" PROVE c \in Oldest(S)
      <4>1. c \in S /\ e \in S /\ cmd[c].rank < cmd[e].rank
        BY <2>3, <2>4, <3>1 DEF Behind
      <4>2. QED
        BY <3>1, <4>1, AheadGrows
    <3>2. ASSUME c \in Oldest(S) PROVE Untouched(e)'
      <4>1. cmd[c].status = "pending"
        BY <2>3, <2>4, <3>2
      <4>2. Untouched(e)
        BY <4>1 DEF PendingFirst, OrderInv
      <4>3. QED
        BY <2>8, <4>2
    <3>3. QED
      BY <3>1, <3>2
  <2>11. BatchFirst'
    <3>1. \A d \in Devices : agent'[d].batch \subseteq agent[d].batch /\ agent[d].batch \subseteq Commands
      BY <1>5, RowsAreCommands DEF Looser
    <3>2. QED
      BY <1>3, <2>7, <3>1 DEF BatchFirst, OrderInv
  <2>12. QED
    BY <2>5, <2>6, <2>9, <2>10, <2>11 DEF OrderInv
<1>8. QED
  BY <1>6, <1>7 DEF LeaseSelect

\* The UPDATEs hand the selected rows to the agent, or to nobody.
LEMMA OrderMark ==
    ASSUME TypeOK, BridgeInv, OrderInv, LeaseMark PROVE OrderInv'
<1>1. /\ loop \in LeaseCall /\ cmd \in [Commands -> Row] /\ agent \in [Devices -> Agent]
      /\ loop.at = "mark"
  BY Types, LoopKinds DEF LeaseMark
<1>2. PICK D \in Devices, R \in SUBSET Commands : D = loop.d /\ R = loop.rows
  BY <1>1 DEF LeaseCall
<1>3. UNCHANGED <<thread, runs>> /\ loop'.at # "mark"
  BY DEF LeaseMark, IdleLoop
<1>4. RowsKept /\ \A c \in R : cmd'[c].status # "pending"
  BY <1>1, <1>2 DEF LeaseMark, RowsKept, Row
<1>5. CASE agent' = agent \/ \E s \in {Ready, Exited} : agent' = [agent EXCEPT ![D] = s]
  <2>1. Looser
    BY <1>1, <1>3, <1>5 DEF Looser, Ready, Exited, Stopped
  <2>2. QED
    BY <1>3, <1>4, <2>1, StillThreads, OrderQuiet DEF SameLease
<1>6. CASE /\ loop.poll = "live"
           /\ agent' = [agent EXCEPT ![D] = [@ EXCEPT !.at = "batch", !.batch = R]]
  <2>1. agent[D] \in FreeAgent
    BY <1>1, <1>2, <1>6 DEF LivePolls, BridgeInv, Agent, BusyAgent
  <2>2. /\ agent'[D].batch = R /\ agent'[D].cur = agent[D].cur
        /\ \A d \in Devices \ {D} : agent'[d] = agent[d]
    BY <1>1, <1>6, <2>1 DEF FreeAgent
  <2>3. \A c, e \in Commands : Behind(c, e)' <=> Behind(c, e)
    BY <1>4, BehindKept
  <2>4. NewestLast'
    BY <1>3, <1>4 DEF NewestLast, OrderInv, RowsKept
  <2>5. OwnBatches'
    <3> SUFFICES ASSUME NEW d \in Devices, NEW c \in agent'[d].batch PROVE cmd'[c].device = d
      BY <1>3 DEF OwnBatches
    <3>1. c \in Commands /\ (IF d = D THEN c \in R ELSE c \in agent[d].batch)
      BY <2>2, RowsAreCommands
    <3>2. cmd[c].device = d
      BY <1>1, <1>2, <3>1 DEF OwnBatches, OrderInv
    <3>3. QED
      BY <1>4, <3>1, <3>2 DEF RowsKept
  <2>6. \A c \in Commands \ R : Untouched(c) => Untouched(c)'
    BY <1>3, <2>2 DEF Untouched
  <2>7. PendingFirst'
    <3> SUFFICES ASSUME NEW c \in Commands, NEW e \in Commands, Behind(c, e),
                        cmd'[c].status = "pending"
                 PROVE  Untouched(e)'
      BY <2>3 DEF PendingFirst
    <3>1. cmd[c].status = "pending" /\ c \notin R
      BY <1>4 DEF RowsKept
    <3>2. e \notin R
      BY <1>1, <1>2, <3>1 DEF RowsFirst, OrderInv
    <3>3. Untouched(e)
      BY <3>1 DEF PendingFirst, OrderInv
    <3>4. QED
      BY <2>6, <3>2, <3>3
  <2>8. RowsFirst'
    BY <1>3 DEF RowsFirst
  <2>9. BatchFirst'
    <3> SUFFICES ASSUME NEW d \in Devices, NEW c \in agent'[d].batch, NEW e \in Commands,
                        Behind(c, e)'
                 PROVE  runs[e] = 0
      BY <1>3 DEF BatchFirst
    <3>1. c \in Commands /\ (IF d = D THEN c \in R ELSE c \in agent[d].batch)
      BY <2>2, RowsAreCommands
    <3>2. Behind(c, e)
      BY <2>3, <3>1
    <3>3. CASE d = D
      BY <1>1, <1>2, <3>1, <3>2, <3>3 DEF RowsFirst, OrderInv, Untouched
    <3>4. CASE d # D
      BY <3>1, <3>2, <3>4 DEF BatchFirst, OrderInv
    <3>5. QED
      BY <3>3, <3>4
  <2>10. QED
    BY <2>4, <2>5, <2>7, <2>8, <2>9 DEF OrderInv
<1>7. QED
  BY <1>2, <1>5, <1>6 DEF LeaseMark

LEMMA HandleTakes ==
    ASSUME TypeOK, NEW d \in Devices, Handle(d)
    PROVE  \E c \in agent[d].batch :
              /\ c \in Commands /\ IsFirst(c, agent[d].batch)
              /\ agent'[d].batch = agent[d].batch \ {c} /\ agent'[d].cur = c
              /\ agent'[d].at \in {"running", "posting"}
              /\ \A e \in Devices \ {d} : agent'[e] = agent[e]
              /\ runs' = runs \/ runs' = [runs EXCEPT ![c] = @ + 1]
<1>1. agent \in [Devices -> Agent] /\ agent[d] \in FreeAgent
  BY Types DEF Handle, Agent, FreeAgent, BusyAgent
<1>2. PICK c \in agent[d].batch :
          /\ IsFirst(c, agent[d].batch)
          /\ LET begun == [agent[d] EXCEPT !.batch = @ \ {c}, !.cur = c]
             IN  \/ /\ runs' = [runs EXCEPT ![c] = @ + 1]
                    /\ agent' = [agent EXCEPT ![d] = [begun EXCEPT !.at = "running"]]
                 \/ /\ agent' = [agent EXCEPT ![d] = [begun EXCEPT !.at = "posting"]]
                    /\ runs' = runs
  BY DEF Handle
<1> DEFINE taken == [agent[d] EXCEPT !.batch = @ \ {c}, !.cur = c]
<1>3. \A at \in {"running", "posting"} :
          /\ [taken EXCEPT !.at = at].batch = agent[d].batch \ {c}
          /\ [taken EXCEPT !.at = at].cur = c /\ [taken EXCEPT !.at = at].at = at
  BY <1>1 DEF FreeAgent
<1>4. /\ \E at \in {"running", "posting"} : agent' = [agent EXCEPT ![d] = [taken EXCEPT !.at = at]]
      /\ runs' = runs \/ runs' = [runs EXCEPT ![c] = @ + 1]
  BY <1>2
<1> HIDE DEF taken
<1>5. PICK at \in {"running", "posting"} : agent' = [agent EXCEPT ![d] = [taken EXCEPT !.at = at]]
  BY <1>4
<1>6. agent'[d] = [taken EXCEPT !.at = at] /\ \A e \in Devices \ {d} : agent'[e] = agent[e]
  BY <1>1, <1>5
<1>7. c \in Commands
  BY <1>1 DEF FreeAgent
<1>8. QED
  BY <1>2, <1>3, <1>4, <1>6, <1>7

\* A command of the batch starts, or is refused, only as the first of it.
LEMMA OrderHandle ==
    ASSUME TypeOK, BridgeInv, OrderInv, NEW d \in Devices, Handle(d) PROVE OrderInv'
<1>1. PICK c \in agent[d].batch :
          /\ c \in Commands /\ IsFirst(c, agent[d].batch)
          /\ agent'[d].batch = agent[d].batch \ {c} /\ agent'[d].cur = c
          /\ \A e \in Devices \ {d} : agent'[e] = agent[e]
          /\ runs' = runs \/ runs' = [runs EXCEPT ![c] = @ + 1]
  BY HandleTakes
<1>2. UNCHANGED <<cmd, thread, loop>>
  BY DEF Handle, dbVars
<1>3. \A e \in Commands \ {c} : runs'[e] = runs[e]
  BY <1>1, Types
<1>4. \A x, y \in Commands : Behind(x, y)' <=> Behind(x, y)
  BY <1>2 DEF Behind
<1>5. \A e \in Commands : Untouched(e) => e # c /\ Untouched(e)'
  BY <1>1, <1>3 DEF Untouched
<1>6. \A e \in Devices : agent'[e].batch \subseteq agent[e].batch /\ agent[e].batch \subseteq Commands
  BY <1>1, RowsAreCommands
<1>7. NewestLast' /\ OwnBatches'
  BY <1>2, <1>6 DEF NewestLast, OwnBatches, OrderInv
<1>8. PendingFirst' /\ RowsFirst'
  <2>1. PendingFirst'
    BY <1>2, <1>4, <1>5 DEF PendingFirst, OrderInv
  <2>2. RowsFirst'
    BY <1>2, <1>4, <1>5 DEF RowsFirst, OrderInv
  <2>3. QED
    BY <2>1, <2>2
<1>9. BatchFirst'
  <2> SUFFICES ASSUME NEW f \in Devices, NEW x \in agent'[f].batch, NEW y \in Commands,
                      Behind(x, y)
               PROVE  runs'[y] = 0
    BY <1>4, <1>6 DEF BatchFirst
  <2>1. x \in agent[f].batch /\ x \in Commands
    BY <1>6
  <2>2. runs[y] = 0
    BY <2>1 DEF BatchFirst, OrderInv
  <2>3. y # c
    <3>1. SUFFICES ASSUME y = c PROVE FALSE
      OBVIOUS
    <3>2. cmd[x].device = f /\ cmd[c].device = d
      BY <1>1, <2>1 DEF OwnBatches, OrderInv
    <3>3. f = d /\ cmd[x].rank < cmd[c].rank
      BY <3>1, <3>2 DEF Behind
    <3>4. QED
      BY <1>1, <2>1, <3>3 DEF IsFirst, Ahead
  <2>4. QED
    BY <1>3, <2>2, <2>3
<1>10. QED
  BY <1>7, <1>8, <1>9 DEF OrderInv

LEMMA OrderStep ==
    ASSUME OneThread, TypeOK, BridgeInv, PostsHanded, OrderInv, [Next]_vars PROVE OrderInv'
<1>1. CASE UNCHANGED vars
  <2>1. UNCHANGED <<cmd, thread, loop, agent, runs>>
    BY <1>1 DEF vars, dbVars, agentVars
  <2>2. QED
    BY <2>1, StillRows, StillThreads, StillAgents, StillLease, OrderQuiet
<1>2. ASSUME NEW t \in Threads,
             \/ EnqueueInsert(t) \/ Wait(t)
             \/ \E c \in Commands, d \in Devices, w \in Workspaces : EnqueueCheck(t, c, d, w)
      PROVE  OrderInv'
  BY <1>2, OrderInsert, OrderWait, OrderCheck
<1>3. CASE \/ \E c \in Commands : ReadStatus(c) \/ GrowStale(c)
           \/ \E d \in Devices : RevokeDevice(d)
           \/ \E d \in Devices, w \in Workspaces : SetWorkspaceEnabled(d, w)
  BY <1>3, OrderTable
<1>4. ASSUME NEW d \in Devices,
             \/ PollArrives(d) \/ AgentStart(d) \/ AgentCrash(d) \/ PollDropped(d)
             \/ Handle(d) \/ TurnEnds(d) \/ SendResult(d) \/ GiveUp(d)
      PROVE  OrderInv'
  BY <1>4, OrderAgent, OrderDown, OrderHandle
<1>5. ASSUME NEW d \in Devices, NEW p \in PollKinds, LeaseExpire(d, p) PROVE OrderInv'
  BY <1>5, OrderExpire
<1>6. CASE LeaseSelect \/ LeaseMark
  BY <1>6, OrderSelect, OrderMark
<1>7. CASE CompleteWrite \/ \E m \in wire : CompleteRead(m) \/ LosePost(m)
  BY <1>7, OrderCompletes
<1>8. QED
  BY <1>1, <1>2, <1>3, <1>4, <1>5, <1>6, <1>7 DEF Next

\* Only Handle starts a command, and only one of its batch.
LEMMA StartsInOrder ==
    ASSUME TypeOK, OrderInv, [Next]_vars,
           NEW c \in Commands, NEW e \in Commands, Behind(c, e), runs[e] > 0
    PROVE  runs'[c] = runs[c]
<1>1. CASE UNCHANGED runs
  BY <1>1
<1>2. ASSUME NEW d \in Devices, Handle(d) PROVE runs'[c] = runs[c]
  <2>1. PICK x \in agent[d].batch :
            x \in Commands /\ (runs' = runs \/ runs' = [runs EXCEPT ![x] = @ + 1])
    BY <1>2, HandleTakes
  <2>2. c # x
    BY <2>1 DEF BatchFirst, OrderInv
  <2>3. QED
    BY <2>1, <2>2, Types
<1>3. ASSUME NEW t \in Threads,
             \/ EnqueueInsert(t) \/ Wait(t)
             \/ \E x \in Commands, d \in Devices, w \in Workspaces : EnqueueCheck(t, x, d, w)
      PROVE  UNCHANGED runs
  BY <1>3 DEF EnqueueInsert, Wait, EnqueueCheck, agentVars
<1>4. ASSUME \/ \E x \in Commands : ReadStatus(x) \/ GrowStale(x)
             \/ \E d \in Devices : RevokeDevice(d) \/ PollArrives(d)
             \/ \E d \in Devices, w \in Workspaces : SetWorkspaceEnabled(d, w)
             \/ \E d \in Devices, p \in PollKinds : LeaseExpire(d, p)
      PROVE  UNCHANGED runs
  BY <1>4 DEF ReadStatus, GrowStale, RevokeDevice, PollArrives, SetWorkspaceEnabled,
              LeaseExpire, agentVars
<1>5. ASSUME \/ LeaseSelect \/ LeaseMark \/ CompleteWrite
             \/ \E m \in wire : CompleteRead(m) \/ LosePost(m)
      PROVE  UNCHANGED runs
  BY <1>5 DEF LeaseSelect, LeaseMark, CompleteWrite, CompleteRead, LosePost, agentVars
<1>6. ASSUME NEW d \in Devices,
             \/ AgentStart(d) \/ AgentCrash(d) \/ PollDropped(d) \/ TurnEnds(d)
             \/ SendResult(d) \/ GiveUp(d)
      PROVE  UNCHANGED runs
  BY <1>6 DEF AgentStart, AgentCrash, PollDropped, TurnEnds, SendResult, GiveUp
<1>7. CASE UNCHANGED vars
  BY <1>1, <1>7 DEF vars, agentVars
<1>8. QED
  BY <1>1, <1>2, <1>3, <1>4, <1>5, <1>6, <1>7 DEF Next

LEMMA PostsInit == Init => PostsHanded
BY DEF Init, PostsHanded, IdleLoop

LEMMA OrderInit == Init => OrderInv
<1> SUFFICES ASSUME Init PROVE OrderInv
  OBVIOUS
<1>1. /\ \A c \in Commands : cmd[c].status = "none"
      /\ \A d \in Devices : agent[d].batch = {}
      /\ loop.at # "mark" /\ \A t \in Threads : thread[t].at # "checked"
  BY DEF Init, NoRow, Stopped, IdleLoop, IdleThread
<1>2. QED
  BY <1>1 DEF OrderInv, NewestLast, OwnBatches, PendingFirst, RowsFirst, BatchFirst, Behind

\* The commands one owner thread queues to a device start in the order they
\* were queued in: once the later one has started the earlier never does,
\* whatever polls, answers and agents get lost (lease and handle).
THEOREM QueueIsInOrder == ASSUME OneThread PROVE Spec => InOrder
<1>1. Init => TypeOK /\ BridgeInv /\ PostsHanded /\ OrderInv
  BY TypeInit, InvInit, PostsInit, OrderInit
<1>2. TypeOK /\ BridgeInv /\ PostsHanded /\ OrderInv /\ [Next]_vars
      => (TypeOK /\ BridgeInv /\ PostsHanded /\ OrderInv)'
  <2>1. BridgeInv => LivePolls
    BY DEF BridgeInv
  <2>2. QED
    BY <2>1, TypeStep, InvStep, PostsStep, OrderStep
<1>3. TypeOK /\ OrderInv /\ [Next]_vars =>
         [\A c, e \in Commands :
             /\ cmd[c].status # "none" /\ cmd[e].status # "none"
             /\ cmd[c].device = cmd[e].device /\ cmd[c].rank < cmd[e].rank
             /\ runs[e] > 0
             => runs'[c] = runs[c]]_vars
  BY StartsInOrder DEF Behind
<1>4. QED
  BY <1>1, <1>2, <1>3, PTL DEF Spec, InOrder

----------------------------------------------------------------------------
(* The queue implements the ledger                                            *)

\* A lease marks some row; what is about to be written is leased, or was expired by an
\* owner thread since it was read.
LeaseSome == loop.at = "mark" => loop.rows # {}
WriteLeased == loop.at = "write" => cmd[loop.post.c].status \in {"leased", "expired"}

IdleBatches ==
    \A d \in Devices :
        agent[d].at \in {"down", "exited", "idle", "polling"} => agent[d].batch = {}

LedgerInv == LeaseSome /\ WriteLeased /\ IdleBatches

LedgerStep == [Ledger!Next]_(Ledger!vars)

SameClaims == Chosen' = Chosen /\ ReadReport' = ReadReport

LEMMA ClaimsKept == ASSUME loop' = loop PROVE SameClaims
BY DEF SameClaims, Chosen, ReadReport

LEMMA ClaimsNone ==
    ASSUME loop.at \notin {"mark", "write"}, loop'.at \notin {"mark", "write"}
    PROVE  SameClaims
BY DEF SameClaims, Chosen, ReadReport

LEMMA LedgerStates ==
    /\ LedgerState("none") = "none"       /\ LedgerState("pending") = "queued"
    /\ LedgerState("leased") = "handed"   /\ LedgerState("done") = "succeeded"
    /\ LedgerState("failed") = "failed"   /\ LedgerState("expired") = "refused"
BY DEF LedgerState

LEMMA LedgerKept ==
    ASSUME \A c \in Commands : cmd'[c].status = cmd[c].status
    PROVE  LedgerStatus' = LedgerStatus
BY DEF LedgerStatus

\* A step that only takes commands away from agents drops them, or nothing.
LEMMA LedgerDrop ==
    ASSUME \A c \in Commands : cmd'[c].status = cmd[c].status, UNCHANGED runs, SameClaims,
           \A d \in Devices : agent'[d].batch \subseteq agent[d].batch,
           \A d \in Devices : agent[d].batch \subseteq Commands
    PROVE  LedgerStep
<1> DEFINE S == Given \ Given'
<1>1. LedgerStatus' = LedgerStatus /\ Started' = Started
  BY LedgerKept DEF Started
<1>2. Given' \subseteq Given
  BY <1>1 DEF Given
<1>3. S \subseteq Given \ Started /\ S \subseteq Commands
  BY <1>1 DEF Given, Started
<1>4. Given' = Given \ S
  BY <1>2
<1>5. CASE S = {}
  <2>1. Given' = Given
    BY <1>4, <1>5
  <2>2. QED
    BY <1>1, <2>1 DEF LedgerStep, Ledger!vars, SameClaims
<1>6. CASE S # {}
  <2> HIDE DEF S
  <2>1. Ledger!Drop(S)
    BY <1>1, <1>3, <1>4, <1>6 DEF Ledger!Drop, SameClaims
  <2>2. QED
    BY <1>3, <2>1 DEF LedgerStep, Ledger!Next
<1>7. QED
  BY <1>5, <1>6

LEMMA LedgerStill ==
    ASSUME \A c \in Commands : cmd'[c].status = cmd[c].status, UNCHANGED <<agent, runs>>,
           SameClaims
    PROVE  LedgerStep
<1>1. LedgerStatus' = LedgerStatus /\ Started' = Started
  BY LedgerKept DEF Started
<1>2. Given' = Given
  BY <1>1 DEF Given
<1>3. QED
  BY <1>1, <1>2 DEF LedgerStep, Ledger!vars, SameClaims

\* A bulk expiry refuses the rows it names.
LEMMA LedgerRefuse ==
    ASSUME cmd \in [Commands -> Row], NEW S \in SUBSET Commands,
           \A c \in S : cmd[c].status \in Open,
           \A c \in Commands :
               cmd'[c].status = IF c \in S THEN "expired" ELSE cmd[c].status,
           UNCHANGED <<agent, runs>>, SameClaims
    PROVE  LedgerStep
<1>1. CASE S = {}
  BY <1>1, LedgerStill
<1>2. CASE S # {}
  <2>1. Started' = Started
    BY DEF Started
  <2>2. Given' = Given
    BY <2>1 DEF Given
  <2>3. \A c \in S : LedgerStatus[c] \in {"queued", "handed"}
    BY LedgerStates DEF LedgerStatus, Open
  <2>4. LedgerStatus' = [c \in Commands |-> IF c \in S THEN "refused" ELSE LedgerStatus[c]]
    <3>1. \A c \in Commands :
              LedgerState(cmd'[c].status) = IF c \in S THEN "refused" ELSE LedgerState(cmd[c].status)
      BY LedgerStates
    <3>2. QED
      BY <3>1 DEF LedgerStatus
  <2>5. Ledger!Refuse(S)
    BY <1>2, <2>1, <2>2, <2>3, <2>4 DEF Ledger!Refuse, SameClaims
  <2>6. QED
    BY <2>5 DEF LedgerStep, Ledger!Next
<1>3. QED
  BY <1>1, <1>2

LEMMA GetCommandExpires ==
    ASSUME cmd \in [Commands -> Row], NEW c \in Commands, GetCommand(c)
    PROVE  \E S \in SUBSET Commands :
              /\ \A e \in S : cmd[e].status \in Open
              /\ \A e \in Commands :
                     cmd'[e].status = IF e \in S THEN "expired" ELSE cmd[e].status
<1>1. CASE Overdue(c)
  <2>1. \A e \in Commands : cmd'[e].status = IF e \in {c} THEN "expired" ELSE cmd[e].status
    BY <1>1 DEF GetCommand, Row
  <2>2. \A e \in {c} : cmd[e].status \in Open
    BY <1>1 DEF Overdue
  <2>3. QED
    BY <2>1, <2>2
<1>2. CASE ~Overdue(c)
  <2> DEFINE S == {}
  <2>1. /\ S \in SUBSET Commands /\ \A e \in S : cmd[e].status \in Open
        /\ \A e \in Commands : cmd'[e].status = IF e \in S THEN "expired" ELSE cmd[e].status
    BY <1>2 DEF GetCommand
  <2> HIDE DEF S
  <2>2. QED
    BY <2>1
<1>3. QED
  BY <1>1, <1>2

----------------------------------------------------------------------------
(* Ledger: threads and table *)

LEMMA LedgerCheck ==
    ASSUME LedgerInv, NEW t \in Threads, NEW c \in Commands,
           NEW d \in Devices, NEW w \in Workspaces, EnqueueCheck(t, c, d, w)
    PROVE  LedgerInv' /\ LedgerStep
<1>1. UNCHANGED <<cmd, loop, agent, runs>>
  BY DEF EnqueueCheck, agentVars
<1>2. LedgerInv'
  BY <1>1 DEF LedgerInv, LeaseSome, WriteLeased, IdleBatches
<1>3. LedgerStep
  BY <1>1, LedgerStill, ClaimsKept
<1>4. QED
  BY <1>2, <1>3

\* An owner thread that looks at the row it waits for may expire it, whatever the event
\* loop is in the middle of.
LEMMA LedgerWait ==
    ASSUME TypeOK, LedgerInv, NEW t \in Threads, Wait(t) PROVE LedgerInv' /\ LedgerStep
<1>1. cmd \in [Commands -> Row] /\ thread[t] \in Waiting /\ UNCHANGED <<loop, agent, runs>>
  BY Types DEF Wait, agentVars, Thread, IdleThread, Checked, Waiting
<1>2. PICK c \in Commands : GetCommand(c)
  BY <1>1 DEF Wait, Waiting
<1>3. PICK S \in SUBSET Commands :
         /\ \A e \in S : cmd[e].status \in Open
         /\ \A e \in Commands : cmd'[e].status = IF e \in S THEN "expired" ELSE cmd[e].status
  BY <1>1, <1>2, GetCommandExpires
<1>4. loop.at = "write" => loop.post.c \in Commands
  BY Types, LoopKinds DEF CompleteCall, Post
<1>5. LedgerInv'
  BY <1>1, <1>3, <1>4 DEF LedgerInv, LeaseSome, WriteLeased, IdleBatches
<1>6. LedgerStep
  BY <1>1, <1>3, LedgerRefuse, ClaimsKept
<1>7. QED
  BY <1>5, <1>6

LEMMA LedgerInsert ==
    ASSUME TypeOK, BridgeInv, LedgerInv, NEW t \in Threads, EnqueueInsert(t)
    PROVE  LedgerInv' /\ LedgerStep
<1>1. cmd \in [Commands -> Row] /\ thread \in [Threads -> Thread]
  BY Types
<1>2. thread[t] \in Checked
  BY <1>1 DEF EnqueueInsert, Thread, IdleThread, Waiting, Checked
<1>3. PICK n \in Commands : n = thread[t].c
  BY <1>2 DEF Checked
<1>4. UNCHANGED <<loop, agent, runs>>
  BY DEF EnqueueInsert, agentVars
<1>5. SameClaims
  BY <1>4, ClaimsKept
<1>7. CASE cmd[n].status # "none"
  <2>1. UNCHANGED cmd
    BY <1>3, <1>7 DEF EnqueueInsert
  <2>2. LedgerInv'
    BY <1>4, <2>1 DEF LedgerInv, LeaseSome, WriteLeased, IdleBatches
  <2>3. QED
    BY <1>4, <1>5, <2>1, <2>2, LedgerStill
<1>8. CASE cmd[n].status = "none"
  <2>1. cmd'[n].status = "pending" /\ \A c \in Commands \ {n} : cmd'[c] = cmd[c]
    BY <1>1, <1>3, <1>8 DEF EnqueueInsert
  <2>3. WriteLeased'
    <3>1. loop.at = "write" => loop.post.c \in Commands
      BY Types, LoopKinds DEF CompleteCall, Post
    <3>2. QED
      BY <1>4, <1>8, <2>1, <3>1 DEF WriteLeased, LedgerInv
  <2>4. LedgerInv'
    BY <1>4, <2>3 DEF LedgerInv, LeaseSome, IdleBatches
  <2>5. Started' = Started
    BY <1>4 DEF Started
  <2>6. Given' = Given
    BY <1>4, <2>5 DEF Given
  <2>7. LedgerStatus[n] = "none"
    BY <1>8, LedgerStates DEF LedgerStatus
  <2>8. LedgerStatus' = [LedgerStatus EXCEPT ![n] = "queued"]
    <3>1. \A c \in Commands :
              LedgerState(cmd'[c].status) = IF c = n THEN "queued" ELSE LedgerState(cmd[c].status)
      BY <2>1, LedgerStates
    <3>2. QED
      BY <3>1 DEF LedgerStatus
  <2>9. Ledger!Accept(n)
    BY <1>5, <2>5, <2>6, <2>7, <2>8 DEF Ledger!Accept, SameClaims
  <2>10. QED
    BY <2>4, <2>9 DEF LedgerStep, Ledger!Next
<1>9. QED
  BY <1>7, <1>8

\* The reads, revoke, the switch and the expiry of a lease.
LEMMA LedgerTable ==
    ASSUME TypeOK, LedgerInv,
           \/ \E c \in Commands : ReadStatus(c) \/ GrowStale(c)
           \/ \E d \in Devices : RevokeDevice(d)
           \/ \E d \in Devices, w \in Workspaces : SetWorkspaceEnabled(d, w)
           \/ \E d \in Devices, p \in PollKinds : LeaseExpire(d, p)
    PROVE  LedgerInv' /\ LedgerStep
<1>1. cmd \in [Commands -> Row] /\ UNCHANGED <<agent, runs>>
  BY Types DEF ReadStatus, GrowStale, RevokeDevice, SetWorkspaceEnabled, LeaseExpire, agentVars
<1>2. IdleBatches'
  BY <1>1 DEF IdleBatches, LedgerInv
<1>3. ASSUME loop.at \notin {"mark", "write"}, loop'.at \notin {"mark", "write"},
             NEW S \in SUBSET Commands, \A e \in S : cmd[e].status \in Open,
             \A e \in Commands : cmd'[e].status = IF e \in S THEN "expired" ELSE cmd[e].status
      PROVE  LedgerInv' /\ LedgerStep
  BY <1>1, <1>2, <1>3, LedgerRefuse, ClaimsNone DEF LeaseSome, WriteLeased, LedgerInv
<1>4. ASSUME NEW c \in Commands, ReadStatus(c) PROVE LedgerInv' /\ LedgerStep
  <2>1. loop.at \notin {"mark", "write"} /\ loop'.at \notin {"mark", "write"} /\ GetCommand(c)
    BY <1>4 DEF ReadStatus, IdleLoop
  <2>2. QED
    BY <1>1, <1>3, <2>1, GetCommandExpires
<1>5. ASSUME NEW d \in Devices, RevokeDevice(d) PROVE LedgerInv' /\ LedgerStep
  <2>1. loop.at \notin {"mark", "write"} /\ loop'.at \notin {"mark", "write"}
    BY <1>5 DEF RevokeDevice, IdleLoop
  <2> DEFINE S == {c \in Commands : cmd[c].device = d /\ cmd[c].status \in Open}
  <2>2. /\ \A e \in S : cmd[e].status \in Open
        /\ \A e \in Commands : cmd'[e].status = IF e \in S THEN "expired" ELSE cmd[e].status
    BY <1>1, <1>5 DEF RevokeDevice, Row
  <2>3. S \in SUBSET Commands
    OBVIOUS
  <2> HIDE DEF S
  <2>4. QED
    BY <1>3, <2>1, <2>2, <2>3
<1>6. ASSUME NEW d \in Devices, NEW p \in PollKinds, LeaseExpire(d, p)
      PROVE  LedgerInv' /\ LedgerStep
  <2>1. loop.at \notin {"mark", "write"} /\ loop'.at \notin {"mark", "write"}
    BY <1>6 DEF LeaseExpire, IdleLoop
  <2> DEFINE S == {c \in Commands : Overdue(c)}
  <2>2. /\ \A e \in S : cmd[e].status \in Open
        /\ \A e \in Commands : cmd'[e].status = IF e \in S THEN "expired" ELSE cmd[e].status
    BY <1>1, <1>6 DEF LeaseExpire, Overdue, Row
  <2>3. S \in SUBSET Commands
    OBVIOUS
  <2> HIDE DEF S
  <2>4. QED
    BY <1>3, <2>1, <2>2, <2>3
<1>7. ASSUME \/ \E c \in Commands : GrowStale(c)
             \/ \E d \in Devices, w \in Workspaces : SetWorkspaceEnabled(d, w)
      PROVE  LedgerInv' /\ LedgerStep
  <2>1. loop' = loop /\ \A e \in Commands : cmd'[e].status = cmd[e].status
    BY <1>1, <1>7 DEF GrowStale, SetWorkspaceEnabled, Row
  <2>3. loop.at = "write" => loop.post.c \in Commands
    BY Types, LoopKinds DEF CompleteCall, Post
  <2>4. LeaseSome' /\ WriteLeased'
    BY <2>1, <2>3 DEF LeaseSome, WriteLeased, LedgerInv
  <2>5. QED
    BY <1>1, <1>2, <2>1, <2>4, LedgerStill, ClaimsKept DEF LedgerInv
<1>8. QED
  BY <1>4, <1>5, <1>6, <1>7

----------------------------------------------------------------------------
(* Ledger: the lease, the answers and the agent *)

\* An agent that moves while the table and the event loop stand still.
LEMMA LedgerMoves ==
    ASSUME TypeOK, LedgerInv, NEW d \in Devices, UNCHANGED <<cmd, runs>>, SameClaims,
           loop'.at = "mark" => loop.at = "mark" /\ loop'.rows = loop.rows,
           loop'.at = "write" => loop' = loop,
           agent'[d].batch \subseteq agent[d].batch,
           agent'[d].at \in {"down", "exited", "idle", "polling"} => agent'[d].batch = {},
           \A e \in Devices \ {d} : agent'[e] = agent[e]
    PROVE  LedgerInv' /\ LedgerStep
<1>1. LeaseSome' /\ WriteLeased'
  BY DEF LeaseSome, WriteLeased, LedgerInv
<1>2. IdleBatches'
  BY DEF IdleBatches, LedgerInv
<1>3. LedgerStep
  BY RowsAreCommands, LedgerDrop
<1>4. QED
  BY <1>1, <1>2, <1>3 DEF LedgerInv

LEMMA LedgerAgent ==
    ASSUME TypeOK, LedgerInv, NEW d \in Devices,
           \/ PollArrives(d) \/ AgentStart(d) \/ TurnEnds(d) \/ SendResult(d) \/ GiveUp(d)
    PROVE  LedgerInv' /\ LedgerStep
<1>1. agent \in [Devices -> Agent]
  BY Types
<1>2. UNCHANGED <<cmd, thread, loop, runs>>
  BY DEF PollArrives, AgentStart, TurnEnds, SendResult, GiveUp, dbVars
<1>3. \A e \in Devices \ {d} : agent'[e] = agent[e]
  BY <1>1 DEF PollArrives, AgentStart, TurnEnds, SendResult, GiveUp
<1>4. /\ agent'[d].batch \subseteq agent[d].batch
      /\ agent'[d].at \in {"down", "exited", "idle", "polling"} => agent'[d].batch = {}
  <2>1. CASE PollArrives(d)
    <3>1. agent[d] \in FreeAgent /\ agent[d].batch = {}
      BY <1>1, <2>1 DEF PollArrives, Agent, FreeAgent, BusyAgent, IdleBatches, LedgerInv
    <3>2. QED
      BY <1>1, <2>1, <3>1 DEF PollArrives, FreeAgent
  <2>2. CASE AgentStart(d)
    BY <1>1, <2>2 DEF AgentStart, Ready, Stopped
  <2>3. CASE TurnEnds(d)
    <3>1. agent[d] \in BusyAgent
      BY <2>3, BusyAgents DEF TurnEnds
    <3>2. PICK ok \in BOOLEAN :
              agent' = [agent EXCEPT ![d] =
                  [@ EXCEPT !.at = "posting", !.ok = ok,
                            !.since = agent[d].since \cup {cmd[agent[d].cur].ws}]]
      BY <2>3 DEF TurnEnds
    <3>3. agent'[d] = [agent[d] EXCEPT !.at = "posting", !.ok = ok,
                            !.since = agent[d].since \cup {cmd[agent[d].cur].ws}]
      BY <1>1, <3>2
    <3>4. agent'[d].batch = agent[d].batch /\ agent'[d].at = "posting"
      BY <3>1, <3>3 DEF BusyAgent
    <3>5. QED
      BY <3>4
  <2>4. CASE SendResult(d)
    <3>1. agent[d] \in BusyAgent
      BY <2>4, BusyAgents DEF SendResult
    <3>2. QED
      BY <1>1, <2>4, <3>1 DEF SendResult, BusyAgent
  <2>5. CASE GiveUp(d)
    <3>1. agent[d] \in BusyAgent
      BY <2>5, BusyAgents DEF GiveUp
    <3>2. agent'[d] \in {Ready, Exited, [agent[d] EXCEPT !.at = "posting", !.ok = FALSE]}
      BY <1>1, <2>5 DEF GiveUp, PostFailed
    <3>3. QED
      BY <3>1, <3>2 DEF BusyAgent, Ready, Exited, Stopped
  <2>6. QED
    BY <2>1, <2>2, <2>3, <2>4, <2>5
<1>5. QED
  BY <1>2, <1>3, <1>4, LedgerMoves, ClaimsKept

LEMMA LedgerDown ==
    ASSUME TypeOK, LedgerInv, NEW d \in Devices, AgentCrash(d) \/ PollDropped(d)
    PROVE  LedgerInv' /\ LedgerStep
<1>1. agent \in [Devices -> Agent]
  BY Types
<1>2. /\ UNCHANGED <<cmd, thread, runs>>
      /\ HangUp(d)
      /\ \A e \in Devices \ {d} : agent'[e] = agent[e]
      /\ agent'[d] \in {Stopped, Ready, Exited}
  BY <1>1 DEF AgentCrash, PollDropped, dbVars
<1>3. agent'[d].batch = {}
  BY <1>2 DEF Ready, Exited, Stopped
<1>5. SameClaims
  <2>1. CASE loop' = loop
    BY <2>1, ClaimsKept
  <2>2. CASE loop.at \in {"select", "mark"} /\ loop' = [loop EXCEPT !.poll = "orphan"]
    <3>1. loop \in LeaseCall
      BY <2>2, Types, LoopKinds
    <3>2. loop'.at = loop.at /\ loop'.rows = loop.rows
      BY <2>2, <3>1 DEF LeaseCall
    <3>3. QED
      BY <2>2, <3>2 DEF SameClaims, Chosen, ReadReport
  <2>3. QED
    BY <1>2, <2>1, <2>2 DEF HangUp
<1>4. QED
  BY <1>2, <1>3, <1>5, HangUpKeeps, LedgerMoves

LEMMA LedgerHandle ==
    ASSUME TypeOK, BridgeInv, LedgerInv, NEW d \in Devices, Handle(d)
    PROVE  LedgerInv' /\ LedgerStep
<1>1. PICK c \in agent[d].batch :
          /\ c \in Commands
          /\ agent'[d].batch = agent[d].batch \ {c}
          /\ agent'[d].at \in {"running", "posting"}
          /\ \A e \in Devices \ {d} : agent'[e] = agent[e]
          /\ runs' = runs \/ runs' = [runs EXCEPT ![c] = @ + 1]
  BY HandleTakes
<1>2. UNCHANGED <<cmd, thread, loop>>
  BY DEF Handle, dbVars
<1>3. CASE runs' = runs
  BY <1>1, <1>2, <1>3, LedgerMoves, ClaimsKept
<1>4. CASE runs' = [runs EXCEPT ![c] = @ + 1]
  <2>1. LedgerInv'
    <3>1. LeaseSome' /\ WriteLeased'
      BY <1>2 DEF LeaseSome, WriteLeased, LedgerInv
    <3>2. IdleBatches'
      BY <1>1 DEF IdleBatches, LedgerInv
    <3>3. QED
      BY <3>1, <3>2 DEF LedgerInv
  <2>2. LedgerStatus' = LedgerStatus
    BY <1>2, LedgerKept
  <2>3. runs[c] = 0 /\ runs'[c] = 1 /\ \A e \in Commands \ {c} : runs'[e] = runs[e]
    BY <1>1, <1>4, Types DEF HeldOnce, BridgeInv
  <2>4. Started' = Started \cup {c} /\ c \notin Started
    BY <1>1, <2>3 DEF Started
  <2>5. c \in Given
    BY <1>1 DEF Given
  <2>6. Given' = Given
    <3>1. \A x : (\E e \in Devices : x \in agent'[e].batch)
                     => \E e \in Devices : x \in agent[e].batch
      BY <1>1
    <3>2. \A x : x # c /\ (\E e \in Devices : x \in agent[e].batch)
                     => \E e \in Devices : x \in agent'[e].batch
      BY <1>1
    <3>3. \A x : x \in Given <=> (\E e \in Devices : x \in agent[e].batch) \/ x \in Started
      BY DEF Given
    <3>4. \A x : x \in Given' <=> (\E e \in Devices : x \in agent'[e].batch) \/ x \in Started'
      BY DEF Given
    <3>5. \A x : x \in Given' <=> x \in Given
      BY <2>4, <2>5, <3>1, <3>2, <3>3, <3>4
    <3>6. QED
      BY <3>5
  <2>7. Ledger!Start(c)
    BY <1>2, <2>2, <2>4, <2>5, <2>6, ClaimsKept DEF Ledger!Start, SameClaims
  <2>8. QED
    BY <1>1, <2>1, <2>7 DEF LedgerStep, Ledger!Next
<1>5. QED
  BY <1>1, <1>3, <1>4

LEMMA LedgerSelect ==
    ASSUME TypeOK, LedgerInv, LeaseSelect PROVE LedgerInv' /\ LedgerStep
<1>1. loop \in LeaseCall /\ agent \in [Devices -> Agent] /\ loop.at = "select"
  BY Types, LoopKinds DEF LeaseSelect
<1>2. PICK D \in Devices : D = loop.d
  BY <1>1 DEF LeaseCall
<1>3. UNCHANGED <<cmd, runs>>
  BY DEF LeaseSelect, dbVars
<1>4. agent' = agent \/ agent' = [agent EXCEPT ![D] = Ready]
  BY <1>2 DEF LeaseSelect
<1>5. \A d \in Devices : agent'[d] = agent[d] \/ agent'[d].batch = {}
  BY <1>1, <1>4 DEF Ready, Stopped
<1>6. IdleBatches'
  BY <1>3, <1>5 DEF IdleBatches, LedgerInv
<1>7. CASE loop' = IdleLoop
  <2>1. LeaseSome' /\ WriteLeased'
    BY <1>7 DEF LeaseSome, WriteLeased, IdleLoop
  <2>2. SameClaims
    BY <1>1, <1>7, ClaimsNone DEF IdleLoop
  <2>3. \A d \in Devices : agent'[d].batch \subseteq agent[d].batch
    BY <1>5
  <2>4. LedgerStep
    BY <1>3, <2>2, <2>3, RowsAreCommands, LedgerDrop
  <2>5. QED
    BY <1>6, <2>1, <2>4 DEF LedgerInv
<1>8. ASSUME Oldest(Pending(loop.d)) # {}, agent' = agent,
             loop' = [loop EXCEPT !.at = "mark", !.rows = Oldest(Pending(loop.d))]
      PROVE  LedgerInv' /\ LedgerStep
  <2>1. loop'.at = "mark" /\ loop'.rows = Oldest(Pending(loop.d))
    BY <1>1, <1>8 DEF LeaseCall
  <2>2. /\ Oldest(Pending(loop.d)) \subseteq Commands
        /\ \A c \in Oldest(Pending(loop.d)) : cmd[c].status = "pending"
    BY DEF Oldest, Pending
  <2>3. LeaseSome' /\ WriteLeased'
    BY <1>8, <2>1 DEF LeaseSome, WriteLeased
  <2>4. Chosen = {} /\ Chosen' = Oldest(Pending(loop.d)) /\ ReadReport' = ReadReport
    BY <1>1, <2>1 DEF Chosen, ReadReport
  <2>5. LedgerStatus' = LedgerStatus /\ Started' = Started
    BY <1>3, LedgerKept DEF Started
  <2>6. Given' = Given
    BY <1>8, <2>5 DEF Given
  <2>7. \A c \in Oldest(Pending(loop.d)) : LedgerStatus[c] = "queued"
    BY <2>2, LedgerStates DEF LedgerStatus
  <2>8. Ledger!Choose(Oldest(Pending(loop.d)))
    BY <1>8, <2>4, <2>5, <2>6, <2>7 DEF Ledger!Choose
  <2>9. QED
    BY <1>6, <2>2, <2>3, <2>8 DEF LedgerStep, Ledger!Next, LedgerInv
<1>9. QED
  BY <1>7, <1>8 DEF LeaseSelect

\* A lease hands out the rows it has selected, whether or not its answer arrives and
\* whether or not they have expired meanwhile, and marks those that have not.
LEMMA LedgerMark ==
    ASSUME TypeOK, BridgeInv, LedgerInv, LeaseMark PROVE LedgerInv' /\ LedgerStep
<1>1. /\ loop \in LeaseCall /\ cmd \in [Commands -> Row] /\ agent \in [Devices -> Agent]
      /\ loop.at = "mark"
  BY Types, LoopKinds DEF LeaseMark
<1>2. PICK D \in Devices, R \in SUBSET Commands : D = loop.d /\ R = loop.rows
  BY <1>1 DEF LeaseCall
<1>3. UNCHANGED runs /\ loop'.at \notin {"mark", "write"}
  BY DEF LeaseMark, IdleLoop
<1>4. /\ R # {} /\ Chosen = R /\ Chosen' = {} /\ ReadReport' = ReadReport
  BY <1>1, <1>2, <1>3 DEF LeaseSome, LedgerInv, Chosen, ReadReport
<1>5. \A c \in Commands : cmd'[c].status =
          IF c \in R /\ cmd[c].status = "pending" THEN "leased" ELSE cmd[c].status
  BY <1>1, <1>2, <1>4 DEF LeaseMark, Row
<1>6. Started' = Started
  BY <1>3 DEF Started
<1>8. LedgerStatus' = [c \in Commands |-> IF c \in R /\ LedgerStatus[c] = "queued"
                                         THEN "handed" ELSE LedgerStatus[c]]
  <2>1. \A c \in Commands : LedgerState(cmd[c].status) = "queued" <=> cmd[c].status = "pending"
    BY <1>1 DEF LedgerState, Row, Status
  <2>2. \A c \in Commands :
            LedgerState(cmd'[c].status) =
                IF c \in R /\ LedgerState(cmd[c].status) = "queued"
                THEN "handed" ELSE LedgerState(cmd[c].status)
    BY <1>5, <2>1, LedgerStates
  <2>3. QED
    BY <2>2 DEF LedgerStatus
<1>9. loop.poll = "live" => agent[D] \in FreeAgent /\ agent[D].batch = {}
  <2>1. loop.poll = "live" => agent[D].at = "polling"
    BY <1>1, <1>2 DEF LivePolls, BridgeInv
  <2>2. QED
    BY <1>1, <2>1 DEF IdleBatches, LedgerInv, Agent, BusyAgent
<1>10. /\ \A d \in Devices \ {D} : agent'[d] = agent[d]
       /\ \/ agent'[D] = agent[D]
          \/ agent'[D].batch = {} /\ agent[D].batch = {}
          \/ agent'[D].batch = R /\ agent[D].batch = {} /\ agent'[D].at = "batch"
  <2>1. CASE agent' = agent
    BY <2>1
  <2>2. CASE loop.poll = "live" /\ \E s \in {Ready, Exited} : agent' = [agent EXCEPT ![D] = s]
    BY <1>1, <1>9, <2>2 DEF Ready, Exited, Stopped
  <2>3. CASE /\ loop.poll = "live"
             /\ agent' = [agent EXCEPT ![D] = [@ EXCEPT !.at = "batch", !.batch = R]]
    <3>1. agent'[D] = [agent[D] EXCEPT !.at = "batch", !.batch = R]
      BY <1>1, <2>3
    <3>2. agent'[D].batch = R /\ agent'[D].at = "batch"
      BY <1>9, <2>3, <3>1 DEF FreeAgent
    <3>3. QED
      BY <1>1, <1>9, <2>3, <3>2
  <2>4. QED
    BY <1>2, <2>1, <2>2, <2>3 DEF LeaseMark
<1>11. LedgerInv'
  BY <1>3, <1>10 DEF LedgerInv, LeaseSome, WriteLeased, IdleBatches
<1>12. Given' \in {Given, Given \cup R}
  <2>1. \A x : x \in Given <=> (\E e \in Devices : x \in agent[e].batch) \/ x \in Started
    BY DEF Given
  <2>2. \A x : x \in Given' <=> (\E e \in Devices : x \in agent'[e].batch) \/ x \in Started'
    BY DEF Given
  <2>3. CASE agent'[D].batch = agent[D].batch
    <3>1. \A e \in Devices : agent'[e].batch = agent[e].batch
      BY <1>10, <2>3
    <3>2. \A x : x \in Given' <=> x \in Given
      BY <1>6, <2>1, <2>2, <3>1
    <3>3. QED
      BY <3>2
  <2>4. CASE agent'[D].batch = R /\ agent[D].batch = {}
    <3>1. \A x : (\E e \in Devices : x \in agent'[e].batch)
                     <=> (\E e \in Devices : x \in agent[e].batch) \/ x \in R
      BY <1>10, <2>4
    <3>2. \A x : x \in Given' <=> x \in Given \/ x \in R
      BY <1>6, <2>1, <2>2, <3>1
    <3>3. QED
      BY <3>2
  <2>5. QED
    BY <1>10, <2>3, <2>4
<1>13. Ledger!Hand
  BY <1>4, <1>6, <1>8, <1>12 DEF Ledger!Hand
<1>14. QED
  BY <1>11, <1>13 DEF LedgerStep, Ledger!Next

LEMMA AcknowledgeBatches ==
    ASSUME TypeOK, IdleBatches, NEW m \in Post, Acknowledge(m)
    PROVE  IdleBatches' /\ \A d \in Devices : agent'[d].batch = agent[d].batch
<1>1. agent \in [Devices -> Agent] /\ m.d \in Devices
  BY Types DEF Post
<1>2. CASE agent' = agent
  BY <1>2 DEF IdleBatches
<1>3. CASE Awaits(m) /\ agent' = [agent EXCEPT ![m.d] = NextCommand(@)]
  <2>1. agent[m.d] \in BusyAgent
    BY <1>1, <1>3, BusyAgents DEF Awaits
  <2>2. /\ agent'[m.d].batch = agent[m.d].batch
        /\ agent'[m.d].at = IF agent[m.d].batch = {} THEN "idle" ELSE "batch"
    BY <1>1, <1>3, <2>1 DEF NextCommand, BusyAgent
  <2>3. \A d \in Devices \ {m.d} : agent'[d] = agent[d]
    BY <1>1, <1>3
  <2>4. QED
    BY <2>2, <2>3 DEF IdleBatches
<1>4. QED
  BY <1>2, <1>3 DEF Acknowledge

LEMMA LedgerRead ==
    ASSUME TypeOK, PostsHanded, LedgerInv, NEW m \in wire, CompleteRead(m)
    PROVE  LedgerInv' /\ LedgerStep
<1>1. m \in Post /\ m.c \in Commands
  BY Types DEF Post
<1>2. UNCHANGED <<cmd, runs>> /\ (agent' = agent \/ Acknowledge(m)) /\ loop.at = "idle"
  BY DEF CompleteRead, dbVars, IdleLoop
<1>3. IdleBatches' /\ \A d \in Devices : agent'[d].batch = agent[d].batch
  BY <1>1, <1>2, AcknowledgeBatches DEF IdleBatches, LedgerInv
<1>4. CASE loop' = loop
  <2>1. LeaseSome' /\ WriteLeased'
    BY <1>2, <1>4 DEF LeaseSome, WriteLeased
  <2>2. LedgerStep
    BY <1>2, <1>3, <1>4, RowsAreCommands, LedgerDrop, ClaimsKept
  <2>3. QED
    BY <1>3, <2>1, <2>2 DEF LedgerInv
<1>5. ASSUME cmd[m.c].status \in Open, loop' = [at |-> "write", post |-> m], agent' = agent
      PROVE  LedgerInv' /\ LedgerStep
  <2>1. cmd[m.c].status = "leased"
    BY <1>5 DEF PostsHanded, Open, Fresh
  <2>2. LeaseSome' /\ WriteLeased'
    BY <1>2, <1>5, <2>1 DEF LeaseSome, WriteLeased
  <2>3. ReadReport = {} /\ ReadReport' = {m.c} /\ Chosen' = Chosen
    BY <1>2, <1>5 DEF Chosen, ReadReport
  <2>4. LedgerStatus' = LedgerStatus /\ Started' = Started
    BY <1>2, LedgerKept DEF Started
  <2>5. Given' = Given
    BY <1>5, <2>4 DEF Given
  <2>6. LedgerStatus[m.c] = "handed"
    BY <1>1, <2>1, LedgerStates DEF LedgerStatus
  <2>7. Ledger!Report(m.c)
    BY <2>3, <2>4, <2>5, <2>6 DEF Ledger!Report
  <2>8. QED
    BY <1>1, <1>3, <2>2, <2>7 DEF LedgerStep, Ledger!Next, LedgerInv
<1>6. QED
  BY <1>4, <1>5 DEF CompleteRead

\* The UPDATE of complete settles a handed command: as a success only when it
\* was started.
LEMMA LedgerWrite ==
    ASSUME TypeOK, BridgeInv, LedgerInv, CompleteWrite PROVE LedgerInv' /\ LedgerStep
<1>1. loop.at = "write" /\ loop.post \in Post /\ cmd \in [Commands -> Row]
  BY Types, LoopKinds DEF CompleteWrite, CompleteCall
<1>2. PICK p \in Post : p = loop.post
  BY <1>1
<1>3. PICK c \in Commands : c = p.c
  BY DEF Post
<1>4. UNCHANGED runs /\ loop'.at \notin {"mark", "write"} /\ Acknowledge(p)
  BY <1>2 DEF CompleteWrite, IdleLoop
<1>5. IdleBatches' /\ \A d \in Devices : agent'[d].batch = agent[d].batch
  BY <1>4, AcknowledgeBatches DEF LedgerInv
<1>6. LedgerInv'
  BY <1>4, <1>5 DEF LedgerInv, LeaseSome, WriteLeased
<1>7. cmd[c].status \in {"leased", "expired"}
  BY <1>1, <1>2, <1>3 DEF WriteLeased, LedgerInv
<1>8. \A e \in Commands :
          cmd'[e].status = IF e = c THEN IF p.ok THEN "done" ELSE "failed" ELSE cmd[e].status
  BY <1>1, <1>2, <1>3 DEF CompleteWrite, Row
<1>9. Started' = Started
  BY <1>4 DEF Started
<1>10. Given' = Given
  BY <1>5, <1>9 DEF Given
<1>11. LedgerStatus[c] \in {"handed", "refused"}
  BY <1>7, LedgerStates DEF LedgerStatus
<1>15. c \in ReadReport /\ ReadReport' = {} /\ Chosen' = Chosen
  BY <1>1, <1>2, <1>3, <1>4 DEF Chosen, ReadReport
<1>12. CASE p.ok
  <2>1. c \in Started
    <3>1. runs[c] # 0
      BY <1>1, <1>2, <1>3, <1>12 DEF HonestPosts, BridgeInv
    <3>2. runs[c] \in Nat
      BY Types
    <3>3. QED
      BY <3>1, <3>2 DEF Started
  <2>2. LedgerStatus' = [LedgerStatus EXCEPT ![c] = "succeeded"]
    <3>1. \A e \in Commands :
              LedgerState(cmd'[e].status) = IF e = c THEN "succeeded" ELSE LedgerState(cmd[e].status)
      BY <1>8, <1>12, LedgerStates
    <3>2. QED
      BY <3>1 DEF LedgerStatus
  <2>3. Ledger!Succeed(c)
    BY <1>9, <1>10, <1>11, <1>15, <2>1, <2>2 DEF Ledger!Succeed, Ledger!Settle
  <2>4. QED
    BY <1>6, <2>3 DEF LedgerStep, Ledger!Next
<1>13. CASE ~p.ok
  <2>1. LedgerStatus' = [LedgerStatus EXCEPT ![c] = "failed"]
    <3>1. \A e \in Commands :
              LedgerState(cmd'[e].status) = IF e = c THEN "failed" ELSE LedgerState(cmd[e].status)
      BY <1>8, <1>13, LedgerStates
    <3>2. QED
      BY <3>1 DEF LedgerStatus
  <2>2. Ledger!Fail(c)
    BY <1>9, <1>10, <1>11, <1>15, <2>1 DEF Ledger!Fail, Ledger!Settle
  <2>3. QED
    BY <1>6, <2>2 DEF LedgerStep, Ledger!Next
<1>14. QED
  BY <1>12, <1>13

LEMMA LedgerAll ==
    ASSUME TypeOK, BridgeInv, PostsHanded, LedgerInv, [Next]_vars
    PROVE  LedgerInv' /\ LedgerStep
<1>1. CASE UNCHANGED <<cmd, loop, agent, runs>>
  <2>1. LedgerInv'
    BY <1>1 DEF LedgerInv, LeaseSome, WriteLeased, IdleBatches
  <2>2. QED
    BY <1>1, <2>1, LedgerStill, ClaimsKept
<1>2. CASE UNCHANGED vars \/ \E m \in wire : LosePost(m)
  <2>1. UNCHANGED <<cmd, loop, agent, runs>>
    BY <1>2 DEF vars, LosePost, dbVars, agentVars
  <2>2. QED
    BY <1>1, <2>1
<1>3. ASSUME NEW t \in Threads,
             \/ EnqueueInsert(t) \/ Wait(t)
             \/ \E c \in Commands, d \in Devices, w \in Workspaces : EnqueueCheck(t, c, d, w)
      PROVE  LedgerInv' /\ LedgerStep
  BY <1>3, LedgerInsert, LedgerWait, LedgerCheck
<1>4. CASE \/ \E c \in Commands : ReadStatus(c) \/ GrowStale(c)
           \/ \E d \in Devices : RevokeDevice(d)
           \/ \E d \in Devices, w \in Workspaces : SetWorkspaceEnabled(d, w)
           \/ \E d \in Devices, p \in PollKinds : LeaseExpire(d, p)
  BY <1>4, LedgerTable
<1>5. ASSUME NEW d \in Devices,
             \/ PollArrives(d) \/ AgentStart(d) \/ AgentCrash(d) \/ PollDropped(d)
             \/ Handle(d) \/ TurnEnds(d) \/ SendResult(d) \/ GiveUp(d)
      PROVE  LedgerInv' /\ LedgerStep
  BY <1>5, LedgerAgent, LedgerDown, LedgerHandle
<1>6. CASE LeaseSelect \/ LeaseMark \/ CompleteWrite
  BY <1>6, LedgerSelect, LedgerMark, LedgerWrite
<1>7. ASSUME NEW m \in wire, CompleteRead(m) PROVE LedgerInv' /\ LedgerStep
  BY <1>7, LedgerRead
<1>8. QED
  BY <1>2, <1>3, <1>4, <1>5, <1>6, <1>7 DEF Next

LEMMA LedgerStart == Init => LedgerInv /\ Ledger!Init
<1> SUFFICES ASSUME Init PROVE LedgerInv /\ Ledger!Init
  OBVIOUS
<1>1. /\ \A c \in Commands : cmd[c].status = "none" /\ runs[c] = 0
      /\ \A d \in Devices : agent[d].batch = {}
      /\ loop.at = "idle" /\ \A t \in Threads : thread[t].at = "idle"
  BY DEF Init, NoRow, Stopped, IdleLoop, IdleThread
<1>2. LedgerInv
  BY <1>1 DEF LedgerInv, LeaseSome, WriteLeased, IdleBatches
<1>3. Chosen = {} /\ ReadReport = {} /\ Started = {} /\ Given = {}
  BY <1>1 DEF Started, Given, Chosen, ReadReport
<1>4. LedgerStatus = [c \in Commands |-> "none"]
  BY <1>1, LedgerStates DEF LedgerStatus
<1>5. QED
  BY <1>2, <1>3, <1>4 DEF Ledger!Init

\* The queue with its polls, leases, posts and crashes, and owner threads that wait and
\* expire rows, implements the ledger: it settles every command once, chooses and hands
\* out only what was open, and succeeds only what was started, and a refusal is overtaken
\* only by the lease or the report that the event loop is in the middle of (enqueue,
\* wait_for_result, lease, complete, revoke_device, handle).
THEOREM QueueIsALedger == Spec => ImplementsLedger
<1>1. Init => TypeOK /\ BridgeInv /\ PostsHanded /\ LedgerInv /\ Ledger!Init
  BY TypeInit, InvInit, PostsInit, LedgerStart
<1>2. TypeOK /\ BridgeInv /\ PostsHanded /\ LedgerInv /\ [Next]_vars
      => (TypeOK /\ BridgeInv /\ PostsHanded /\ LedgerInv)' /\ [Ledger!Next]_(Ledger!vars)
  <2>1. BridgeInv => LivePolls
    BY DEF BridgeInv
  <2>2. QED
    BY <2>1, TypeStep, InvStep, PostsStep, LedgerAll DEF LedgerStep
<1>3. QED
  BY <1>1, <1>2, PTL DEF Spec, ImplementsLedger, Ledger!Spec
=============================================================================
