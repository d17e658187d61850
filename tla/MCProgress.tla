----------------------------- MODULE MCProgress -----------------------------
(***************************************************************************)
(* What must happen in the end, under the fairness each part states: the   *)
(* OS task queue and the two controllers that watch an input line.         *)
(* As in MCControl, one part moves and the others stand still.             *)
(***************************************************************************)
EXTENDS OsTasks, ContinuationWatchdog, Autopilot, TLC

CONSTANT ProgressParts
VARIABLE part

ProgressVars == <<part, TaskVars, CwVars, ApVars>>

\* The parts that stand still begin in one way.
Begin(name, chosen, casts) == part # name => chosen = CHOOSE c \in casts : TRUE
ProgressInit ==
    /\ part \in ProgressParts
    /\ TaskInit /\ CwInit /\ ApInit
    /\ part # "watchdog" => cwAuto = [auto |-> TRUE, proactive |-> TRUE]
    /\ Begin("tasks", cast, Casts) /\ Begin("autopilot", apCast, ApCasts)

TasksMoves == part = "tasks" /\ TaskNext /\ UNCHANGED <<part, CwVars, ApVars>>
WatchdogMoves == part = "watchdog" /\ CwNext /\ UNCHANGED <<part, TaskVars, ApVars>>
AutopilotMoves == part = "autopilot" /\ ApNext /\ UNCHANGED <<part, TaskVars, CwVars>>

ProgressNext == TasksMoves \/ WatchdogMoves \/ AutopilotMoves

\* The fairness of each part, while it is the one that moves.
ProgressFairness ==
    /\ \A p \in Tickers : WF_TaskState(part = "tasks" /\ Ticks(p))
    /\ \A t \in Tasks : /\ WF_TaskState(part = "tasks" /\ AckTimeout(t))
                        /\ WF_TaskState(part = "tasks" /\ WorkStall(t))
    /\ SF_TaskState(part = "tasks" /\ AgentReplies) /\ WF_TaskState(part = "tasks" /\ OwnerAnswers)
    /\ WF_CwVars(part = "watchdog" /\ CwSweep) /\ WF_CwVars(part = "watchdog" /\ CwDwell)
    /\ \A k \in CwKey : WF_CwVars(part = "watchdog" /\ CwCooled(k))
    /\ WF_ApState(part = "autopilot" /\ ApTicks) /\ WF_ApState(part = "autopilot" /\ ApLineAges)

ProgressSpec == ProgressInit /\ [][ProgressNext]_ProgressVars /\ ProgressFairness

SomeCasts == {[tasks |-> 1, rivals |-> {}, resets |-> 1]}
SomeApCasts == {[stages |-> 1, types |-> TRUE, convs |-> 1]}

--------------------------------------------------------------------------
(* No line stays in an agent's input without being sent, taken away or     *)
(* brought to the owner, by the continuation watchdog and by the autopilot.*)
LinesAreReported == CwNoSilentLine /\ ApStuckLineReported
=============================================================================
