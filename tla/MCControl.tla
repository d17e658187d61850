----------------------------- MODULE MCControl -----------------------------
(***************************************************************************)
(* Small instances of the controllers that type into an agent's pane and   *)
(* of the two that only watch it: the OS task queue, the continuation      *)
(* watchdog, the autopilot, the context rotation, the life cycle of an     *)
(* agent and the orchestrator.  Each keeps its own tables, so TLC looks at *)
(* one part at a time: `part` says which, and the others stand still.      *)
(***************************************************************************)
EXTENDS OsTasks, ContinuationWatchdog, Autopilot, ContextRotation, DirectAgents, Orchestrator, TLC

CONSTANT ControlParts
VARIABLE part

ControlVars == <<part, TaskVars, CwVars, ApVars, RcVars, LfVars, OrVars>>

\* The parts that stand still begin in one way.
First(S) == CHOOSE x \in S : TRUE
ControlInit ==
    /\ part \in ControlParts
    /\ TaskInit /\ CwInit /\ ApInit /\ RcInit /\ LfInit /\ OrInit
    /\ part # "tasks" => cast = First(Casts)
    /\ part # "watchdog" => cwAuto = [auto |-> TRUE, proactive |-> TRUE]
    /\ part # "autopilot" => apCast = First(ApCasts)
    /\ part # "rotation" => rcCast = First(RcCasts)
    /\ part # "lifecycle" => lfAgent = [alive |-> TRUE, state |-> "idle", conv |-> 1, report |-> "none"]
    /\ part # "orchestrator" => orSetting = First(OrSettings)

TasksMoves == part = "tasks" /\ TaskNext /\ UNCHANGED <<part, CwVars, ApVars, RcVars, LfVars, OrVars>>
WatchdogMoves == part = "watchdog" /\ CwNext /\ UNCHANGED <<part, TaskVars, ApVars, RcVars, LfVars, OrVars>>
AutopilotMoves == part = "autopilot" /\ ApNext /\ UNCHANGED <<part, TaskVars, CwVars, RcVars, LfVars, OrVars>>
RotationMoves == part = "rotation" /\ RcNext /\ UNCHANGED <<part, TaskVars, CwVars, ApVars, LfVars, OrVars>>
LifecycleMoves == part = "lifecycle" /\ LfNext /\ UNCHANGED <<part, TaskVars, CwVars, ApVars, RcVars, OrVars>>
OrchestratorMoves == part = "orchestrator" /\ OrNext /\ UNCHANGED <<part, TaskVars, CwVars, ApVars, RcVars, LfVars>>

ControlNext == TasksMoves \/ WatchdogMoves \/ AutopilotMoves
            \/ RotationMoves \/ LifecycleMoves \/ OrchestratorMoves

SomeCasts == {[tasks |-> 2, rivals |-> {}, resets |-> 1], [tasks |-> 1, rivals |-> Rivals, resets |-> 0]}
SomeApCasts ==
    {[stages |-> 2, types |-> FALSE, convs |-> 1], [stages |-> 1, types |-> TRUE, convs |-> 1],
     [stages |-> 1, types |-> FALSE, convs |-> 2]}
SomeRcCasts ==
    {[size |-> TRUE, share |-> FALSE, facts |-> 0, losses |-> 1],
     [size |-> FALSE, share |-> TRUE, facts |-> 1, losses |-> 1],
     [size |-> TRUE, share |-> TRUE, facts |-> 0, losses |-> 0]}
OneThenTwo == (1 :> {} @@ 2 :> {1})
SomeOrSettings ==
    {[goal |-> TRUE, advance |-> FALSE, settles |-> FALSE, losses |-> 1],
     [goal |-> TRUE, advance |-> FALSE, settles |-> TRUE, losses |-> 0],
     [goal |-> FALSE, advance |-> TRUE, settles |-> FALSE, losses |-> 1]}

ControlSpec == ControlInit /\ [][ControlNext]_ControlVars

\* The types of the part that moves.
ControlTypeOK ==
    /\ part = "tasks" => TaskTypeOK
    /\ part = "watchdog" => CwTypeOK
    /\ part = "autopilot" => ApTypeOK
    /\ part = "rotation" => RcTypeOK
    /\ part = "lifecycle" => LfTypeOK
    /\ part = "orchestrator" => OrTypeOK
=============================================================================
