-------------------------- MODULE ContextRotation --------------------------
(***************************************************************************)
(* The two mechanisms that rotate the context of a live agent: by the size *)
(* of the conversation's file, through the actuator                        *)
(* (core/context_budget.py), and by the percentage the pane shows, through *)
(* agent_send (core/agent_context_budget.py).  Each writes a checkpoint,   *)
(* types /clear and tells the agent to resume; each keeps a ledger of its  *)
(* own, written after the keystrokes, and the keys agent_send remembers    *)
(* for a day are written after them too.                                   *)
(*                                                                         *)
(* The newest conversation file lags behind the conversation: /clear opens *)
(* a new one at the next message.  The service may stop at any point.      *)
(***************************************************************************)
EXTENDS Integers, FiniteSets

CONSTANTS
    RcConvs,   \* bound: a rotation starts in conversations 0..RcConvs - 1
    RcFacts,   \* bound: versions of the facts a handoff is hashed from
    RcLosses,  \* bound: records of a typed /clear that are lost
    RcCasts    \* bound: which of the two run, over how many facts and losses

ASSUME RcAssumption ==
    /\ RcConvs \in Nat \ {0} /\ RcFacts \in Nat /\ RcLosses \in Nat
    /\ RcCasts \subseteq [size : BOOLEAN, share : BOOLEAN, facts : 0..RcFacts, losses : 0..RcLosses]

VARIABLES
    rcPane,     \* the agent's pane: what runs, its input line, its conversation
    rcFile,     \* the newest conversation file
    rcFacts,    \* branch, commit, dirty files, phase: the body of a handoff
    rcLedger,   \* context_rotation: checkpoints and rotations by conversation
    rcActed,    \* cp_action: conversations whose /clear was verified
    rcJob,      \* rotate
    rcRow,      \* agent_context_rotation
    rcSettled,  \* the percentage sweep's view of the agent's rest
    rcSweep,    \* evaluate
    rcKeys,     \* deliveries: the idempotency keys that are taken
    rcClears,   \* /clear put on the line for a conversation by rotate since the last one
                \* whose verification failed; history
    rcTyped,    \* /clear typed for a handoff's hash by evaluate since its key lapsed; history
    rcLost,     \* keystrokes nothing recorded, so far
    rcCast      \* the member of RcCasts this behaviour is bounded by; constant

RcState == <<rcPane, rcFile, rcFacts, rcLedger, rcActed, rcJob, rcRow, rcSettled, rcSweep, rcKeys,
            rcClears, rcTyped, rcLost>>
RcVars == <<RcState, rcCast>>

----------------------------------------------------------------------------
RcConv == 0..RcConvs + 2
RcHash == 0..RcFacts
RcLoad == {"small", "soft", "hard"}      \* below the soft limit, below the hard one, above
\* A pane that is busy runs a turn or shows a dialog.
RcLine == {"none", "clear", "other"}     \* clear: a bare /clear nobody submitted
RcStatus == {"checkpoint_only", "rotated", "rotated_resume_unverified"}

RcTypeOK ==
    /\ rcPane \in [mode : {"rest", "busy"}, line : RcLine, conv : RcConv, load : RcLoad]
    /\ rcFile \in [conv : RcConv, load : RcLoad]
    /\ rcFacts \in RcHash
    /\ rcLedger \subseteq RcConv \X RcStatus
    /\ rcActed \subseteq RcConv
    /\ rcJob \in [at : {"idle", "clear", "verify", "again", "resume"}, conv : RcConv]
    /\ rcRow \in [stage : {"none", "handoff_written", "cleared", "resumed"}, hash : RcHash,
                  rotated : {"never", "recently", "long ago"}]
    /\ rcSettled \in {"no", "seen", "settled"}
    /\ rcSweep \in [at : {"idle", "clear", "clear typed", "resume", "resume typed", "save"},
                    hash : RcHash, own : BOOLEAN]
    /\ rcKeys \subseteq RcHash \X {"clear", "resume"}
    /\ rcClears \in [RcConv -> 0..RcLosses + 1] /\ rcTyped \in [RcHash -> 0..RcLosses + 1]
    /\ rcLost \in 0..RcLosses /\ rcCast \in RcCasts

RcNoJob == [at |-> "idle", conv |-> 0]
RcNoSweep == [at |-> "idle", hash |-> 0, own |-> FALSE]

RcInit ==
    /\ rcPane = [mode |-> "rest", line |-> "none", conv |-> 0, load |-> "small"]
    /\ rcFile = [conv |-> 0, load |-> "small"]
    /\ rcFacts = 0 /\ rcLedger = {} /\ rcActed = {} /\ rcKeys = {}
    /\ rcJob = RcNoJob /\ rcSweep = RcNoSweep /\ rcSettled = "no"
    /\ rcRow = [stage |-> "none", hash |-> 0, rotated |-> "never"]
    /\ rcClears = [c \in RcConv |-> 0] /\ rcTyped = [h \in RcHash |-> 0] /\ rcLost = 0
    /\ rcCast \in RcCasts

----------------------------------------------------------------------------
(* Keystrokes *)

\* The new conversation knows nothing; its file may exist at once or later.
RcCleared ==
    LET c == rcPane.conv + 1 IN
    /\ rcPane' = [mode |-> "rest", line |-> "none", conv |-> c, load |-> "small"]
    /\ rcFile' \in {rcFile, [conv |-> c, load |-> "small"]}

\* A paste and Enter on the pane as it is: /clear or the resume instruction runs,
\* stays on the line, joins what is there, or answers the dialog that is open.
RcKeystrokes(text) ==
    \/ /\ rcPane.mode = "rest" /\ rcPane.line # "none"
       /\ rcPane' = [rcPane EXCEPT !.line = "none", !.mode = "busy"] /\ rcFile' = rcFile
    \/ /\ rcPane.mode = "rest" /\ rcPane.line = "none"
       /\ \/ text = "clear" /\ RcCleared
          \/ /\ text = "resume" /\ rcPane' = [rcPane EXCEPT !.mode = "busy"] /\ rcFile' = rcFile
          \/ /\ rcPane' = [rcPane EXCEPT !.line = IF text = "clear" THEN "clear" ELSE "other"]
             /\ rcFile' = rcFile
    \/ rcPane.mode = "busy" /\ UNCHANGED <<rcPane, rcFile>>   \* queued, or the dialog is answered

RcEnter ==     \* on a bare /clear
    IF rcPane.mode = "rest" THEN RcCleared \/ UNCHANGED <<rcPane, rcFile>>
    ELSE UNCHANGED <<rcPane, rcFile>>

----------------------------------------------------------------------------
(* By the size of the conversation: context_budget *)

\* phase
RcSafeBoundary == rcPane.mode = "rest" /\ rcPane.line = "none"

\* measure: the newest conversation file and its size.
RcMeasure == rcFile

\* build_checkpoint, write_checkpoint and verify_checkpoint: without a checkpoint that
\* reads back whole the rotation is refused.
RcCheckpoint(c) == rcJob' \in {rcJob, [at |-> "clear", conv |-> c]}

\* tick with the guards of rotate.
RcTick ==
    LET c == RcMeasure.conv IN
    /\ rcCast.size /\ rcJob.at = "idle" /\ rcPane.conv < RcConvs /\ RcSafeBoundary
    /\ \/ /\ RcMeasure.load = "hard" /\ <<c, "rotated">> \notin rcLedger
          /\ RcCheckpoint(c) /\ rcLedger' = rcLedger
       \/ /\ RcMeasure.load = "soft"
          /\ {<<c, "checkpoint_only">>, <<c, "rotated">>} \cap rcLedger = {}
          /\ rcLedger' = rcLedger \cup {<<c, "checkpoint_only">>} /\ rcJob' = rcJob
    /\ UNCHANGED <<rcPane, rcFile, rcFacts, rcActed, rcRow, rcSettled, rcSweep, rcKeys, rcClears, rcTyped, rcLost>>

\* The actuator's guards on /clear for this conversation; it submits a /clear that
\* is on the line already.
RcMayActuate ==
    /\ rcPane.mode = "rest" /\ rcPane.line \in {"none", "clear"}
    /\ rcJob.conv \in rcActed => rcPane.line = "clear"

\* Refused, rotate ends; the ledger's row is read by nobody.
RcClear ==
    /\ rcJob.at = "clear"
    /\ \/ rcJob' = RcNoJob /\ UNCHANGED <<rcPane, rcFile, rcClears>>
       \/ /\ RcMayActuate
          /\ IF rcPane.line = "clear" THEN RcEnter /\ rcClears' = rcClears
             ELSE RcKeystrokes("clear") /\ rcClears' = [rcClears EXCEPT ![rcJob.conv] = @ + 1]
          /\ rcJob' = [rcJob EXCEPT !.at = "verify"]
    /\ UNCHANGED <<rcFacts, rcLedger, rcActed, rcRow, rcSettled, rcSweep, rcKeys, rcTyped, rcLost>>

\* deliver_and_verify's retry: Enter on the line, or the same text in its place.
RcClearAgain ==
    /\ rcJob.at = "verify" /\ rcPane.line = "clear"
    /\ RcEnter
    /\ rcJob' = [rcJob EXCEPT !.at = "again"]
    /\ UNCHANGED <<rcFacts, rcLedger, rcActed, rcRow, rcSettled, rcSweep, rcKeys, rcClears, rcTyped, rcLost>>

\* The verdict is recorded after the polls; unverified, rotate ends.
RcCheck ==
    /\ rcJob.at \in {"verify", "again"}
    /\ \E ok \in BOOLEAN :
          /\ ok => rcPane.line = "none"
          /\ rcActed' = IF ok THEN rcActed \cup {rcJob.conv} ELSE rcActed \ {rcJob.conv}
          /\ rcJob' = IF ok THEN [rcJob EXCEPT !.at = "resume"] ELSE RcNoJob
          /\ rcClears' = IF ok THEN rcClears ELSE [rcClears EXCEPT ![rcJob.conv] = 0]
    /\ UNCHANGED <<rcPane, rcFile, rcFacts, rcLedger, rcRow, rcSettled, rcSweep, rcKeys, rcTyped, rcLost>>

\* The resume instruction, while the pane settles at most four times, and the row.
RcResume ==
    /\ rcJob.at = "resume"
    /\ \E ok \in BOOLEAN :
          /\ \/ ~ok /\ UNCHANGED <<rcPane, rcFile>>
             \/ /\ rcPane.mode = "rest" /\ rcPane.line = "none"
                /\ RcKeystrokes("resume") /\ (ok => rcPane'.line = "none")
          /\ rcLedger' = rcLedger \cup
                {<<rcJob.conv, IF ok THEN "rotated" ELSE "rotated_resume_unverified">>}
    /\ rcJob' = RcNoJob
    /\ UNCHANGED <<rcFacts, rcActed, rcRow, rcSettled, rcSweep, rcKeys, rcClears, rcTyped, rcLost>>

----------------------------------------------------------------------------
(* By the percentage the pane shows: agent_context_budget.evaluate *)

\* can_rotate_again
RcMayRepeat ==
    rcRow.rotated = "never" \/ (rcRow.rotated = "long ago" /\ rcRow.hash # rcFacts)

\* at_safe_boundary, stably_idle and the input line
RcMayClear ==
    rcPane.mode = "rest" /\ rcSettled = "settled" /\ rcPane.line \in {"none", "clear"}

\* A rotation that awaits its resume is all a sweep looks at.
RcAwaited ==
    /\ rcRow.stage = "cleared"
    /\ rcRow' = IF rcPane.mode = "busy" THEN [rcRow EXCEPT !.stage = "resumed"] ELSE rcRow
    /\ rcSweep' = rcSweep

RcHandoff ==
    /\ rcRow.stage # "cleared"
    /\ IF rcPane.load = "hard" /\ RcMayClear /\ RcMayRepeat
       THEN /\ rcRow' = [stage |-> "handoff_written", hash |-> rcFacts, rotated |-> "never"]
            /\ rcSweep' = [at |-> "clear", hash |-> rcFacts, own |-> rcPane.line = "clear"]
       ELSE UNCHANGED <<rcRow, rcSweep>>

RcEvaluate ==
    /\ rcCast.share /\ rcSweep.at = "idle" /\ rcPane.conv < RcConvs
    /\ rcSettled' = IF rcPane.mode # "rest" THEN "no" ELSE IF rcSettled = "no" THEN "seen" ELSE rcSettled
    /\ RcAwaited \/ RcHandoff
    /\ UNCHANGED <<rcPane, rcFile, rcFacts, rcLedger, rcActed, rcJob, rcKeys, rcClears, rcTyped, rcLost>>

\* Mutant: the key is not looked up.
RcKeyIgnored(text, h) == FALSE

RcKeyTaken(text, h) == <<h, text>> \in rcKeys

\* agent_send: refused while a turn runs and not sent for a key that is taken, both
\* without an exception; or typed, the key still to be recorded.
RcSkips(text, h) ==
    /\ rcPane.mode = "busy" \/ RcKeyTaken(text, h)
    /\ UNCHANGED <<rcPane, rcFile, rcTyped>>
RcTypes(text, h) ==
    /\ ~RcKeyTaken(text, h)
    /\ RcKeystrokes(text)
    /\ rcTyped' = IF text = "clear" THEN [rcTyped EXCEPT ![h] = @ + 1] ELSE rcTyped

\* submit_clear raises unless the line still holds a bare /clear.
RcSweepClear ==
    /\ rcSweep.at = "clear"
    /\ \/ /\ \/ rcSweep.own /\ rcPane.line = "clear" /\ RcEnter /\ rcTyped' = rcTyped
             \/ ~rcSweep.own /\ RcSkips("clear", rcSweep.hash)
          /\ \E next \in {"resume", "save"} : rcSweep' = [rcSweep EXCEPT !.at = next]
       \/ /\ ~rcSweep.own /\ RcTypes("clear", rcSweep.hash)
          /\ rcSweep' = [rcSweep EXCEPT !.at = "clear typed"]
    /\ UNCHANGED <<rcFacts, rcLedger, rcActed, rcJob, rcRow, rcSettled, rcKeys, rcClears, rcLost>>

RcSweepResume ==
    /\ rcSweep.at = "resume"
    /\ \/ RcSkips("resume", rcSweep.hash) /\ rcSweep' = [rcSweep EXCEPT !.at = "save"]
       \/ RcTypes("resume", rcSweep.hash) /\ rcSweep' = [rcSweep EXCEPT !.at = "resume typed"]
    /\ UNCHANGED <<rcFacts, rcLedger, rcActed, rcJob, rcRow, rcSettled, rcKeys, rcClears, rcLost>>

\* _record_delivery
RcSweepKey ==
    /\ \/ /\ rcSweep.at = "clear typed"
          /\ rcKeys' = rcKeys \cup {<<rcSweep.hash, "clear">>}
          /\ \E next \in {"resume", "save"} : rcSweep' = [rcSweep EXCEPT !.at = next]
       \/ /\ rcSweep.at = "resume typed"
          /\ rcKeys' = rcKeys \cup {<<rcSweep.hash, "resume">>}
          /\ rcSweep' = [rcSweep EXCEPT !.at = "save"]
    /\ UNCHANGED <<rcPane, rcFile, rcFacts, rcLedger, rcActed, rcJob, rcRow, rcSettled, rcClears, rcTyped, rcLost>>

RcSave ==
    /\ rcSweep.at = "save"
    /\ rcRow' = [stage |-> "cleared", hash |-> rcSweep.hash, rotated |-> "recently"]
    /\ rcSweep' = RcNoSweep
    /\ UNCHANGED <<rcPane, rcFile, rcFacts, rcLedger, rcActed, rcJob, rcSettled, rcKeys, rcClears, rcTyped, rcLost>>

----------------------------------------------------------------------------
(* The agent, the owner, time and the service *)

\* A turn: the conversation grows, its file is the newest, the facts may change.
RcTurn ==
    /\ \/ rcPane.mode = "rest" /\ rcPane' = [rcPane EXCEPT !.mode = "busy", !.line = "none"]
          /\ UNCHANGED <<rcFile, rcFacts>>
       \/ /\ rcPane.mode = "busy"
          /\ \E load \in RcLoad \ {"small"} :
                /\ rcPane.load = "hard" => load = "hard"
                /\ rcPane' = [rcPane EXCEPT !.mode = "rest", !.load = load]
                /\ rcFile' = [conv |-> rcPane.conv, load |-> load]
          /\ rcFacts' \in 0..rcCast.facts
    /\ UNCHANGED <<rcLedger, rcActed, rcJob, rcRow, rcSettled, rcSweep, rcKeys, rcClears, rcTyped, rcLost>>

RcLineChanges ==
    /\ \E line \in RcLine \ {rcPane.line} : rcPane' = [rcPane EXCEPT !.line = line]
    /\ UNCHANGED <<rcFile, rcFacts, rcLedger, rcActed, rcJob, rcRow, rcSettled, rcSweep, rcKeys, rcClears, rcTyped, rcLost>>

RcTime ==
    /\ \/ rcSettled = "seen" /\ rcSettled' = "settled" /\ rcRow' = rcRow
       \/ /\ rcRow.rotated = "recently" /\ rcRow' = [rcRow EXCEPT !.rotated = "long ago"]
          /\ rcSettled' = rcSettled
    /\ UNCHANGED <<rcPane, rcFile, rcFacts, rcLedger, rcActed, rcJob, rcSweep, rcKeys, rcClears, rcTyped, rcLost>>

\* _seen_delivery drops a key that is older than _IDEMPOTENCY_TTL_SECS.
RcKeyLapses(key) ==
    /\ key \in rcKeys /\ rcKeys' = rcKeys \ {key}
    /\ rcTyped' = IF key[2] = "clear" THEN [rcTyped EXCEPT ![key[1]] = 0] ELSE rcTyped
    /\ UNCHANGED <<rcPane, rcFile, rcFacts, rcLedger, rcActed, rcJob, rcRow, rcSettled, rcSweep, rcClears, rcLost>>

\* The service stops, a call of rotate or of evaluate raises, or rotate's lease ends
\* before the verdict: what was typed and not yet recorded is lost.
RcUnrecorded ==
    \/ rcJob.at \in {"verify", "again"} /\ rcJob' = RcNoJob
    \/ rcSweep.at = "clear typed" /\ rcSweep' = RcNoSweep
RcCut ==
    /\ rcJob' \in {rcJob, RcNoJob} /\ rcSweep' \in {rcSweep, RcNoSweep}
    /\ <<rcJob', rcSweep'>> # <<rcJob, rcSweep>>
    /\ IF RcUnrecorded THEN rcLost < rcCast.losses /\ rcLost' = rcLost + 1 ELSE rcLost' = rcLost
    /\ UNCHANGED <<rcPane, rcFile, rcFacts, rcLedger, rcActed, rcRow, rcSettled, rcKeys, rcClears, rcTyped>>

RcMoves ==
    \/ RcTick \/ RcClear \/ RcClearAgain \/ RcCheck \/ RcResume
    \/ RcEvaluate \/ RcSweepClear \/ RcSweepResume \/ RcSweepKey \/ RcSave
    \/ RcTurn \/ RcLineChanges \/ RcTime \/ RcCut
    \/ \E key \in RcHash \X {"clear", "resume"} : RcKeyLapses(key)
RcNext == RcMoves /\ rcCast' = rcCast
RcSpec == RcInit /\ [][RcNext]_RcVars

----------------------------------------------------------------------------
\* "one rotation per (target, old conversation)" and "it can never loop on an
\* unchanged state": rotate puts /clear on the line once for a conversation until a
\* verification fails, evaluate once for a handoff while its key lives, and either once
\* more for each /clear that was typed and never recorded.
RcClearedOnce ==
    /\ \A c \in RcConv : rcClears[c] <= 1 + rcLost
    /\ \A h \in RcHash : rcTyped[h] <= 1 + rcLost

\* "a verified context rotation (compact handoff -> /clear -> resume)": a row that says
\* cleared is about a conversation that was cleared.
RcRecordedIsCleared == rcRow.stage = "cleared" => rcPane.conv > 0
=============================================================================
