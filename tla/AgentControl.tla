---------------------------- MODULE AgentControl ----------------------------
(***************************************************************************)
(* The control of the agents that run in tmux (core/agent_control.py): how *)
(* a pane is classified, how a message is delivered once for its key and   *)
(* attributed to its caller, how an agent is resumed and stopped, and the  *)
(* log of commander events.                                                *)
(*                                                                         *)
(* A request is handled alone: the routes run on the event loop.  It may   *)
(* be cut off, by an exception or a stop of the service, between the       *)
(* keystrokes and the record.                                              *)
(***************************************************************************)
EXTENDS Integers, FiniteSets

CONSTANTS
    AcKeys,      \* idempotency keys
    AcCallers,   \* callers with an actor or a source
    AcInternal,  \* a caller with neither
    AcSessions,  \* session names a resume of one directory may ask for
    AcStops,     \* bound: requests cut off after the keystrokes
    AcTogether   \* bound: signs a pane shows at once

AcNobody == "nobody"     \* the caller of a key nobody is on record for
ASSUME AcAssumption == AcCallers \cap {AcInternal, AcNobody} = {} /\ {AcStops, AcTogether} \subseteq Nat

VARIABLES
    acPane,      \* what the pane of the agent shows and what is true of it
    acRequest,   \* the request under way, a message or a stop of an agent
    acResult,    \* deliveries: the result by key
    acActor,     \* delivery_attribution: the caller by key; own, written with its delivery
    acTyped,     \* how often the text of a key was typed, and who did it last; history
    acStopped,   \* requests cut off so far
    acSession,   \* the sessions for the directory
    acEvent      \* the condition event of the agent in commander_events

AcVars == <<acPane, acRequest, acResult, acActor, acTyped, acStopped, acSession, acEvent>>

----------------------------------------------------------------------------
AcWho == AcCallers \cup {AcInternal}
AcNoRequest == [at |-> "idle", what |-> "none", key |-> "none", by |-> AcInternal]
AcLanded == {"delivered", "queued", "failed"}      \* what became of a message

\* The signs a pane may show, and what is true of it.  spinner, timer: two markers of a
\* live run, each with a pattern of its own.  worded, shaped: a dialog with known words, or
\* recognised by its shape.  fresh: the transcript was written within RECENTLY_ACTIVE_SECS.
\* staged, ghost: a line nobody submitted, or the dim recall of the last one.
AcSigns == {"dead", "no_claude", "spinner", "timer", "queued", "shell", "worded", "shaped", "fresh",
            "staged", "ghost", "external", "monitors"}

AcTypeOK ==
    /\ acPane \subseteq AcSigns /\ Cardinality(acPane) <= AcTogether
    /\ acRequest \in {AcNoRequest}
          \cup [at : {"check", "type", "record"}, what : {"message", "stop"}, key : AcKeys, by : AcWho]
    /\ acResult \in [AcKeys -> AcLanded \cup {"none", "stopped"}]
    /\ acActor \in [AcKeys -> [who : AcCallers \cup {AcNobody}, own : BOOLEAN]]
    /\ acTyped \in [AcKeys -> [n : 0..AcStops + 2, by : AcWho \cup {AcNobody}]]
    /\ acStopped \in 0..AcStops
    /\ acSession \in [AcSessions -> {"none", "dead", "live"}]
    /\ acEvent \in {"none", "unacked", "acked", "retracted"}

AcInit ==
    /\ acPane = {}
    /\ acRequest = AcNoRequest
    /\ acResult = [k \in AcKeys |-> "none"]
    /\ acActor = [k \in AcKeys |-> [who |-> AcNobody, own |-> FALSE]]
    /\ acTyped = [k \in AcKeys |-> [n |-> 0, by |-> AcNobody]]
    /\ acStopped = 0
    /\ acSession = [s \in AcSessions |-> "none"]
    /\ acEvent = "none"

----------------------------------------------------------------------------
(* What a pane is *)

\* find_claude_in_pane
AcIsAgent(p) == "no_claude" \notin p
AcDialog(p) == p \cap {"worded", "shaped"} # {}
\* _is_recall_ghost: the dim line that repeats what was submitted last is not input.
AcPending(p) == "staged" \in p

\* classify_state: the first sign in this order decides.
AcClassify(p, recent, pending) ==
    IF "dead" \in p THEN "dead"
    ELSE IF ~AcIsAgent(p) THEN "stale"
    ELSE IF "spinner" \in p THEN "working"
    ELSE IF "shell" \in p THEN "shell_running"
    ELSE IF AcDialog(p) THEN "waiting_owner"
    ELSE IF recent THEN "working"
    ELSE IF pending THEN "waiting_input"
    ELSE IF "external" \in p THEN "externally_blocked"
    ELSE IF "monitors" \in p THEN "shell_running"
    ELSE "idle"

\* agent_list and agent_status ask for the transcript of a pane at rest, for its line only
\* when that is old.
AcRests == acPane \cap {"dead", "no_claude", "spinner", "shell"} = {}
AcRecent == AcRests /\ "fresh" \in acPane
AcState == AcClassify(acPane, AcRecent, AcRests /\ ~AcRecent /\ AcPending(acPane))

\* _busy_for_send looks at the tail of the pane only: not at its process, its foreground
\* command, its line or the transcript.
AcBusyForSend ==
    LET tail == acPane \ {"dead", "no_claude", "shell"} IN
    tail \cap {"queued", "timer"} # {} \/ AcClassify(tail, FALSE, FALSE) \in {"working", "shell_running"}

\* _pane_is_live_agent: the pane exists and is not dead; whether Claude runs in it is
\* not asked.
AcReachable == "dead" \notin acPane

----------------------------------------------------------------------------
(* Messages *)

\* agent_send, agent_answer.  An answer is sent to a busy pane too.
AcAsks(k, who, answer) ==
    /\ acRequest = AcNoRequest
    /\ AcReachable /\ (answer \/ ~AcBusyForSend)
    /\ acRequest' = [at |-> "check", what |-> "message", key |-> k, by |-> who]
    /\ UNCHANGED <<acPane, acResult, acActor, acTyped, acStopped, acSession, acEvent>>

\* agent_stop, of one pane: in a session that is there.  It names no caller.
AcAsksToStop(k) ==
    /\ acRequest = AcNoRequest /\ \E s \in AcSessions : acSession[s] # "none"
    /\ acRequest' = [at |-> "check", what |-> "stop", key |-> k, by |-> AcInternal]
    /\ UNCHANGED <<acPane, acResult, acActor, acTyped, acStopped, acSession, acEvent>>

\* _note_duplicate_attribution
AcAttributeDuplicate(k, who) ==
    acActor' = IF who # AcInternal /\ acActor[k].who = AcNobody
               THEN [acActor EXCEPT ![k].who = who] ELSE acActor

\* Mutant: the key is not looked up.
AcChecksNothing ==
    /\ acRequest.at = "check" /\ acRequest' = [acRequest EXCEPT !.at = "type"]
    /\ UNCHANGED <<acPane, acResult, acActor, acTyped, acStopped, acSession, acEvent>>

\* _seen_delivery, before anything is typed or killed: one table for both.
AcChecks ==
    LET k == acRequest.key IN
    /\ acRequest.at = "check"
    /\ IF acResult[k] # "none"
       THEN AcAttributeDuplicate(k, acRequest.by) /\ acRequest' = AcNoRequest
       ELSE acActor' = acActor /\ acRequest' = [acRequest EXCEPT !.at = "type"]
    /\ UNCHANGED <<acPane, acResult, acTyped, acStopped, acSession, acEvent>>

\* The paste and Enter.  An exception while staging leaves nothing behind.
AcTypes ==
    LET k == acRequest.key IN
    /\ acRequest.at = "type" /\ acRequest.what = "message"
    /\ \/ /\ acTyped' = [acTyped EXCEPT ![k] = [n |-> @.n + 1, by |-> acRequest.by]]
          /\ acRequest' = [acRequest EXCEPT !.at = "record"]
       \/ acTyped' = acTyped /\ acRequest' = AcNoRequest
    /\ UNCHANGED <<acPane, acResult, acActor, acStopped, acSession, acEvent>>

\* kill-pane, which may fail.
AcKills ==
    /\ acRequest.at = "type" /\ acRequest.what = "stop"
    /\ \E s \in AcSessions : acSession' \in {acSession, [acSession EXCEPT ![s] = "none"]}
    /\ acRequest' = [acRequest EXCEPT !.at = "record"]
    /\ UNCHANGED <<acPane, acResult, acActor, acTyped, acStopped, acEvent>>

\* _record_delivery: whatever became of it, the key is taken.
AcRecords ==
    LET k == acRequest.key IN
    /\ acRequest.at = "record"
    /\ \E result \in IF acRequest.what = "stop" THEN {"stopped"} ELSE AcLanded :
          acResult' = [acResult EXCEPT ![k] = result]
    /\ acActor' = IF acRequest.by = AcInternal THEN acActor
                  ELSE [acActor EXCEPT ![k] = [who |-> acRequest.by, own |-> TRUE]]
    /\ acRequest' = AcNoRequest
    /\ UNCHANGED <<acPane, acTyped, acStopped, acSession, acEvent>>

AcCutOff ==
    /\ acRequest.at = "record" /\ acStopped < AcStops
    /\ acStopped' = acStopped + 1 /\ acRequest' = AcNoRequest
    /\ UNCHANGED <<acPane, acResult, acActor, acTyped, acSession, acEvent>>

\* _IDEMPOTENCY_TTL_SECS.  A caller written with the delivery is forgotten with it.  One
\* of a duplicate outlives it, and one left by a former use of the key goes before it.
AcExpires(k) ==
    /\ acRequest = AcNoRequest
    /\ \/ /\ acResult[k] # "none" /\ acResult' = [acResult EXCEPT ![k] = "none"]
          /\ acTyped' = [acTyped EXCEPT ![k] = [n |-> 0, by |-> AcNobody]]
          /\ acActor' = IF acActor[k].own THEN [acActor EXCEPT ![k] = [who |-> AcNobody, own |-> FALSE]]
                        ELSE acActor
       \/ /\ acActor[k].who # AcNobody /\ ~acActor[k].own
          /\ acActor' = [acActor EXCEPT ![k] = [who |-> AcNobody, own |-> FALSE]]
          /\ UNCHANGED <<acResult, acTyped>>
    /\ UNCHANGED <<acPane, acRequest, acStopped, acSession, acEvent>>

----------------------------------------------------------------------------
(* Sessions *)

\* find_live_agent_for_dir
AcLive == {s \in AcSessions : acSession[s] = "live"}

\* agent_resume.  A session of dead panes is removed before one is made.
AcResume(name) ==
    /\ acRequest = AcNoRequest
    /\ AcLive = {} /\ acSession[name] # "live"
    /\ \/ acSession' = [acSession EXCEPT ![name] = "live"]
       \/ acSession' = [acSession EXCEPT ![name] = "none"]      \* tmux failed
    /\ UNCHANGED <<acPane, acRequest, acResult, acActor, acTyped, acStopped, acEvent>>

\* An agent exits, with its pane or leaving it dead.
AcEnds(name) ==
    /\ acSession[name] # "none"
    /\ \/ acSession[name] = "live" /\ acSession' = [acSession EXCEPT ![name] = "dead"]
       \/ acSession' = [acSession EXCEPT ![name] = "none"]
    /\ UNCHANGED <<acPane, acRequest, acResult, acActor, acTyped, acStopped, acEvent>>

----------------------------------------------------------------------------
(* Commander events *)

\* record_commander_event, once within the window, acknowledged or not.
AcRecordEvent ==
    /\ acEvent = "none" /\ AcState \in {"waiting_owner", "waiting_input", "externally_blocked"}
    /\ acEvent' = "unacked"
    /\ UNCHANGED <<acPane, acRequest, acResult, acActor, acTyped, acStopped, acSession>>

\* retract_stale_condition_events, for an agent seen at work.
AcRetract ==
    /\ acEvent = "unacked" /\ AcState \in {"working", "shell_running"}
    /\ acEvent' = "retracted"
    /\ UNCHANGED <<acPane, acRequest, acResult, acActor, acTyped, acStopped, acSession>>

\* The notifier reads what is not acknowledged, tells the owner and acknowledges.
AcNotified ==
    /\ acEvent = "unacked" /\ acEvent' = "acked"
    /\ UNCHANGED <<acPane, acRequest, acResult, acActor, acTyped, acStopped, acSession>>

\* The window passes.
AcForgetEvent ==
    /\ acEvent # "none" /\ acEvent' = "none"
    /\ UNCHANGED <<acPane, acRequest, acResult, acActor, acTyped, acStopped, acSession>>

----------------------------------------------------------------------------
AcPaneChanges ==
    /\ \E sign \in AcSigns : acPane' \in {acPane \cup {sign}, acPane \ {sign}}
    /\ Cardinality(acPane') <= AcTogether
    /\ UNCHANGED <<acRequest, acResult, acActor, acTyped, acStopped, acSession, acEvent>>

\* The messages and the events share nothing but the pane.
AcMessageStep ==
    \/ \E k \in AcKeys, who \in AcWho, answer \in BOOLEAN : AcAsks(k, who, answer)
    \/ AcChecks \/ AcTypes \/ AcKills \/ AcRecords \/ AcCutOff
    \/ \E k \in AcKeys : AcAsksToStop(k) \/ AcExpires(k)
AcSessionStep == \E s \in AcSessions : AcResume(s) \/ AcEnds(s)
AcEventStep == AcRecordEvent \/ AcRetract \/ AcNotified \/ AcForgetEvent
AcMessageNext == AcMessageStep \/ AcSessionStep \/ AcPaneChanges
AcEventNext == AcEventStep \/ AcPaneChanges
AcNext == AcMessageNext \/ AcEventNext
AcSpec == AcInit /\ [][AcNext]_AcVars

----------------------------------------------------------------------------
\* A text is typed once for its key, once more for each request that was cut off
\* before its record; a key taken by a message was typed, so a message answered as
\* "already used" is one that a pane has seen, unless a stop took the key.
AcTypedOnce ==
    \A k \in AcKeys : /\ acTyped[k].n <= 1 + acStopped
                      /\ acResult[k] \in AcLanded => acTyped[k].n >= 1

\* "First writer wins": the caller on record for a message is the one who typed it,
\* however many others replay the key and whatever a former use of the key left on
\* record, unless that one named itself to nobody.
AcAttributed ==
    \A k \in AcKeys :
        acResult[k] \in AcLanded /\ acActor[k].who # AcNobody =>
            acTyped[k].by \in {acActor[k].who, AcInternal}

\* Proof of activity wins over what the pane looks like: an agent whose transcript is
\* being written is neither poked as idle nor reported as waiting for input.
AcActiveIsNotIdle ==
    acPane \cap {"fresh", "spinner"} # {} /\ acPane \cap {"dead", "no_claude"} = {}
        => AcState \notin {"idle", "waiting_input", "externally_blocked"}

\* A resume never makes a second live agent in the directory.
AcOneAgent == Cardinality(AcLive) <= 1

AcInv == AcTypedOnce /\ AcAttributed /\ AcActiveIsNotIdle /\ AcOneAgent
=============================================================================
