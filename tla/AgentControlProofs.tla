------------------------- MODULE AgentControlProofs -------------------------
(***************************************************************************)
(* Proofs about AgentControl for every set of keys, callers and sessions   *)
(* and any number of requests that are cut off: a text is typed once for   *)
(* its key, the record of its caller is true, and a directory has one live *)
(* agent.  And about PromptSupervisor for every set of commands, however   *)
(* deep they nest: a loop presses once for a prompt, and every segment of  *)
(* what it presses for is proven.  Last, the types of MCPlane, which runs  *)
(* one of the parts at a time.                                             *)
(***************************************************************************)
EXTENDS MCPlane, WakeProofs, EventProofs, FiniteSetTheorems, WellFoundedInduction, TLAPS

\* The types the arguments below need; the pane and the event may be anything.
AcTypes1 ==
    /\ acRequest = AcNoRequest
       \/ acRequest \in [at : {"check", "type", "record"}, what : {"message", "stop"}, key : AcKeys, by : AcWho]
    /\ acResult \in [AcKeys -> AcLanded \cup {"none", "stopped"}]
    /\ acActor \in [AcKeys -> [who : AcCallers \cup {AcNobody}, own : BOOLEAN]]
    /\ acTyped \in [AcKeys -> [n : Nat, by : AcWho \cup {AcNobody}]]
    /\ acStopped \in Nat
    /\ acSession \in [AcSessions -> {"none", "dead", "live"}]

AcRecording(k) == acRequest.at = "record" /\ acRequest.what = "message" /\ acRequest.key = k

\* A key is typed for once more than it was cut off while it is taken or about to be,
\* and a request that is past the lookup holds a free key.
KeyInv ==
    \A k \in AcKeys :
        /\ acTyped[k].n <= 1 + acStopped
        /\ acResult[k] \in AcLanded => acTyped[k].n >= 1
        /\ acResult[k] = "none" /\ ~AcRecording(k) => acTyped[k].n <= acStopped
        /\ acRequest.at \in {"type", "record"} /\ acRequest.key = k => acResult[k] = "none"
        /\ AcRecording(k) => acTyped[k].n >= 1

\* A caller is on record with its delivery only for a message, and is the one that typed
\* it; any other message was typed by a caller that named itself to nobody.  A stop is one.
CallerInv ==
    \A k \in AcKeys :
        /\ acResult[k] \notin AcLanded => ~acActor[k].own
        /\ acActor[k].own => acActor[k].who # AcNobody
        /\ AcRecording(k) => acTyped[k].by = acRequest.by
        /\ acResult[k] \in AcLanded /\ acActor[k].own => acTyped[k].by = acActor[k].who
        /\ acResult[k] \in AcLanded /\ ~acActor[k].own => acTyped[k].by = AcInternal
        /\ acRequest.what = "stop" => acRequest.by = AcInternal

SessionInv ==
    \A s, t \in AcSessions : acSession[s] = "live" /\ acSession[t] = "live" => s = t

AcMessages == <<acRequest, acResult, acActor, acTyped, acStopped>>
AcIInv == AcTypes1 /\ KeyInv /\ CallerInv /\ SessionInv

LEMMA InitInv == AcInit => AcIInv
BY AcAssumption
DEF AcInit, AcIInv, AcTypes1, KeyInv, CallerInv, SessionInv, AcRecording, AcNoRequest, AcWho, AcLanded

----------------------------------------------------------------------------
(* The messages *)

LEMMA AsksInv ==
    ASSUME AcIInv, NEW k \in AcKeys, NEW who \in AcWho, NEW answer \in BOOLEAN,
           AcAsks(k, who, answer)
    PROVE  AcTypes1' /\ KeyInv' /\ CallerInv'
BY DEF AcAsks, AcIInv, AcTypes1, KeyInv, CallerInv, AcRecording, AcNoRequest

LEMMA AsksToStopInv ==
    ASSUME AcIInv, NEW k \in AcKeys, AcAsksToStop(k) PROVE AcTypes1' /\ KeyInv' /\ CallerInv'
BY DEF AcAsksToStop, AcIInv, AcTypes1, KeyInv, CallerInv, AcRecording, AcNoRequest, AcWho

\* A duplicate is attributed to a caller only when nobody is on record.
LEMMA ChecksInv == ASSUME AcIInv, AcChecks PROVE AcTypes1' /\ KeyInv' /\ CallerInv'
<1> DEFINE k == acRequest.key
           who == acRequest.by
<1> USE DEF AcIInv
<1>1. k \in AcKeys /\ who \in AcWho /\ acRequest.at = "check" /\ acRequest.what \in {"message", "stop"}
  BY DEF AcChecks, AcTypes1, AcNoRequest
<1>2. CASE acResult[k] # "none"
  <2>1. /\ acRequest' = AcNoRequest
        /\ \/ acActor' = acActor
           \/ /\ who # AcInternal /\ acActor[k].who = AcNobody
              /\ acActor' = [acActor EXCEPT ![k].who = who]
        /\ UNCHANGED <<acResult, acTyped, acStopped, acSession>>
    BY <1>2 DEF AcChecks, AcAttributeDuplicate
  <2>2. AcTypes1'
    BY <1>1, <2>1 DEF AcTypes1, AcWho
  <2>3. KeyInv'
    BY <1>1, <2>1 DEF KeyInv, AcRecording, AcNoRequest
  <2>6. acActor'[k].own = acActor[k].own
        /\ (acActor'[k].who = acActor[k].who \/ acActor[k].who = AcNobody)
        /\ \A q \in AcKeys : q # k => acActor'[q] = acActor[q]
    BY <1>1, <2>1 DEF AcTypes1
  <2>7. acActor[k].own /\ acResult[k] \in AcLanded => acActor[k].who # AcNobody
    BY <1>1 DEF CallerInv
  <2>4. CallerInv'
    BY <1>1, <1>2, <2>1, <2>6, <2>7 DEF CallerInv, AcRecording, AcNoRequest
  <2>5. QED
    BY <2>2, <2>3, <2>4
<1>3. CASE acResult[k] = "none"
  <2>1. /\ acRequest' = [acRequest EXCEPT !.at = "type"]
        /\ UNCHANGED <<acResult, acActor, acTyped, acStopped, acSession>>
    BY <1>3 DEF AcChecks
  <2>2. acRequest' = [at |-> "type", what |-> acRequest.what, key |-> k, by |-> who]
    BY <1>1, <2>1 DEF AcTypes1, AcNoRequest
  <2>3. AcTypes1'
    BY <1>1, <2>1, <2>2 DEF AcTypes1
  <2>4. KeyInv' /\ CallerInv'
    BY <1>1, <1>3, <2>1, <2>2 DEF KeyInv, CallerInv, AcRecording
  <2>5. QED
    BY <2>3, <2>4
<1>4. QED
  BY <1>2, <1>3

LEMMA TypesInv == ASSUME AcIInv, AcTypes PROVE AcTypes1' /\ KeyInv' /\ CallerInv'
<1> DEFINE k == acRequest.key
           who == acRequest.by
<1> USE DEF AcIInv
<1>1. k \in AcKeys /\ who \in AcWho /\ acRequest.at = "type" /\ acRequest.what = "message"
  BY DEF AcTypes, AcTypes1, AcNoRequest
<1>2. CASE acTyped' = acTyped /\ acRequest' = AcNoRequest
  BY <1>1, <1>2 DEF AcTypes, AcTypes1, KeyInv, CallerInv, AcRecording, AcNoRequest
<1>3. CASE /\ acTyped' = [acTyped EXCEPT ![k] = [n |-> @.n + 1, by |-> who]]
           /\ acRequest' = [acRequest EXCEPT !.at = "record"]
  <2>1. acRequest' = [at |-> "record", what |-> "message", key |-> k, by |-> who]
    BY <1>1, <1>3 DEF AcTypes1, AcNoRequest
  <2>2. UNCHANGED <<acResult, acActor, acStopped, acSession>>
    BY DEF AcTypes
  <2>3. acTyped[k].n \in Nat
    BY <1>1 DEF AcTypes1
  <2>4. AcTypes1'
    <3>1. acTyped' \in [AcKeys -> [n : Nat, by : AcWho \cup {AcNobody}]]
      BY <1>1, <1>3, <2>3 DEF AcTypes1
    <3>2. QED
      BY <1>1, <2>1, <2>2, <3>1 DEF AcTypes1
  <2>5. acTyped'[k] = [n |-> acTyped[k].n + 1, by |-> who]
        /\ \A q \in AcKeys : q # k => acTyped'[q] = acTyped[q]
    BY <1>1, <1>3 DEF AcTypes1
  <2>6. acResult[k] = "none" /\ acTyped[k].n <= acStopped /\ acStopped \in Nat
    BY <1>1 DEF KeyInv, AcRecording, AcTypes1
  <2>7. KeyInv'
    BY <1>1, <2>1, <2>2, <2>3, <2>5, <2>6 DEF KeyInv, AcRecording, AcLanded
  <2>8. CallerInv'
    BY <1>1, <2>1, <2>2, <2>5, <2>6 DEF CallerInv, AcRecording, AcLanded
  <2>9. QED
    BY <2>4, <2>7, <2>8
<1>4. QED
  BY <1>2, <1>3 DEF AcTypes

LEMMA KillsInv == ASSUME AcIInv, AcKills PROVE AcTypes1' /\ KeyInv' /\ CallerInv'
<1> USE DEF AcIInv
<1>1. /\ acRequest.at = "type" /\ acRequest.what = "stop" /\ acRequest.key \in AcKeys /\ acRequest.by \in AcWho
      /\ UNCHANGED <<acResult, acActor, acTyped, acStopped>>
  BY DEF AcKills, AcTypes1, AcNoRequest
<1>2. acRequest' = [at |-> "record", what |-> "stop", key |-> acRequest.key, by |-> acRequest.by]
  BY <1>1 DEF AcKills, AcTypes1, AcNoRequest
<1>3. AcTypes1'
  BY <1>1, <1>2 DEF AcKills, AcTypes1
<1>4. KeyInv' /\ CallerInv'
  BY <1>1, <1>2 DEF KeyInv, CallerInv, AcRecording
<1>5. QED
  BY <1>3, <1>4

LEMMA RecordsInv == ASSUME AcIInv, AcRecords PROVE AcTypes1' /\ KeyInv' /\ CallerInv'
<1> DEFINE k == acRequest.key
           who == acRequest.by
<1> USE DEF AcIInv
<1>1. k \in AcKeys /\ who \in AcWho /\ acRequest.at = "record" /\ acRequest.what \in {"message", "stop"}
  BY DEF AcRecords, AcTypes1, AcNoRequest
<1>2. PICK result \in AcLanded \cup {"stopped"} :
        acResult' = [acResult EXCEPT ![k] = result] /\ (acRequest.what = "message" <=> result \in AcLanded)
  BY <1>1 DEF AcRecords, AcLanded
<1>3. /\ acActor' = IF who = AcInternal THEN acActor ELSE [acActor EXCEPT ![k] = [who |-> who, own |-> TRUE]]
      /\ acRequest' = AcNoRequest
      /\ UNCHANGED <<acTyped, acStopped, acSession>>
  BY DEF AcRecords
<1>4. AcTypes1'
  BY <1>1, <1>2, <1>3 DEF AcTypes1, AcWho
<1>5. /\ acResult[k] = "none" /\ ~acActor[k].own /\ acTyped[k].n <= 1 + acStopped
      /\ acRequest.what = "message" => acTyped[k].by = who /\ acTyped[k].n >= 1
      /\ acRequest.what = "stop" => who = AcInternal
  BY <1>1 DEF KeyInv, CallerInv, AcRecording, AcLanded
<1>6. /\ acResult'[k] # "none" /\ (acRequest.what = "message" <=> acResult'[k] \in AcLanded)
      /\ \A q \in AcKeys : q # k => acResult'[q] = acResult[q]
  BY <1>1, <1>2 DEF AcTypes1, AcLanded
<1>7. /\ who = AcInternal => acActor'[k] = acActor[k]
      /\ who # AcInternal => acActor'[k].who = who /\ acActor'[k].own
      /\ \A q \in AcKeys : q # k => acActor'[q] = acActor[q]
  BY <1>1, <1>3, <1>5 DEF AcTypes1
<1>8. KeyInv'
  BY <1>1, <1>3, <1>5, <1>6 DEF KeyInv, AcRecording, AcNoRequest
<1>9. who # AcInternal => who # AcNobody
  BY <1>1, AcAssumption DEF AcWho
<1>10. CallerInv'
  BY <1>1, <1>3, <1>5, <1>6, <1>7, <1>9 DEF CallerInv, AcRecording, AcNoRequest
<1>11. QED
  BY <1>4, <1>8, <1>10

\* A request that is cut off leaves the key free and uncalled for, typed once more than
\* before and counted as cut off.
LEMMA CutOffInv == ASSUME AcIInv, AcCutOff PROVE AcTypes1' /\ KeyInv' /\ CallerInv'
<1> USE DEF AcIInv
<1>1. /\ acRequest' = AcNoRequest /\ acStopped' = acStopped + 1 /\ acStopped \in Nat
      /\ UNCHANGED <<acResult, acActor, acTyped, acSession>>
      /\ \A k \in AcKeys : acTyped[k].n \in Nat
  BY DEF AcCutOff, AcTypes1
<1>2. AcTypes1'
  BY <1>1 DEF AcTypes1
<1>3. KeyInv'
  BY <1>1 DEF KeyInv, AcRecording, AcNoRequest
<1>4. CallerInv'
  BY <1>1 DEF CallerInv, KeyInv, AcRecording, AcNoRequest
<1>5. QED
  BY <1>2, <1>3, <1>4

LEMMA ExpiresInv ==
    ASSUME AcIInv, NEW k \in AcKeys, AcExpires(k) PROVE AcTypes1' /\ KeyInv' /\ CallerInv'
<1> USE DEF AcIInv
<1> DEFINE nobody == [who |-> AcNobody, own |-> FALSE]
<1>1. UNCHANGED <<acRequest, acStopped, acSession>> /\ acRequest = AcNoRequest /\ acStopped \in Nat
  BY DEF AcExpires, AcTypes1
<1>2. \A q \in AcKeys : q # k => /\ acResult'[q] = acResult[q] /\ acActor'[q] = acActor[q]
                                 /\ acTyped'[q] = acTyped[q]
  BY DEF AcExpires, AcTypes1
<1>3. AcTypes1'
  <2>1. nobody \in [who : AcCallers \cup {AcNobody}, own : BOOLEAN]
        /\ [n |-> 0, by |-> AcNobody] \in [n : Nat, by : AcWho \cup {AcNobody}]
    OBVIOUS
  <2> HIDE DEF nobody
  <2>2. acActor' \in [AcKeys -> [who : AcCallers \cup {AcNobody}, own : BOOLEAN]]
    <3>1. acActor' = acActor \/ acActor' = [acActor EXCEPT ![k] = nobody]
      BY DEF AcExpires, nobody
    <3>2. QED
      BY <2>1, <3>1 DEF AcTypes1
  <2>3. /\ acResult' = acResult \/ acResult' = [acResult EXCEPT ![k] = "none"]
        /\ acTyped' = acTyped \/ acTyped' = [acTyped EXCEPT ![k] = [n |-> 0, by |-> AcNobody]]
    BY DEF AcExpires
  <2>4. acResult' \in [AcKeys -> AcLanded \cup {"none", "stopped"}]
    BY <2>3 DEF AcTypes1
  <2>5. acTyped' \in [AcKeys -> [n : Nat, by : AcWho \cup {AcNobody}]]
    <3> DEFINE t == [n |-> 0, by |-> AcNobody]
    <3>1. (acTyped' = acTyped \/ acTyped' = [acTyped EXCEPT ![k] = t])
          /\ t \in [n : Nat, by : AcWho \cup {AcNobody}]
      BY <2>1, <2>3
    <3> HIDE DEF t
    <3>2. QED
      BY <3>1 DEF AcTypes1
  <2>6. QED
    BY <1>1, <2>2, <2>4, <2>5 DEF AcTypes1
<1>4. CASE /\ acResult' = [acResult EXCEPT ![k] = "none"]
           /\ acTyped' = [acTyped EXCEPT ![k] = [n |-> 0, by |-> AcNobody]]
           /\ acActor' = IF acActor[k].own THEN [acActor EXCEPT ![k] = nobody] ELSE acActor
  <2>1. acResult'[k] = "none" /\ acTyped'[k].n = 0 /\ ~acActor'[k].own
    BY <1>4 DEF AcTypes1
  <2>2. KeyInv' /\ CallerInv'
    BY <1>1, <1>2, <2>1 DEF KeyInv, CallerInv, AcRecording, AcNoRequest, AcLanded
  <2>3. QED
    BY <1>3, <2>2
<1>5. CASE ~acActor[k].own /\ acActor' = [acActor EXCEPT ![k] = nobody] /\ UNCHANGED <<acResult, acTyped>>
  <2>1. ~acActor'[k].own
    BY <1>5 DEF AcTypes1
  <2>2. KeyInv' /\ CallerInv'
    BY <1>1, <1>2, <1>5, <2>1 DEF KeyInv, CallerInv, AcRecording, AcNoRequest
  <2>3. QED
    BY <1>3, <2>2
<1>6. QED
  BY <1>4, <1>5 DEF AcExpires

LEMMA QuietInv ==
    ASSUME AcIInv, UNCHANGED AcMessages, acSession' \in [AcSessions -> {"none", "dead", "live"}]
    PROVE  AcTypes1' /\ KeyInv' /\ CallerInv'
BY DEF AcMessages, AcIInv, AcTypes1, KeyInv, CallerInv, AcRecording

----------------------------------------------------------------------------
(* The sessions *)

\* A session is made only where none is live.
LEMMA SessionStep ==
    ASSUME AcIInv, NEW s \in AcSessions, AcResume(s) \/ AcEnds(s)
    PROVE  AcIInv'
<1> USE DEF AcIInv
<1>1. UNCHANGED AcMessages
  BY DEF AcResume, AcEnds, AcMessages
<1>2. acSession' \in [AcSessions -> {"none", "dead", "live"}]
  BY DEF AcResume, AcEnds, AcTypes1
<1>3. SessionInv'
  <2>1. CASE AcResume(s)
    BY <2>1 DEF AcResume, AcLive, SessionInv, AcTypes1
  <2>2. CASE AcEnds(s)
    BY <2>2 DEF AcEnds, SessionInv, AcTypes1
  <2>3. QED
    BY <2>1, <2>2
<1>4. QED
  BY <1>1, <1>2, <1>3, QuietInv

LEMMA StepInv == AcIInv /\ [AcNext]_AcVars => AcIInv'
<1> SUFFICES ASSUME AcIInv, [AcNext]_AcVars PROVE AcIInv'
  OBVIOUS
<1>1. ASSUME acSession' = acSession PROVE SessionInv'
  BY <1>1 DEF SessionInv, AcIInv
<1>2. CASE AcMessageStep
  <2>1. SessionInv'
    <3>1. CASE AcKills
      BY <3>1 DEF AcKills, SessionInv, AcIInv, AcTypes1
    <3>2. CASE acSession' = acSession
      BY <1>1, <3>2
    <3>3. QED
      BY <1>2, <3>1, <3>2
         DEF AcMessageStep, AcAsks, AcAsksToStop, AcChecks, AcTypes, AcRecords, AcCutOff, AcExpires
  <2>2. AcTypes1' /\ KeyInv' /\ CallerInv'
    BY <1>2, AsksInv, AsksToStopInv, ChecksInv, TypesInv, KillsInv, RecordsInv, CutOffInv, ExpiresInv
       DEF AcMessageStep
  <2>3. QED
    BY <2>1, <2>2 DEF AcIInv
<1>3. CASE AcPaneChanges \/ AcEventStep \/ UNCHANGED AcVars
  <2>1. UNCHANGED AcMessages /\ acSession' = acSession
    BY <1>3 DEF AcPaneChanges, AcEventStep, AcRecordEvent, AcRetract, AcNotified, AcForgetEvent,
                AcMessages, AcVars
  <2>2. acSession' \in [AcSessions -> {"none", "dead", "live"}]
    BY <2>1 DEF AcIInv, AcTypes1
  <2>3. QED
    BY <1>1, <2>1, <2>2, QuietInv DEF AcIInv
<1>4. CASE AcSessionStep
  BY <1>4, SessionStep DEF AcSessionStep
<1>5. QED
  BY <1>2, <1>3, <1>4 DEF AcNext, AcMessageNext, AcEventNext

----------------------------------------------------------------------------
(* What follows *)

\* A live agent at work is recognised whatever else its pane shows.
LEMMA ActiveIsNotIdle == AcActiveIsNotIdle
<1> SUFFICES ASSUME acPane \cap {"fresh", "spinner"} # {}, acPane \cap {"dead", "no_claude"} = {}
             PROVE  AcState \notin {"idle", "waiting_input", "externally_blocked"}
  BY DEF AcActiveIsNotIdle
<1>1. "dead" \notin acPane /\ "no_claude" \notin acPane
  OBVIOUS
<1>2. CASE "spinner" \in acPane
  BY <1>1, <1>2 DEF AcState, AcClassify, AcIsAgent
<1>3. CASE "spinner" \notin acPane /\ "shell" \in acPane
  BY <1>1, <1>3 DEF AcState, AcClassify, AcIsAgent
<1>4. CASE "spinner" \notin acPane /\ "shell" \notin acPane
  <2>1. AcRecent
    BY <1>1, <1>4 DEF AcRecent, AcRests
  <2>2. QED
    BY <1>1, <1>4, <2>1 DEF AcState, AcClassify, AcIsAgent
<1>5. QED
  BY <1>2, <1>3, <1>4

LEMMA OneAgent == ASSUME SessionInv PROVE AcOneAgent
<1>1. CASE AcLive = {}
  BY <1>1, FS_EmptySet DEF AcOneAgent
<1>2. CASE AcLive # {}
  <2>1. PICK s \in AcSessions : s \in AcLive
    BY <1>2 DEF AcLive
  <2>2. AcLive = {s}
    BY <2>1 DEF AcLive, SessionInv
  <2>3. QED
    BY <2>2, FS_Singleton DEF AcOneAgent
<1>3. QED
  BY <1>1, <1>2

\* A text is typed once for its key, once more for each request cut off before its
\* record; a taken key was typed; the caller on record is the one who typed last; an
\* agent at work is not classified as idle; a directory has at most one live agent.
THEOREM MessagesLandOnce == AcSpec => []AcInv
<1>1. AcIInv => AcInv
  <2> SUFFICES ASSUME AcIInv PROVE AcInv
    OBVIOUS
  <2>1. AcTypedOnce
    BY DEF AcIInv, KeyInv, AcTypedOnce
  <2>2. AcAttributed
    BY DEF AcIInv, CallerInv, AcAttributed, AcRecording
  <2>3. QED
    BY <2>1, <2>2, ActiveIsNotIdle, OneAgent DEF AcIInv, AcInv
<1>2. QED
  BY <1>1, InitInv, StepInv, PTL DEF AcSpec

\* What the types say beyond AcTypes1: the pane, the event, and the requests cut off.
AcBounded ==
    /\ acPane \subseteq AcSigns /\ Cardinality(acPane) <= AcTogether
    /\ acStopped \in 0..AcStops
    /\ acEvent \in {"none", "unacked", "acked", "retracted"}

LEMMA AcBoundedStep == AcBounded /\ [AcNext]_AcVars => AcBounded'
<1> SUFFICES ASSUME AcBounded, [AcNext]_AcVars PROVE AcBounded'
  OBVIOUS
<1>1. CASE AcPaneChanges
  BY <1>1 DEF AcPaneChanges, AcBounded
<1>2. CASE AcCutOff
  BY <1>2, AcAssumption DEF AcCutOff, AcBounded
<1>3. CASE AcEventStep
  BY <1>3 DEF AcEventStep, AcRecordEvent, AcRetract, AcNotified, AcForgetEvent, AcBounded
<1>4. CASE UNCHANGED <<acPane, acStopped, acEvent>>
  BY <1>4 DEF AcBounded
<1>5. QED
  BY <1>1, <1>2, <1>3, <1>4
     DEF AcNext, AcMessageNext, AcMessageStep, AcEventNext, AcSessionStep, AcAsks, AcAsksToStop,
         AcChecks, AcTypes, AcKills, AcRecords, AcExpires, AcResume, AcEnds, AcVars

\* The tables of agent control keep their types; no text is typed more often for its key
\* than requests were cut off, and one time.
THEOREM AcTypeCorrect == AcSpec => []AcTypeOK
<1>1. AcInit => AcBounded
  BY AcAssumption, FS_EmptySet DEF AcInit, AcBounded
<1>2. AcIInv /\ AcBounded => AcTypeOK
  <2> SUFFICES ASSUME AcIInv, AcBounded PROVE AcTypeOK
    OBVIOUS
  <2>1. ASSUME NEW k \in AcKeys PROVE acTyped[k] \in [n : 0..AcStops + 2, by : AcWho \cup {AcNobody}]
    <3>1. acTyped[k] \in [n : Nat, by : AcWho \cup {AcNobody}] /\ acTyped[k].n <= 1 + acStopped
      BY DEF AcIInv, AcTypes1, KeyInv
    <3>2. acTyped[k].n \in 0..AcStops + 2
      BY <3>1, AcAssumption DEF AcBounded
    <3>3. QED
      BY <3>1, <3>2
  <2>2. acTyped \in [AcKeys -> [n : 0..AcStops + 2, by : AcWho \cup {AcNobody}]]
    BY <2>1 DEF AcIInv, AcTypes1
  <2>3. QED
    BY <2>2 DEF AcIInv, AcTypes1, AcBounded, AcTypeOK
<1>3. QED
  BY <1>1, <1>2, AcBoundedStep, InitInv, StepInv, PTL DEF AcSpec

----------------------------------------------------------------------------
(* The prompts *)

SvFaultsSoFar == svFaults.crashes + svFaults.expiries
SvStep(l) == svLoop[l].at
\* The prompt shown is one that is answered without the owner.
SvProven == SvShown /\ svPane.read # SvNone /\ SvSafe(svPane.read)

SvShapes ==
    /\ svPane.n \in 0..SvPrompts
    /\ SvShown => svPane.n \in 1..SvPrompts
    /\ svFaults \in [crashes : Nat, expiries : Nat]
    /\ svKeys \in [SvLoops \X (1..SvPrompts) -> Nat]
    /\ DOMAIN svLoop = SvLoops
    /\ \A l \in SvLoops :
          svLoop[l] = SvIdle
          \/ /\ DOMAIN svLoop[l] = {"at", "cmd", "n", "optedIn"}
             /\ SvStep(l) \in {"decide", "press", "verify"} /\ svLoop[l].n \in 0..svPane.n

\* No key is pressed on a prompt that has not been shown.
SvNotYet == \A l \in SvLoops, m \in 1..SvPrompts : m > svPane.n => svKeys[<<l, m>>] = 0

\* A loop at work on the prompt shown holds what was read of it.
SvMeant ==
    \A l \in SvLoops :
        svLoop[l] # SvIdle /\ svLoop[l].n = svPane.n /\ SvShown => svLoop[l].cmd = svPane.read

\* The last key a loop may press is on record or about to be, unless a restart or the
\* end of the window has paid for the next.
SvPaid ==
    SvProven => \A l \in SvLoops :
        LET k == svKeys[<<l, svPane.n>>]
            f == SvFaultsSoFar
        IN  /\ k <= 1 + f
            /\ k <= f \/ SvDone(svPane.read) \/ (SvStep(l) = "verify" /\ svLoop[l].n = svPane.n)
            /\ SvStep(l) = "press" /\ svLoop[l].n = svPane.n => k <= f

SvIInv == SvShapes /\ SvNotYet /\ SvMeant /\ SvPaid

LEMMA SvCounts ==
    ASSUME SvShapes
    PROVE  /\ SvFaultsSoFar \in Nat
           /\ SvShown => \A l \in SvLoops : svKeys[<<l, svPane.n>>] \in Nat
BY DEF SvShapes, SvFaultsSoFar

LEMMA SvRecordsOne ==
    ASSUME NEW c, NEW d, SvRecords(c, d)
    PROVE  /\ \A e : e # c => (SvDone(e)' <=> SvDone(e))
           /\ SvDone(c)' <=> d \in {"approved", "approved_no_resume"}
<1>1. /\ DOMAIN svDecision' = {c} \cup DOMAIN svDecision /\ svDecision'[c] = d
      /\ \A e \in DOMAIN svDecision : e # c => svDecision'[e] = svDecision[e]
  BY DEF SvRecords
<1>2. QED
  BY <1>1 DEF SvDone

LEMMA SvMovesOn ==
    ASSUME SvIInv, UNCHANGED <<svPane, svKeys, svFaults>>, SvShapes', SvMeant',
           SvProven /\ SvDone(svPane.read) => SvDone(svPane.read)',
           \A l \in SvLoops :
              /\ SvProven /\ SvStep(l)' = "press" /\ svLoop'[l].n = svPane.n =>
                    svLoop'[l] = svLoop[l] \/ svKeys[<<l, svPane.n>>] <= SvFaultsSoFar
              /\ SvProven /\ SvStep(l) = "verify" /\ svLoop[l].n = svPane.n =>
                    svLoop'[l] = svLoop[l] \/ SvDone(svPane.read)'
    PROVE  SvIInv'
<1>1. SvNotYet' /\ SvFaultsSoFar' = SvFaultsSoFar /\ (SvProven' <=> SvProven)
  BY DEF SvIInv, SvNotYet, SvFaultsSoFar, SvProven, SvShown
<1>2. SvPaid'
  <2>1. SUFFICES ASSUME SvProven, NEW l \in SvLoops
                 PROVE  LET k == svKeys[<<l, svPane.n>>]
                            f == SvFaultsSoFar
                        IN  /\ k <= 1 + f
                            /\ k <= f \/ SvDone(svPane.read)' \/ (SvStep(l)' = "verify" /\ svLoop'[l].n = svPane.n)
                            /\ SvStep(l)' = "press" /\ svLoop'[l].n = svPane.n => k <= f
    BY <1>1 DEF SvPaid, SvDone
  <2>2. QED
    BY <2>1 DEF SvIInv, SvPaid, SvStep
<1>3. QED
  BY <1>1, <1>2 DEF SvIInv

\* A loop's step: its record changes, at a step of the prompt it holds.
LEMMA SvLoopShapes ==
    ASSUME SvShapes, UNCHANGED <<svPane, svFaults>>, NEW l \in SvLoops, NEW r,
           svLoop' = [svLoop EXCEPT ![l] = r],
           svKeys' \in [SvLoops \X (1..SvPrompts) -> Nat],
           r = SvIdle
           \/ /\ DOMAIN r = {"at", "cmd", "n", "optedIn"}
              /\ r.at \in {"decide", "press", "verify"} /\ r.n \in 0..svPane.n
    PROVE  SvShapes' /\ svLoop'[l] = r /\ \A o \in SvLoops : o # l => svLoop'[o] = svLoop[o]
<1>1. DOMAIN svLoop' = SvLoops /\ svLoop'[l] = r /\ \A o \in SvLoops : o # l => svLoop'[o] = svLoop[o]
  BY DEF SvShapes
<1>2. \A o \in SvLoops :
          svLoop'[o] = SvIdle
          \/ /\ DOMAIN svLoop'[o] = {"at", "cmd", "n", "optedIn"}
             /\ svLoop'[o].at \in {"decide", "press", "verify"} /\ svLoop'[o].n \in 0..svPane.n
  BY <1>1 DEF SvShapes, SvStep
<1>3. QED
  BY <1>1, <1>2 DEF SvShapes, SvStep, SvShown

LEMMA SvSeesStep ==
    ASSUME SvIInv, NEW l \in SvLoops, NEW b \in BOOLEAN, SvSees(l, b) PROVE SvIInv'
<1> DEFINE r == [at |-> "decide", cmd |-> svPane.read, n |-> svPane.n, optedIn |-> b]
<1>1. svLoop' = [svLoop EXCEPT ![l] = r] /\ UNCHANGED <<svPane, svDecision, svKeys, svFaults>>
  BY DEF SvSees
<1>2. svPane.n \in 0..svPane.n /\ svKeys \in [SvLoops \X (1..SvPrompts) -> Nat]
  BY DEF SvIInv, SvShapes
<1>3. SvShapes' /\ svLoop'[l] = r /\ \A o \in SvLoops : o # l => svLoop'[o] = svLoop[o]
  BY <1>1, <1>2, SvLoopShapes DEF SvIInv
<1>4. SvMeant'
  BY <1>1, <1>3 DEF SvIInv, SvMeant, SvShown
<1>5. svLoop[l] = SvIdle
  BY DEF SvSees
<1>6. QED
  BY <1>1, <1>3, <1>4, <1>5, SvMovesOn DEF SvStep, SvDone, SvIdle

LEMMA SvDecidesStep ==
    ASSUME SvIInv, NEW l \in SvLoops, NEW b \in BOOLEAN, SvDecides(l, b) PROVE SvIInv'
<1> DEFINE c == svLoop[l].cmd
           r == [svLoop[l] EXCEPT !.at = "press"]
<1>1. /\ svLoop[l].at = "decide" /\ UNCHANGED <<svPane, svKeys, svFaults>>
      /\ svLoop' = [svLoop EXCEPT ![l] = SvIdle] \/ (svLoop' = [svLoop EXCEPT ![l] = r] /\ ~SvDone(c))
      /\ svDecision' = svDecision \/ (SvRecords(c, "left") /\ ~SvSafe(c))
  BY DEF SvDecides, SvMayApprove
<1>2. svLoop[l] # SvIdle
  BY <1>1 DEF SvIdle
<1>3. /\ svKeys' \in [SvLoops \X (1..SvPrompts) -> Nat]
      /\ DOMAIN r = {"at", "cmd", "n", "optedIn"} /\ r.at = "press" /\ r.n \in 0..svPane.n
      /\ r.n = svLoop[l].n /\ r.cmd = c
  BY <1>1, <1>2 DEF SvIInv, SvShapes
<1>4. /\ SvShapes' /\ svLoop'[l] \in {SvIdle, r} /\ \A o \in SvLoops : o # l => svLoop'[o] = svLoop[o]
      /\ svLoop'[l] = r => ~SvDone(c)
  <2>1. CASE svLoop' = [svLoop EXCEPT ![l] = SvIdle]
    <3>1. SvShapes' /\ svLoop'[l] = SvIdle /\ \A o \in SvLoops : o # l => svLoop'[o] = svLoop[o]
      BY <1>1, <1>3, <2>1, SvLoopShapes DEF SvIInv
    <3>2. SvIdle # r
      BY <1>3 DEF SvIdle
    <3>3. QED
      BY <3>1, <3>2
  <2>2. CASE svLoop' = [svLoop EXCEPT ![l] = r] /\ ~SvDone(c)
    <3> HIDE DEF r
    <3>1. SvShapes' /\ svLoop'[l] = r /\ \A o \in SvLoops : o # l => svLoop'[o] = svLoop[o]
      BY <1>1, <1>3, <2>2, SvLoopShapes DEF SvIInv
    <3>2. QED
      BY <2>2, <3>1
  <2>3. QED
    BY <1>1, <2>1, <2>2
<1> HIDE DEF r
<1>5. SvMeant'
  BY <1>1, <1>2, <1>3, <1>4 DEF SvIInv, SvMeant, SvShown
<1>6. SvProven /\ SvDone(svPane.read) => SvDone(svPane.read)'
  <2>1. CASE svDecision' = svDecision
    BY <1>1, <2>1 DEF SvDone
  <2>2. CASE SvRecords(c, "left") /\ ~SvSafe(c)
    BY <1>1, <2>2, SvRecordsOne DEF SvProven
  <2>3. QED
    BY <1>1, <2>1, <2>2
<1>7. ASSUME SvProven, svLoop[l].n = svPane.n, ~SvDone(c)
      PROVE  svKeys[<<l, svPane.n>>] <= SvFaultsSoFar
  <2>1. c = svPane.read
    BY <1>2, <1>7 DEF SvIInv, SvMeant, SvProven
  <2>2. QED
    BY <1>1, <1>7, <2>1 DEF SvIInv, SvPaid, SvStep
<1>8. ASSUME NEW o \in SvLoops
      PROVE  /\ SvProven /\ SvStep(o)' = "press" /\ svLoop'[o].n = svPane.n =>
                   svLoop'[o] = svLoop[o] \/ svKeys[<<o, svPane.n>>] <= SvFaultsSoFar
             /\ SvProven /\ SvStep(o) = "verify" /\ svLoop[o].n = svPane.n =>
                   svLoop'[o] = svLoop[o] \/ SvDone(svPane.read)'
  <2>1. CASE o # l
    BY <1>4, <2>1
  <2>2. CASE o = l
    <3>1. SvStep(l)' = "press" => svLoop'[l] = r
      BY <1>4 DEF SvStep, SvIdle
    <3>2. QED
      BY <1>1, <1>3, <1>4, <1>7, <2>2, <3>1 DEF SvStep
  <2>3. QED
    BY <2>1, <2>2
<1>9. QED
  BY <1>1, <1>4, <1>5, <1>6, <1>8, SvMovesOn

LEMMA SvVerifiesStep ==
    ASSUME SvIInv, NEW l \in SvLoops, SvVerifies(l) PROVE SvIInv'
<1> DEFINE c == svLoop[l].cmd
<1>1. /\ svLoop[l].at = "verify" /\ UNCHANGED <<svPane, svKeys, svFaults>>
      /\ svLoop' = [svLoop EXCEPT ![l] = SvIdle]
      /\ \E d \in {"approved", "approved_no_resume"} : SvRecords(c, d)
  BY DEF SvVerifies
<1>2. svKeys' \in [SvLoops \X (1..SvPrompts) -> Nat] /\ svLoop[l] # SvIdle
  BY <1>1 DEF SvIInv, SvShapes, SvIdle
<1>3. SvShapes' /\ svLoop'[l] = SvIdle /\ \A o \in SvLoops : o # l => svLoop'[o] = svLoop[o]
  BY <1>1, <1>2, SvLoopShapes DEF SvIInv
<1>4. SvMeant'
  BY <1>1, <1>3 DEF SvIInv, SvMeant, SvShown
<1>5. (SvDone(svPane.read) => SvDone(svPane.read)') /\ (c = svPane.read => SvDone(svPane.read)')
  BY <1>1, SvRecordsOne
<1>6. SvProven /\ svLoop[l].n = svPane.n => c = svPane.read
  BY <1>2 DEF SvIInv, SvMeant, SvProven
<1>7. QED
  BY <1>1, <1>3, <1>4, <1>5, <1>6, SvMovesOn DEF SvStep, SvIdle

LEMMA SvPressesStep ==
    ASSUME SvIInv, NEW l \in SvLoops, SvPresses(l) PROVE SvIInv'
<1> DEFINE r == [svLoop[l] EXCEPT !.at = "verify"]
           n == svPane.n
<1>1. svLoop[l].at = "press" /\ UNCHANGED <<svPane, svDecision, svFaults>>
  BY DEF SvPresses
<1>2. /\ svLoop[l] # SvIdle /\ svKeys \in [SvLoops \X (1..SvPrompts) -> Nat]
      /\ DOMAIN r = {"at", "cmd", "n", "optedIn"} /\ r.at = "verify" /\ r.n \in 0..svPane.n
      /\ r.n = svLoop[l].n /\ r.cmd = svLoop[l].cmd
  BY <1>1 DEF SvIInv, SvShapes, SvIdle
<1>3. CASE svLoop' = [svLoop EXCEPT ![l] = SvIdle] /\ svKeys' = svKeys
  <2>1. SvShapes' /\ svLoop'[l] = SvIdle /\ \A o \in SvLoops : o # l => svLoop'[o] = svLoop[o]
    BY <1>1, <1>2, <1>3, SvLoopShapes DEF SvIInv
  <2>2. SvMeant'
    BY <1>1, <2>1 DEF SvIInv, SvMeant, SvShown
  <2>3. QED
    BY <1>1, <1>3, <2>1, <2>2, SvMovesOn DEF SvStep, SvIdle, SvDone
<1>4. CASE /\ svLoop' = [svLoop EXCEPT ![l] = r]
           /\ svKeys' = IF SvShown /\ n = svLoop[l].n
                        THEN [svKeys EXCEPT ![<<l, n>>] = IF @ < SvMany THEN @ + 1 ELSE @] ELSE svKeys
  <2>1. /\ svKeys' \in [SvLoops \X (1..SvPrompts) -> Nat]
        /\ \A o \in SvLoops, m \in 1..SvPrompts :
              <<o, m>> # <<l, n>> \/ n # svLoop[l].n => svKeys'[<<o, m>>] = svKeys[<<o, m>>]
        /\ SvShown => svKeys'[<<l, n>>] \in {svKeys[<<l, n>>], svKeys[<<l, n>>] + 1}
    <3>1. CASE svKeys' = svKeys
      BY <1>2, <3>1
    <3>2. CASE SvShown /\ n = svLoop[l].n
      <4>1. <<l, n>> \in SvLoops \X (1..SvPrompts)
        BY <3>2 DEF SvIInv, SvShapes
      <4>2. PICK k \in {svKeys[<<l, n>>], svKeys[<<l, n>>] + 1} : svKeys' = [svKeys EXCEPT ![<<l, n>>] = k]
        BY <1>4, <3>2
      <4> HIDE DEF n
      <4>3. k \in Nat
        BY <1>2, <4>1, <4>2
      <4>4. QED
        <5>1. svKeys' \in [SvLoops \X (1..SvPrompts) -> Nat] /\ svKeys'[<<l, n>>] = k
          BY <1>2, <4>1, <4>2, <4>3
        <5>2. ASSUME NEW o \in SvLoops, NEW m \in 1..SvPrompts, <<o, m>> # <<l, n>>
              PROVE  svKeys'[<<o, m>>] = svKeys[<<o, m>>]
          BY <1>2, <4>2, <5>2
        <5>3. QED
          BY <3>2, <4>2, <5>1, <5>2
    <3>3. QED
      BY <1>4, <3>1, <3>2
  <2> HIDE DEF r
  <2>2. SvShapes' /\ svLoop'[l] = r /\ \A o \in SvLoops : o # l => svLoop'[o] = svLoop[o]
    BY <1>1, <1>2, <1>4, <2>1, SvLoopShapes DEF SvIInv
  <2>3. SvMeant'
    BY <1>1, <1>2, <2>2 DEF SvIInv, SvMeant, SvShown
  <2>4. SvNotYet'
    BY <1>1, <2>1 DEF SvIInv, SvNotYet, SvShapes
  <2>5. SvPaid'
    <3>1. SUFFICES ASSUME SvProven, NEW o \in SvLoops
                   PROVE  LET k == svKeys'[<<o, n>>]
                              f == SvFaultsSoFar
                          IN  /\ k <= 1 + f
                              /\ k <= f \/ SvDone(svPane.read) \/ (svLoop'[o].at = "verify" /\ svLoop'[o].n = n)
                              /\ svLoop'[o].at = "press" /\ svLoop'[o].n = n => k <= f
      BY <1>1 DEF SvPaid, SvDone, SvProven, SvShown, SvStep, SvFaultsSoFar
    <3>2. n \in 1..SvPrompts /\ SvFaultsSoFar \in Nat /\ svKeys[<<o, n>>] \in Nat
      BY <3>1, SvCounts DEF SvIInv, SvShapes, SvProven
    <3>3. CASE o # l \/ n # svLoop[l].n
      <4>1. svKeys'[<<o, n>>] = svKeys[<<o, n>>]
        BY <2>1, <3>2, <3>3
      <4>2. o = l => svLoop'[o].at = "verify" /\ svLoop[o].at = "press"
        BY <1>1, <1>2, <2>2
      <4>3. o # l => svLoop'[o] = svLoop[o]
        BY <2>2
      <4>4. QED
        BY <3>1, <4>1, <4>2, <4>3 DEF SvIInv, SvPaid, SvStep
    <3>4. CASE o = l /\ n = svLoop[l].n
      <4>1. svKeys[<<l, n>>] <= SvFaultsSoFar
        BY <1>1, <3>1, <3>4 DEF SvIInv, SvPaid, SvStep
      <4>2. svKeys'[<<l, n>>] <= 1 + SvFaultsSoFar
        BY <2>1, <3>1, <3>2, <3>4, <4>1 DEF SvProven
      <4>3. svLoop'[l].at = "verify" /\ svLoop'[l].n = n
        BY <1>2, <2>2, <3>4
      <4>4. QED
        BY <3>4, <4>2, <4>3
    <3>5. QED
      BY <3>3, <3>4
  <2>6. QED
    BY <2>2, <2>3, <2>4, <2>5 DEF SvIInv
<1>5. QED
  BY <1>3, <1>4 DEF SvPresses

LEMMA SvAsksStep ==
    ASSUME SvIInv, NEW c, SvAgentAsks(c) PROVE SvIInv'
<1>1. PICK read : svPane' = [cmd |-> c, read |-> read, n |-> svPane.n + 1]
  BY DEF SvAgentAsks
<1>2. /\ svPane'.n = svPane.n + 1 /\ svPane.n \in Nat /\ svPane'.n \in 1..SvPrompts
      /\ UNCHANGED <<svLoop, svDecision, svKeys, svFaults>>
  BY <1>1, SvAssumption DEF SvAgentAsks, SvIInv, SvShapes
<1>3. SvShapes'
  BY <1>2 DEF SvIInv, SvShapes, SvStep
<1>4. SvNotYet' /\ \A l \in SvLoops : svKeys'[<<l, svPane'.n>>] = 0
  BY <1>2 DEF SvIInv, SvNotYet
<1>5. \A l \in SvLoops : svLoop'[l] = SvIdle \/ svLoop'[l].n # svPane'.n
  BY <1>2 DEF SvIInv, SvShapes
<1>6. SvMeant'
  BY <1>5 DEF SvMeant
<1>7. SvFaultsSoFar' \in Nat
  BY <1>2, SvCounts DEF SvIInv, SvFaultsSoFar
<1>8. SvPaid'
  <2>1. SUFFICES ASSUME NEW l \in SvLoops
                 PROVE  /\ svKeys'[<<l, svPane'.n>>] <= 1 + SvFaultsSoFar'
                        /\ svKeys'[<<l, svPane'.n>>] <= SvFaultsSoFar'
    BY DEF SvPaid
  <2>2. QED
    BY <1>4, <1>7
<1>9. QED
  BY <1>3, <1>4, <1>6, <1>8 DEF SvIInv

LEMMA SvGoesStep == ASSUME SvIInv, SvPromptGoes PROVE SvIInv'
<1>1. /\ svPane'.n = svPane.n /\ ~SvShown'
      /\ UNCHANGED <<svLoop, svDecision, svKeys, svFaults>>
  BY DEF SvPromptGoes, SvShown
<1>2. QED
  BY <1>1 DEF SvIInv, SvShapes, SvNotYet, SvMeant, SvPaid, SvProven, SvStep

\* A fault pays for one more key of each loop.
LEMMA SvFaultStep ==
    ASSUME SvIInv, UNCHANGED <<svPane, svKeys>>, SvShapes', SvMeant', SvFaultsSoFar' = SvFaultsSoFar + 1
    PROVE  SvIInv'
<1>1. SvNotYet' /\ (SvProven' <=> SvProven)
  BY DEF SvIInv, SvNotYet, SvProven, SvShown
<1>2. SvPaid'
  <2>1. SUFFICES ASSUME SvProven, NEW l \in SvLoops
                 PROVE  svKeys[<<l, svPane.n>>] <= 1 + SvFaultsSoFar /\ svKeys[<<l, svPane.n>>] \in Nat
                        /\ SvFaultsSoFar \in Nat
    BY <1>1 DEF SvPaid
  <2>2. QED
    BY <2>1, SvCounts DEF SvIInv, SvPaid, SvProven
<1>3. QED
  BY <1>1, <1>2 DEF SvIInv

LEMMA SvEndsStep == ASSUME SvIInv, NEW c, SvWindowEnds(c) PROVE SvIInv'
<1>1. UNCHANGED <<svPane, svLoop, svKeys>> /\ svFaults' = [svFaults EXCEPT !.expiries = @ + 1]
  BY DEF SvWindowEnds
<1>2. svFaults' \in [crashes : Nat, expiries : Nat] /\ SvFaultsSoFar' = SvFaultsSoFar + 1
  BY <1>1 DEF SvIInv, SvShapes, SvFaultsSoFar
<1>3. SvShapes' /\ SvMeant'
  BY <1>1, <1>2 DEF SvIInv, SvShapes, SvMeant, SvShown, SvStep
<1>4. QED
  BY <1>1, <1>2, <1>3, SvFaultStep

LEMMA SvRestartStep == ASSUME SvIInv, SvRestart PROVE SvIInv'
<1>1. /\ UNCHANGED <<svPane, svDecision, svKeys>> /\ svFaults' = [svFaults EXCEPT !.crashes = @ + 1]
      /\ svLoop' = [l \in SvLoops |-> SvIdle]
  BY DEF SvRestart
<1>2. svFaults' \in [crashes : Nat, expiries : Nat] /\ SvFaultsSoFar' = SvFaultsSoFar + 1
  BY <1>1 DEF SvIInv, SvShapes, SvFaultsSoFar
<1>3. SvShapes' /\ SvMeant'
  BY <1>1, <1>2 DEF SvIInv, SvShapes, SvMeant, SvShown, SvStep
<1>4. QED
  BY <1>1, <1>2, <1>3, SvFaultStep

LEMMA SvInductive == SvSpec => []SvIInv
<1>1. SvInit => SvIInv
  BY SvAssumption DEF SvInit, SvIInv, SvShapes, SvNotYet, SvMeant, SvPaid, SvProven, SvShown, SvNoPrompt
<1>2. SvIInv /\ [SvNext]_SvVars => SvIInv'
  <2> SUFFICES ASSUME SvIInv, [SvNext]_SvVars PROVE SvIInv'
    OBVIOUS
  <2>1. CASE UNCHANGED SvVars
    BY <2>1 DEF SvVars, SvIInv, SvShapes, SvNotYet, SvMeant, SvPaid, SvProven, SvShown, SvStep,
                SvFaultsSoFar, SvDone
  <2>2. QED
    BY <2>1, SvSeesStep, SvDecidesStep, SvPressesStep, SvVerifiesStep, SvAsksStep, SvEndsStep,
       SvGoesStep, SvRestartStep DEF SvNext
<1>3. QED
  BY <1>1, <1>2, PTL DEF SvSpec

\* One loop presses at most once for one appearance of a proven prompt, but for each
\* restart before its record and each end of the dedup window: for any commands and any
\* number of prompts.
THEOREM PressedOnce == SvSpec => []SvOncePerLoop
<1>1. SvIInv => SvOncePerLoop
  <2> SUFFICES ASSUME SvIInv, SvProven, NEW l \in SvLoops
               PROVE  svKeys[<<l, svPane.n>>] <= 1 + SvFaultsSoFar
    BY SvCounts DEF SvOncePerLoop, SvProven, SvFaultsSoFar, SvIInv, SvShapes
  <2>1. QED
    BY DEF SvIInv, SvPaid
<1>2. QED
  BY <1>1, SvInductive, PTL

----------------------------------------------------------------------------
(* The classification of commands, however deep they nest *)

SvSegs == SvSegments(SvInside)
\* What the property asks of a segment.
SvPart(s) == s.prog \in SvPrograms /\ ~SvHas(s, {"hidden", "env", "secret"}) /\ ~SvWrites(s)

\* A command inside another is empty or of one of the depths, and what is inside it is of
\* a smaller one.
LEMMA SvDepths ==
    /\ \A c \in SvInside : c = <<>> \/ \E n \in DOMAIN SvNested : c \in SvNested[n]
    /\ \A n \in DOMAIN SvNested : \A c \in SvNested[n] :
          /\ c \in Seq(SvSegs)
          /\ \A i \in 1..Len(c) : c[i].inner = <<>> \/ \E m \in DOMAIN SvNested : m < n /\ c[i].inner \in SvNested[m]
<1>1. Len(SvNested) \in Nat /\ DOMAIN SvNested = 1..Len(SvNested)
  BY SvAssumption
<1>2. \A n \in DOMAIN SvNested : SvBelow(n) \subseteq SvInside
  BY <1>1 DEF SvInside, SvBelow
<1>3. \A n \in DOMAIN SvNested : SvSegments(SvBelow(n)) \subseteq SvSegs
  BY <1>2 DEF SvSegments, SvSegs
<1>4. \A c \in SvInside : c = <<>> \/ \E n \in DOMAIN SvNested : c \in SvNested[n]
  BY <1>1 DEF SvInside, SvBelow
<1>5. ASSUME NEW n \in DOMAIN SvNested, NEW c \in SvNested[n]
      PROVE  /\ c \in Seq(SvSegs)
             /\ \A i \in 1..Len(c) : c[i].inner = <<>> \/ \E m \in DOMAIN SvNested : m < n /\ c[i].inner \in SvNested[m]
  <2>1. c \in Seq(SvSegments(SvBelow(n)))
    BY <1>5, SvAssumption
  <2>2. c \in Seq(SvSegs)
    BY <1>3, <2>1
  <2>3. \A i \in 1..Len(c) : c[i].inner \in SvBelow(n)
    BY <2>1 DEF SvSegments
  <2>4. ASSUME NEW i \in 1..Len(c), c[i].inner # <<>>
        PROVE  \E m \in DOMAIN SvNested : m < n /\ c[i].inner \in SvNested[m]
    <3>1. PICK m \in 1..(n - 1) : c[i].inner \in SvNested[m]
      BY <2>3, <2>4 DEF SvBelow
    <3>2. m \in DOMAIN SvNested /\ m < n
      BY <1>1
    <3>3. QED
      BY <3>1, <3>2
  <2>5. QED
    BY <2>2, <2>4
<1>6. QED
  BY <1>4, <1>5

LEMMA SvInsideSeq == \A c \in SvInside : c \in Seq(SvSegs)
<1>1. <<>> \in Seq(SvSegs)
  OBVIOUS
<1>2. QED
  BY <1>1, SvDepths

LEMMA SvSegmentsOf ==
    \A c \in SvInside : \A i \in 1..Len(c) : c[i] \in SvSegs /\ c[i].inner \in SvInside
<1>1. \A c \in SvInside : \A i \in 1..Len(c) : c[i] \in SvSegs
  BY SvInsideSeq
<1>2. \A s \in SvSegs : s.inner \in SvInside
  BY DEF SvSegs, SvSegments
<1>3. QED
  BY <1>1, <1>2

\* A segment is judged by itself and by the command it runs inside.
LEMMA SvSegmentMonotone ==
    ASSUME NEW s, NEW f, NEW g, SvSegmentSafe(s, f), SvInnerSafe(s, f) => SvInnerSafe(s, g)
    PROVE  SvSegmentSafe(s, g)
BY DEF SvSegmentSafe, SvCheck, SvCheckShell, SvCheckTimeout, SvCheckDocker

LEMMA SvMonotone ==
    ASSUME NEW c \in Seq(SvSegs), NEW f, NEW g, \A d \in SvInside : f[d] => g[d], SvAllSafe(c, f)
    PROVE  SvAllSafe(c, g)
<1>1. ASSUME NEW i \in 1..Len(c) PROVE SvSegmentSafe(c[i], g)
  <2>1. c[i] \in SvSegs /\ SvSegmentSafe(c[i], f)
    BY DEF SvAllSafe
  <2>2. c[i].inner \in SvInside
    BY <2>1 DEF SvSegs, SvSegments
  <2>3. QED
    BY <2>1, <2>2, SvSegmentMonotone DEF SvInnerSafe
<1>2. QED
  BY <1>1 DEF SvAllSafe

\* The recursion of the classification is well defined: the greatest set of commands that
\* vouch for each other is a solution of its equation.
LEMMA SvSafeIsDefined == SvSafeInside = [c \in SvInside |-> SvAllSafe(c, SvSafeInside)]
<1> DEFINE Of(S) == [x \in SvInside |-> x \in S]
           G == {d \in SvInside : \E S \in SUBSET SvInside : d \in S /\ \A e \in S : SvAllSafe(e, Of(S))}
<1>1. ASSUME NEW d \in G PROVE SvAllSafe(d, Of(G))
  <2>1. PICK S \in SUBSET SvInside : d \in S /\ \A e \in S : SvAllSafe(e, Of(S))
    OBVIOUS
  <2>2. S \subseteq G
    BY <2>1
  <2>3. \A x \in SvInside : Of(S)[x] => Of(G)[x]
    BY <2>2
  <2>4. d \in Seq(SvSegs) /\ SvAllSafe(d, Of(S))
    BY <2>1, SvInsideSeq
  <2> HIDE DEF Of
  <2>5. QED
    BY <2>3, <2>4, SvMonotone
<1>2. ASSUME NEW d \in SvInside, SvAllSafe(d, Of(G)) PROVE d \in G
  <2> DEFINE S == G \cup {d}
  <2>1. S \in SUBSET SvInside /\ \A x \in SvInside : Of(G)[x] => Of(S)[x]
    OBVIOUS
  <2>2. ASSUME NEW e \in S PROVE SvAllSafe(e, Of(S))
    <3>1. SvAllSafe(e, Of(G)) /\ e \in Seq(SvSegs)
      BY <1>1, <1>2, <2>1, SvInsideSeq
    <3> HIDE DEF Of, S, G
    <3>2. QED
      BY <2>1, <3>1, SvMonotone
  <2>3. QED
    BY <2>1, <2>2
<1> HIDE DEF G
<1>3. Of(G) = [c \in SvInside |-> SvAllSafe(c, Of(G))]
  <2>1. G \subseteq SvInside
    BY DEF G
  <2>2. \A c \in SvInside : (c \in G) = SvAllSafe(c, Of(G))
    BY <1>1, <1>2 DEF SvAllSafe
  <2>3. QED
    BY <2>2
<1> HIDE DEF Of
<1>4. QED
  BY <1>3, Zenon DEF SvSafeInside

\* The same for the parts of a command, of which the least solution is taken.
SvOnce(c, parts) == UNION {{c[i]} \cup parts[SvLookedInto(c[i])] : i \in 1..Len(c)}
LEMMA SvPartsIsDefined == SvPartsInside = [c \in SvInside |-> SvOnce(c, SvPartsInside)]
<1> DEFINE Fs == [SvInside -> SUBSET SvSegs]
           Closed(k) == \A d \in SvInside : SvOnce(d, k) \subseteq k[d]
           h == [c \in SvInside |-> {s \in SvSegs : \A k \in Fs : Closed(k) => s \in k[c]}]
<1>1. \A c \in SvInside : \A i \in 1..Len(c) : c[i] \in SvSegs /\ SvLookedInto(c[i]) \in SvInside
  BY SvSegmentsOf DEF SvLookedInto, SvInside, SvBelow
<1>2. \A c \in SvInside, k \in Fs : SvOnce(c, k) \subseteq SvSegs
  BY <1>1 DEF SvOnce
<1>3. h \in Fs
  OBVIOUS
<1>4. ASSUME NEW c \in SvInside PROVE SvOnce(c, h) \subseteq h[c]
  <2>1. ASSUME NEW s \in SvOnce(c, h), NEW k \in Fs, Closed(k) PROVE s \in k[c]
    <3>1. PICK i \in 1..Len(c) : s = c[i] \/ s \in h[SvLookedInto(c[i])]
      BY DEF SvOnce
    <3>2. s = c[i] \/ s \in k[SvLookedInto(c[i])]
      BY <1>1, <2>1, <3>1
    <3>3. s \in SvOnce(c, k)
      BY <3>2 DEF SvOnce
    <3>4. QED
      BY <2>1, <3>3
  <2>2. QED
    BY <1>2, <1>3, <2>1
<1>5. ASSUME NEW c \in SvInside PROVE h[c] \subseteq SvOnce(c, h)
  <2> DEFINE k == [d \in SvInside |-> SvOnce(d, h)]
  <2>1. k \in Fs
    BY <1>2, <1>3
  <2>2. ASSUME NEW d \in SvInside, NEW s \in SvOnce(d, k) PROVE s \in k[d]
    <3>1. PICK i \in 1..Len(d) : s = d[i] \/ s \in k[SvLookedInto(d[i])]
      BY <2>2 DEF SvOnce
    <3>2. SvLookedInto(d[i]) \in SvInside
      BY <1>1
    <3>3. s = d[i] \/ s \in h[SvLookedInto(d[i])]
      BY <1>4, <3>1, <3>2
    <3> HIDE DEF h
    <3>4. s \in SvOnce(d, h)
      BY <3>3 DEF SvOnce
    <3>5. QED
      BY <3>4
  <2>3. Closed(k)
    BY <2>2
  <2>4. QED
    BY <2>1, <2>3
<1>6. h = [c \in SvInside |-> SvOnce(c, h)]
  BY <1>4, <1>5
<1> HIDE DEF h
<1>7. QED
  BY <1>6, Zenon DEF SvPartsInside, SvOnce

\* The segments of a reading: those of a command, with words and without subcommands.
SvRuns(s) ==
    s.inner # <<>> => \/ s.prog \in SvHardWrappers \cup SvShells \cup SvUnchecked \cup {"timeout"}
                      \/ s.prog = "docker" /\ s.sub \in {"exec", "compose_exec"}
SvRecord == [prog : STRING, sub : STRING \cup {"none"}, opts : SUBSET (STRING \cup {"words"}), inner : SvInside]
SvLike == {s \in SvRecord : SvRuns(s)}
LEMMA SvSegsAre == SvSegs \subseteq SvLike
BY DEF SvSegs, SvSegments, SvRecord, SvRuns, SvLike

\* A segment that is safe is proven, and so is the command it runs inside.
LEMMA SvSafeSegment ==
    ASSUME NEW s \in SvLike, NEW f, SvSegmentSafe(s, f)
    PROVE  SvPart(s) /\ (SvLookedInto(s) # <<>> => SvLookedInto(s) = s.inner /\ f[s.inner])
<1>1. s.prog \in SvPrograms /\ ~SvHas(s, {"hidden", "env", "secret"}) /\ SvCheck(s, f)
  BY DEF SvSegmentSafe
<1>2. ~SvWrites(s)
  <2>1. s.prog = "git" => SvCheckGit(s)
    BY <1>1 DEF SvCheck
  <2>2. /\ s.prog = "find" => SvCheckFind(s)
        /\ s.prog = "sed" => SvCheckSed(s)
        /\ s.prog = "psql" => SvCheckSql(s)
    BY <1>1 DEF SvCheck
  <2>3. s.prog = "git" => /\ s.sub \in {"checkout", "switch", "branch"} => ~SvHas(s, {"force"})
                          /\ s.sub = "commit" => ~SvHas(s, {"amend", "no_verify"})
    BY <2>1 DEF SvCheckGit, SvHas
  <2>4. QED
    BY <2>2, <2>3 DEF SvWrites, SvCheckFind, SvCheckSed, SvCheckSql
<1>3. ASSUME s.inner # <<>>, s.prog \notin SvUnchecked PROVE f[s.inner]
  <2>1. \/ s.prog \in SvHardWrappers \cup SvShells \cup {"timeout"}
        \/ s.prog = "docker" /\ s.sub \in {"exec", "compose_exec"}
    BY <1>3 DEF SvLike, SvRuns
  <2>2. s.prog \notin SvHardWrappers
    BY DEF SvSegmentSafe
  <2>3. QED
    BY <1>1, <2>1, <2>2 DEF SvCheck, SvCheckShell, SvCheckTimeout, SvCheckDocker, SvInnerSafe, SvShells
<1>4. QED
  BY <1>1, <1>2, <1>3 DEF SvPart, SvLookedInto

\* Every segment of a safe command inside another is proven, by the depth of the command.
LEMMA SvInsideProven ==
    ASSUME NEW c \in SvInside, c = <<>> \/ SvSafeInside[c], NEW s \in SvPartsInside[c]
    PROVE  SvPart(s)
<1> DEFINE Bad(d) == d # <<>> /\ SvSafeInside[d] /\ \E p \in SvPartsInside[d] : ~SvPart(p)
           Depths == {n \in DOMAIN SvNested : \E d \in SvNested[n] : d \in SvInside /\ Bad(d)}
<1>1. \A d \in SvInside : SvPartsInside[d] = SvOnce(d, SvPartsInside)
  BY SvPartsIsDefined
<1>2. SvPartsInside[<<>>] = {} \/ <<>> \notin SvInside
  BY <1>1 DEF SvOnce
<1>3. Depths = {}
  <2>1. SUFFICES ASSUME Depths # {} PROVE FALSE
    OBVIOUS
  <2>2. Depths \in SUBSET Nat
    BY SvAssumption
  <2>3. PICK n \in Depths : \A m \in Depths : n <= m
    BY <2>1, <2>2, Least
  <2>4. PICK d \in SvNested[n] : d \in SvInside /\ Bad(d)
    OBVIOUS
  <2>5. PICK p \in SvPartsInside[d] : ~SvPart(p)
    BY <2>4
  <2>6. PICK i \in 1..Len(d) : p = d[i] \/ p \in SvPartsInside[SvLookedInto(d[i])]
    BY <1>1, <2>4 DEF SvOnce
  <2>7. d[i] \in SvSegs /\ d[i].inner \in SvInside /\ SvLookedInto(d[i]) \in SvInside
    BY <2>4, SvSegmentsOf DEF SvLookedInto, SvInside, SvBelow
  <2>8. SvSegmentSafe(d[i], SvSafeInside)
    BY <2>4, SvSafeIsDefined DEF SvAllSafe
  <2>9. /\ SvPart(d[i])
        /\ SvLookedInto(d[i]) # <<>> => SvLookedInto(d[i]) = d[i].inner /\ SvSafeInside[d[i].inner]
    BY <2>7, <2>8, SvSafeSegment, SvSegsAre
  <2>10. p \in SvPartsInside[d[i].inner] /\ d[i].inner # <<>> /\ SvSafeInside[d[i].inner]
    BY <1>2, <2>5, <2>6, <2>7, <2>9
  <2>11. Bad(d[i].inner)
    BY <2>5, <2>10
  <2>12. PICK m \in DOMAIN SvNested : m < n /\ d[i].inner \in SvNested[m]
    BY <2>4, <2>10, SvDepths
  <2>13. m \in Depths
    BY <2>7, <2>11, <2>12
  <2>14. QED
    BY <2>2, <2>3, <2>12, <2>13
<1>4. CASE c = <<>>
  BY <1>2, <1>4
<1>5. CASE c # <<>> /\ ~SvPart(s)
  BY <1>3, <1>5, SvDepths
<1>6. QED
  BY <1>4, <1>5

\* Lines run together and rows cut off leave a command of the same segments' kind.
LEMMA SvJoinedIs ==
    ASSUME NEW c \in Seq(SvLike), NEW i \in 1..(Len(c) - 1) PROVE SvJoined(c, i) \in Seq(SvLike) \ {<<>>}
<1> DEFINE s == [c[i] EXCEPT !.sub = IF @ = "none" THEN c[i + 1].prog ELSE @,
                             !.opts = @ \cup (c[i + 1].opts \ {"env"}) \cup {"words"}]
<1>1. c[i] \in SvLike /\ c[i + 1] \in SvLike /\ i \in Nat /\ Len(c) \in Nat
  OBVIOUS
<1>2. s \in SvLike
  <2> DEFINE a == c[i]
  <2>1. PICK sub \in STRING \cup {"none"}, opts \in SUBSET (STRING \cup {"words"}) :
           s = [a EXCEPT !.sub = sub, !.opts = opts] /\ (sub = a.sub \/ a.sub = "none")
    <3> DEFINE b == c[i + 1]
    <3>1. /\ a.sub \in STRING \cup {"none"} /\ a.opts \in SUBSET (STRING \cup {"words"})
          /\ b.prog \in STRING /\ b.opts \in SUBSET (STRING \cup {"words"})
      BY <1>1 DEF SvLike, SvRecord
    <3>2. s = [a EXCEPT !.sub = IF a.sub = "none" THEN b.prog ELSE a.sub,
                        !.opts = a.opts \cup (b.opts \ {"env"}) \cup {"words"}]
      OBVIOUS
    <3> HIDE DEF a, b, s
    <3>3. a.opts \cup (b.opts \ {"env"}) \cup {"words"} \in SUBSET (STRING \cup {"words"})
      BY <3>1
    <3>4. (IF a.sub = "none" THEN b.prog ELSE a.sub) \in STRING \cup {"none"}
      BY <3>1
    <3>5. QED
      BY <3>2, <3>3, <3>4
  <2>2. a \in SvRecord /\ SvRuns(a)
    BY <1>1 DEF SvLike
  <2> HIDE DEF s, a
  <2>3. s \in SvRecord /\ s.prog = a.prog /\ s.inner = a.inner /\ s.sub = sub
    BY <2>1, <2>2 DEF SvRecord
  <2>4. SvRuns(s)
    BY <2>1, <2>2, <2>3 DEF SvRuns
  <2>5. QED
    BY <2>3, <2>4 DEF SvLike
<1>3. SubSeq(c, 1, i - 1) \in Seq(SvLike) /\ SubSeq(c, i + 2, Len(c)) \in Seq(SvLike)
  OBVIOUS
<1>4. SvJoined(c, i) = SubSeq(c, 1, i - 1) \o <<s>> \o SubSeq(c, i + 2, Len(c))
  BY DEF SvJoined
<1> HIDE DEF s
<1>5. <<s>> \in Seq(SvLike)
  BY <1>2
<1>6. ASSUME NEW u \in Seq(SvLike), NEW v \in Seq(SvLike) PROVE u \o <<s>> \o v \in Seq(SvLike) \ {<<>>}
  <2>1. u \o <<s>> \in Seq(SvLike) /\ Len(u \o <<s>>) = Len(u) + 1
    BY <1>5
  <2>2. QED
    BY <2>1
<1>7. QED
  BY <1>3, <1>4, <1>6

LEMMA SvCutIs ==
    ASSUME NEW c \in Seq(SvLike) \ {<<>>}, NEW r \in SvCut(c) PROVE r \in Seq(SvLike)
<1>1. Len(c) \in 1..Len(c) /\ c[Len(c)] \in SvLike
  OBVIOUS
<1>2. ASSUME NEW s \in SvShorter(c[Len(c)]) PROVE s \in SvLike
  <2>1. [c[Len(c)] EXCEPT !.opts = @ \ {"words"}] \in SvLike
    BY <1>1 DEF SvLike, SvRecord, SvRuns
  <2>2. \A sub \in {c[Len(c)].sub, "none"} :
           [prog |-> c[Len(c)].prog, sub |-> sub, opts |-> {}, inner |-> <<>>] \in SvLike
    <3>1. <<>> \in SvInside /\ c[Len(c)].prog \in STRING /\ c[Len(c)].sub \in STRING \cup {"none"}
      BY <1>1 DEF SvLike, SvRecord, SvInside, SvBelow
    <3> DEFINE P == c[Len(c)].prog
               S == c[Len(c)].sub
    <3>2. P \in STRING /\ {S, "none"} \subseteq STRING \cup {"none"}
      BY <3>1
    <3> HIDE DEF P, S
    <3>3. ASSUME NEW sub \in {S, "none"} PROVE [prog |-> P, sub |-> sub, opts |-> {}, inner |-> <<>>] \in SvLike
      BY <3>1, <3>2 DEF SvLike, SvRecord, SvRuns
    <3>4. QED
      BY <3>3 DEF P, S
  <2>3. QED
    BY <1>2, <2>1, <2>2 DEF SvShorter
<1>3. CASE \E s \in SvShorter(c[Len(c)]) : r = [c EXCEPT ![Len(c)] = s]
  BY <1>1, <1>2, <1>3
<1>4. CASE \E n \in 1..Len(c) : r = SubSeq(c, 1, n)
  BY <1>4
<1>5. QED
  BY <1>3, <1>4 DEF SvCut

LEMMA SvReadIs ==
    ASSUME NEW c \in SvCommands, NEW r \in SvReads(c), r # SvNone PROVE r \in Seq(SvLike)
<1>1. c \in Seq(SvLike) \ {<<>>}
  BY SvAssumption, SvSegsAre DEF SvSegs
<1>2. PICK w \in SvWhole(c) : r = w \/ r \in SvCut(w)
  BY DEF SvReads
<1>3. w \in Seq(SvLike) \ {<<>>}
  BY <1>1, SvJoinedIs DEF SvWhole
<1>4. QED
  BY <1>2, <1>3, SvCutIs

\* A command found safe is proven in all its segments.
LEMMA SvSafeProven ==
    ASSUME NEW r \in Seq(SvLike), SvSafe(r), NEW s \in SvParts(r) PROVE SvPart(s)
<1>1. PICK i \in 1..Len(r) : s = r[i] \/ s \in SvPartsInside[SvLookedInto(r[i])]
  BY DEF SvParts
<1>2. r[i] \in SvLike /\ r[i].inner \in SvInside /\ <<>> \in SvInside
  BY DEF SvLike, SvRecord, SvInside, SvBelow
<1>3. /\ SvPart(r[i])
      /\ SvLookedInto(r[i]) # <<>> => SvLookedInto(r[i]) = r[i].inner /\ SvSafeInside[r[i].inner]
  BY <1>1, <1>2, SvSafeSegment DEF SvSafe, SvAllSafe
<1>4. CASE s \in SvPartsInside[SvLookedInto(r[i])]
  BY <1>2, <1>3, <1>4, SvInsideProven
<1>5. QED
  BY <1>1, <1>3, <1>4

\* What the loops see is what is read of the command the agent asks for.
SvReadOf == SvShown => svPane.cmd \in SvCommands /\ svPane.read \in SvReads(svPane.cmd)
LEMMA SvReadAlways == SvSpec => []SvReadOf
<1>1. SvInit => SvReadOf
  BY DEF SvInit, SvReadOf, SvShown, SvNoPrompt
<1>2. SvReadOf /\ [SvNext]_SvVars => SvReadOf'
  <2> SUFFICES ASSUME SvReadOf, [SvNext]_SvVars PROVE SvReadOf'
    OBVIOUS
  <2>1. CASE svPane' = svPane
    BY <2>1 DEF SvReadOf, SvShown, SvReads
  <2>2. ASSUME NEW c \in SvCommands, SvAgentAsks(c) PROVE SvReadOf'
    BY <2>2 DEF SvAgentAsks, SvReadOf, SvShown, SvReads
  <2>3. CASE SvPromptGoes
    BY <2>3 DEF SvPromptGoes, SvReadOf, SvShown
  <2>4. QED
    BY <2>1, <2>2, <2>3 DEF SvNext, SvVars, SvSees, SvDecides, SvPresses, SvVerifies, SvWindowEnds, SvRestart
<1>3. QED
  BY <1>1, <1>2, PTL DEF SvSpec

\* A loop about to press holds a command it may approve, and so was what is read of the
\* prompt on which a key was pressed.
SvAllowed(c) ==
    \E repo \in {"current_branch_ahead_of_its_own_upstream", "anything_else"}, listed \in BOOLEAN :
        SvMayApprove(c, TRUE, repo, listed)
SvPressed ==
    /\ \A l \in SvLoops : svLoop[l] # SvIdle => svLoop[l].cmd # SvNone
    /\ \A l \in SvLoops : svLoop[l].at = "press" => SvAllowed(svLoop[l].cmd)
    /\ SvShown => \A l \in SvLoops :
          svKeys[<<l, svPane.n>>] > 0 => svPane.read # SvNone /\ SvAllowed(svPane.read)

LEMMA SvPressedStep == SvIInv /\ SvPressed /\ [SvNext]_SvVars => SvPressed'
<1> SUFFICES ASSUME SvIInv, SvPressed, [SvNext]_SvVars PROVE SvPressed'
  OBVIOUS
<1>1. DOMAIN svLoop = SvLoops /\ svKeys \in [SvLoops \X (1..SvPrompts) -> Nat]
  BY DEF SvIInv, SvShapes
<1>2. CASE UNCHANGED SvVars
  BY <1>2 DEF SvVars, SvPressed, SvShown
<1>3. ASSUME UNCHANGED <<svPane, svKeys>>,
             \A l \in SvLoops : /\ svLoop'[l].at = "press" => SvAllowed(svLoop'[l].cmd)
                                /\ svLoop'[l] # SvIdle => svLoop'[l].cmd # SvNone
      PROVE  SvPressed'
  BY <1>3 DEF SvPressed, SvShown
<1>4. ASSUME NEW l \in SvLoops, NEW b \in BOOLEAN, SvSees(l, b) PROVE SvPressed'
  BY <1>1, <1>3, <1>4 DEF SvSees, SvPressed
<1>5. ASSUME NEW l \in SvLoops, NEW b \in BOOLEAN, SvDecides(l, b) PROVE SvPressed'
  <2> DEFINE r == [svLoop[l] EXCEPT !.at = "press"]
  <2>1. UNCHANGED <<svPane, svKeys>> /\ svLoop[l].at = "decide"
    BY <1>5 DEF SvDecides
  <2>2. \/ svLoop' = [svLoop EXCEPT ![l] = SvIdle]
        \/ svLoop' = [svLoop EXCEPT ![l] = r] /\ SvAllowed(svLoop[l].cmd)
    BY <1>5 DEF SvDecides, SvAllowed, SvMayApprove
  <2>3. r.cmd = svLoop[l].cmd /\ svLoop[l].cmd # SvNone
    <3>1. svLoop[l] # SvIdle /\ r.cmd = svLoop[l].cmd
      BY <2>1 DEF SvIInv, SvShapes, SvIdle
    <3>2. QED
      BY <3>1 DEF SvPressed
  <2> HIDE DEF r
  <2>4. ASSUME NEW o \in SvLoops
        PROVE  /\ svLoop'[o].at = "press" => SvAllowed(svLoop'[o].cmd)
               /\ svLoop'[o] # SvIdle => svLoop'[o].cmd # SvNone
    <3>1. CASE o # l
      <4>1. svLoop'[o] = svLoop[o]
        BY <1>1, <2>2, <3>1
      <4>2. QED
        BY <4>1 DEF SvPressed
    <3>2. CASE o = l /\ svLoop' = [svLoop EXCEPT ![l] = SvIdle]
      <4>1. svLoop'[o] = SvIdle /\ SvIdle.at = "idle"
        BY <1>1, <3>2 DEF SvIdle
      <4>2. QED
        BY <4>1
    <3>3. CASE o = l /\ svLoop' = [svLoop EXCEPT ![l] = r] /\ SvAllowed(svLoop[l].cmd)
      <4>1. svLoop'[o] = r
        BY <1>1, <3>3
      <4>2. QED
        BY <2>3, <3>3, <4>1
    <3>4. QED
      BY <2>2, <3>1, <3>2, <3>3
  <2>5. QED
    BY <1>3, <2>1, <2>4
<1>6. ASSUME NEW l \in SvLoops, SvPresses(l) PROVE SvPressed'
  <2>1. svPane' = svPane /\ svLoop[l].at = "press"
    BY <1>6 DEF SvPresses
  <2>2. svLoop' = [svLoop EXCEPT ![l].at = "verify"] \/ svLoop' = [svLoop EXCEPT ![l] = SvIdle]
    BY <1>6 DEF SvPresses
  <2>3. svLoop[l] # SvIdle /\ DOMAIN svLoop[l] = {"at", "cmd", "n", "optedIn"}
    BY <2>1 DEF SvIInv, SvShapes, SvIdle
  <2> DEFINE r == [svLoop[l] EXCEPT !.at = "verify"]
  <2>8. r.at = "verify" /\ r.cmd = svLoop[l].cmd /\ svLoop[l].cmd # SvNone
    <3>1. r.at = "verify" /\ r.cmd = svLoop[l].cmd
      BY <2>3
    <3>2. QED
      BY <2>3, <3>1 DEF SvPressed
  <2>9. svLoop' = [svLoop EXCEPT ![l] = r] \/ svLoop' = [svLoop EXCEPT ![l] = SvIdle]
    BY <2>2
  <2> HIDE DEF r
  <2>4. ASSUME NEW o \in SvLoops
        PROVE  /\ svLoop'[o].at = "press" => SvAllowed(svLoop'[o].cmd)
               /\ svLoop'[o] # SvIdle => svLoop'[o].cmd # SvNone
    <3>1. CASE o # l
      <4>1. svLoop'[o] = svLoop[o]
        BY <1>1, <2>9, <3>1
      <4>2. QED
        BY <4>1 DEF SvPressed
    <3>2. CASE o = l /\ svLoop' = [svLoop EXCEPT ![l] = SvIdle]
      <4>1. svLoop'[o] = SvIdle /\ SvIdle.at = "idle"
        BY <1>1, <3>2 DEF SvIdle
      <4>2. QED
        BY <4>1
    <3>3. CASE o = l /\ svLoop' = [svLoop EXCEPT ![l] = r]
      <4>1. svLoop'[o] = r
        BY <1>1, <3>3
      <4>2. QED
        BY <2>8, <4>1
    <3>4. QED
      BY <2>9, <3>1, <3>2, <3>3
  <2>5. CASE svKeys' = svKeys
    BY <1>3, <2>1, <2>4, <2>5
  <2>6. CASE SvShown /\ svPane.n = svLoop[l].n
    <3>1. svPane.read # SvNone /\ SvAllowed(svPane.read)
      BY <2>1, <2>3, <2>6 DEF SvIInv, SvMeant, SvPressed
    <3>2. QED
      BY <2>1, <2>4, <3>1 DEF SvPressed
  <2>7. QED
    BY <1>6, <2>5, <2>6 DEF SvPresses
<1>7. ASSUME NEW l \in SvLoops, SvVerifies(l) PROVE SvPressed'
  BY <1>1, <1>3, <1>7 DEF SvVerifies, SvPressed, SvIdle
<1>8. ASSUME NEW c \in SvCommands, SvAgentAsks(c) PROVE SvPressed'
  <2>1. svPane'.n = svPane.n + 1 /\ UNCHANGED <<svLoop, svKeys>> /\ svPane.n + 1 \in 1..SvPrompts /\ svPane.n \in Nat
    BY <1>8, SvAssumption DEF SvAgentAsks, SvIInv, SvShapes
  <2>2. \A l \in SvLoops : svKeys'[<<l, svPane'.n>>] = 0
    BY <2>1 DEF SvIInv, SvNotYet
  <2>3. QED
    BY <2>1, <2>2 DEF SvPressed
<1>9. CASE SvPromptGoes
  BY <1>9 DEF SvPromptGoes, SvPressed, SvShown
<1>10. ASSUME NEW c, SvWindowEnds(c) PROVE SvPressed'
  BY <1>3, <1>10 DEF SvWindowEnds, SvPressed
<1>11. CASE SvRestart
  BY <1>3, <1>11 DEF SvRestart, SvIdle
<1>12. QED
  BY <1>2, <1>4, <1>5, <1>6, <1>7, <1>8, <1>9, <1>10, <1>11 DEF SvNext

\* A key is pressed only on a prompt of whose command everything read is proven, however
\* deep it nests, or is the one push or service operation allowed, and one loop presses
\* once for a proven one, once more for each restart and each end of the window: for any
\* commands of any depth.
THEOREM PromptsAreProven == SvSpec => []SvInv
<1>1. SvReadOf /\ SvPressed => SvEverySegmentProven
  <2> SUFFICES ASSUME SvReadOf, SvPressed, SvShown, NEW l \in SvLoops, svKeys[<<l, svPane.n>>] > 0
               PROVE  \/ /\ SvAlone(svPane.read, LAMBDA s : s.prog = "git" /\ s.sub = "push")
                         /\ \A i \in 1..Len(svPane.read) : ~SvHas(svPane.read[i], {"force", "refspec"})
                      \/ SvAlone(svPane.read, LAMBDA s : s.sub \in {"restart", "compose_up"} /\ "force" \notin s.opts)
                      \/ \A s \in SvParts(svPane.read) : SvPart(s)
    BY DEF SvEverySegmentProven, SvPart
  <2>1. SvAllowed(svPane.read) /\ svPane.read # SvNone
    BY DEF SvPressed
  <2>2. CASE SvSafe(svPane.read)
    <3>1. svPane.read \in SvReads(svPane.cmd) /\ svPane.cmd \in SvCommands /\ svPane.read # SvNone
      BY <2>1 DEF SvReadOf
    <3>2. QED
      BY <2>2, <3>1, SvReadIs, SvSafeProven
  <2>3. CASE SvIsPush(svPane.read) /\ \E repo : SvPushAllowed(svPane.read, repo)
    BY <2>3 DEF SvIsPush, SvPushAllowed, SvHas
  <2>4. CASE SvIsServiceOp(svPane.read) /\ \E listed : SvServiceAllowed(svPane.read, listed)
    BY <2>4 DEF SvIsServiceOp, SvServiceAllowed, SvAlone
  <2>5. QED
    BY <2>1, <2>2, <2>3, <2>4 DEF SvAllowed, SvMayApprove
<1>2. SvInit => SvPressed
  BY DEF SvInit, SvPressed, SvShown, SvNoPrompt, SvIdle
<1>3. QED
  BY <1>1, <1>2, SvReadAlways, SvInductive, SvPressedStep, PressedOnce, PTL DEF SvInv, SvSpec

----------------------------------------------------------------------------
(* The types of the prompts *)

SvDecisions == {"left", "approved", "approved_no_resume", "old"}
SvReadTypes ==
    /\ svPane.cmd \in SvCommands \cup {SvNone} /\ svPane.read \in SvReadable \cup {SvNone}
    /\ \A l \in SvLoops : svLoop[l] = SvIdle \/ svLoop[l].cmd \in SvReadable \ {SvNone}
SvRowTypes ==
    /\ DOMAIN svDecision \subseteq SvReadable \ {SvNone}
    /\ \A c \in DOMAIN svDecision : svDecision[c] \in SvDecisions
SvCountTypes ==
    /\ svKeys \in [SvLoops \X (1..SvPrompts) -> 0..SvMany]
    /\ svFaults.crashes \in 0..SvCrashes /\ svFaults.expiries \in 0..SvExpiries

LEMMA SvRowStep ==
    ASSUME SvRowTypes, NEW c \in SvReadable \ {SvNone}, NEW d \in SvDecisions, SvRecords(c, d)
    PROVE  SvRowTypes'
BY DEF SvRecords, SvRowTypes

LEMMA SvReadTypesStep ==
    ASSUME SvIInv, SvReadTypes, SvRowTypes, [SvNext]_SvVars PROVE SvReadTypes' /\ SvRowTypes'
<1> USE DEF SvIInv, SvShapes
<1>1. ASSUME NEW l \in SvLoops, NEW b \in BOOLEAN, SvSees(l, b) PROVE SvReadTypes' /\ SvRowTypes'
  BY <1>1 DEF SvSees, SvReadTypes, SvRowTypes
<1>2. ASSUME NEW l \in SvLoops, NEW b \in BOOLEAN, SvDecides(l, b) PROVE SvReadTypes' /\ SvRowTypes'
  <2> DEFINE c == svLoop[l].cmd
  <2>1. c \in SvReadable \ {SvNone}
    BY <1>2 DEF SvDecides, SvReadTypes, SvIdle
  <2>2. svDecision' = svDecision \/ SvRecords(c, "left")
    BY <1>2 DEF SvDecides
  <2>3. SvRowTypes'
    BY <2>1, <2>2, SvRowStep DEF SvRowTypes, SvDecisions
  <2>4. svPane' = svPane /\ (svLoop' = [svLoop EXCEPT ![l] = [@ EXCEPT !.at = "press"]]
                             \/ svLoop' = [svLoop EXCEPT ![l] = SvIdle])
    BY <1>2 DEF SvDecides
  <2>5. svLoop[l] # SvIdle
    BY <1>2 DEF SvDecides, SvIdle
  <2>6. SvReadTypes'
    BY <2>1, <2>4, <2>5 DEF SvReadTypes
  <2>7. QED
    BY <2>3, <2>6
<1>3. ASSUME NEW l \in SvLoops, SvPresses(l) PROVE SvReadTypes' /\ SvRowTypes'
  <2>1. svLoop[l] # SvIdle /\ svDecision' = svDecision /\ svPane' = svPane
    BY <1>3 DEF SvPresses, SvIdle
  <2>2. svLoop' = [svLoop EXCEPT ![l].at = "verify"] \/ svLoop' = [svLoop EXCEPT ![l] = SvIdle]
    BY <1>3 DEF SvPresses
  <2>3. QED
    BY <2>1, <2>2 DEF SvReadTypes, SvRowTypes
<1>4. ASSUME NEW l \in SvLoops, SvVerifies(l) PROVE SvReadTypes' /\ SvRowTypes'
  <2>1. svLoop[l].cmd \in SvReadable \ {SvNone}
    BY <1>4 DEF SvVerifies, SvReadTypes, SvIdle
  <2>2. PICK d \in SvDecisions : SvRecords(svLoop[l].cmd, d)
    BY <1>4 DEF SvVerifies, SvDecisions
  <2>3. SvRowTypes'
    BY <2>1, <2>2, SvRowStep
  <2>4. QED
    BY <1>4, <2>3 DEF SvVerifies, SvReadTypes
<1>5. ASSUME NEW c \in SvCommands, SvAgentAsks(c) PROVE SvReadTypes' /\ SvRowTypes'
  BY <1>5 DEF SvAgentAsks, SvReadTypes, SvRowTypes, SvReadable
<1>6. ASSUME NEW c \in DOMAIN svDecision, SvWindowEnds(c) PROVE SvReadTypes' /\ SvRowTypes'
  <2>1. SvRecords(c, "old") /\ c \in SvReadable \ {SvNone} /\ "old" \in SvDecisions
    BY <1>6 DEF SvWindowEnds, SvRowTypes, SvDecisions
  <2>2. SvRowTypes'
    BY <2>1, SvRowStep
  <2>3. QED
    BY <1>6, <2>2 DEF SvWindowEnds, SvReadTypes
<1>7. CASE SvPromptGoes
  <2>1. svPane' = [svPane EXCEPT !.cmd = SvNone, !.read = SvNone] /\ UNCHANGED <<svLoop, svDecision>>
    BY <1>7 DEF SvPromptGoes
  <2>2. QED
    BY <2>1 DEF SvReadTypes, SvRowTypes
<1>8. CASE SvRestart \/ UNCHANGED SvVars
  BY <1>8 DEF SvRestart, SvVars, SvReadTypes, SvRowTypes
<1>9. QED
  BY <1>1, <1>2, <1>3, <1>4, <1>5, <1>6, <1>7, <1>8 DEF SvNext

LEMMA SvCountTypesStep == ASSUME SvIInv, SvCountTypes, [SvNext]_SvVars PROVE SvCountTypes'
<1> USE DEF SvIInv, SvShapes
<1>1. ASSUME NEW l \in SvLoops, SvPresses(l) PROVE SvCountTypes'
  <2>1. SvMany \in Nat /\ svFaults' = svFaults
    BY <1>1, SvAssumption DEF SvMany, SvPresses
  <2>2. \/ svKeys' = svKeys
        \/ /\ svPane.n \in 1..SvPrompts
           /\ svKeys' = [svKeys EXCEPT ![<<l, svPane.n>>] = IF @ < SvMany THEN @ + 1 ELSE @]
    BY <1>1 DEF SvPresses
  <2>3. QED
    BY <2>1, <2>2 DEF SvCountTypes
<1>2. ASSUME NEW c, SvWindowEnds(c) PROVE SvCountTypes'
  BY <1>2, SvAssumption DEF SvWindowEnds, SvCountTypes
<1>3. CASE SvRestart
  BY <1>3, SvAssumption DEF SvRestart, SvCountTypes
<1>4. CASE UNCHANGED <<svKeys, svFaults>>
  BY <1>4 DEF SvCountTypes
<1>5. QED
  BY <1>1, <1>2, <1>3, <1>4 DEF SvNext, SvVars, SvSees, SvDecides, SvVerifies, SvAgentAsks, SvPromptGoes

\* The pane, the loops and the decision table carry only commands the agent asked for, as
\* they were read.
THEOREM SvTypeCorrect == SvSpec => []SvTypeOK
<1>1. SvInit => SvReadTypes /\ SvRowTypes /\ SvCountTypes
  BY SvAssumption DEF SvInit, SvReadTypes, SvRowTypes, SvCountTypes, SvNoPrompt, SvMany
<1>2. SvIInv /\ SvReadTypes /\ SvRowTypes /\ SvCountTypes => SvTypeOK
  BY DEF SvIInv, SvShapes, SvReadTypes, SvRowTypes, SvCountTypes, SvTypeOK, SvDecisions, SvStep
<1>3. QED
  BY <1>1, <1>2, SvReadTypesStep, SvCountTypesStep, SvInductive, PTL DEF SvSpec

----------------------------------------------------------------------------
(* The parts together *)

\* A step of the part that moves is a step of that part, and the others stutter: what is
\* proved of a part by itself holds of it among the others.
LEMMA PlanePartsBehave ==
    PlaneSpec => WkSpec /\ ClSpec /\ CtSpec /\ OxSpec /\ AcSpec /\ SvSpec
<1>1. PlaneInit => WkInit /\ ClInit /\ CtInit /\ OxInit /\ AcInit /\ SvInit
  BY DEF PlaneInit
<1>2. [PlaneNext]_PlaneVars => [WkNext]_WkVars
  BY DEF PlaneNext, PlaneVars, WakesMoves, WatchMoves, CtoMoves, BoxMoves, MessageMoves,
         ConditionMoves, PromptMoves
<1>3. [PlaneNext]_PlaneVars => [ClNext]_ClVars
  BY DEF PlaneNext, PlaneVars, WakesMoves, WatchMoves, CtoMoves, BoxMoves, MessageMoves,
         ConditionMoves, PromptMoves
<1>4. [PlaneNext]_PlaneVars => [CtNext]_CtVars
  BY DEF PlaneNext, PlaneVars, WakesMoves, WatchMoves, CtoMoves, BoxMoves, MessageMoves,
         ConditionMoves, PromptMoves
<1>5. [PlaneNext]_PlaneVars => [OxNext]_OxVars
  BY DEF PlaneNext, PlaneVars, WakesMoves, WatchMoves, CtoMoves, BoxMoves, MessageMoves,
         ConditionMoves, PromptMoves
<1>6. [PlaneNext]_PlaneVars => [AcNext]_AcVars
  BY DEF PlaneNext, PlaneVars, WakesMoves, WatchMoves, CtoMoves, BoxMoves, MessageMoves,
         ConditionMoves, PromptMoves, AcNext
<1>7. [PlaneNext]_PlaneVars => [SvNext]_SvVars
  BY DEF PlaneNext, PlaneVars, WakesMoves, WatchMoves, CtoMoves, BoxMoves, MessageMoves,
         ConditionMoves, PromptMoves
<1>8. QED
  BY <1>1, <1>2, <1>3, <1>4, <1>5, <1>6, <1>7, PTL
     DEF PlaneSpec, WkSpec, ClSpec, CtSpec, OxSpec, AcSpec, SvSpec

\* The tables of the parts keep their types, whichever of them moves, for every value of
\* their constants.
THEOREM PlaneTypes == PlaneSpec => []PlaneTypeOK
<1>1. WkTypeOK /\ ClTypeOK /\ CtTypeOK /\ OxTypeOK /\ AcTypeOK /\ SvTypeOK => PlaneTypeOK
  BY DEF PlaneTypeOK
<1>2. QED
  BY <1>1, PlanePartsBehave, WkTypeCorrect, ClTypeCorrect, CtTypeCorrect, OxTypeCorrect,
     AcTypeCorrect, SvTypeCorrect, PTL
=============================================================================
