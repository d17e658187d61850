---------------------------- MODULE ControlProofs ----------------------------
(***************************************************************************)
(* Proofs about the bounds the controllers of an agent keep on what they   *)
(* type: the nudges of the autopilot, the /clear of the context rotations, *)
(* the announcements of the life cycle, the tasks and phases of the        *)
(* orchestrator.  Each controller has a specification of its own; the      *)
(* types of their composition, with the task queue and the watchdog of     *)
(* ActuatorProofs, come last.                                              *)
(***************************************************************************)
EXTENDS MCControl, ActuatorProofs, FiniteSetTheorems, TLAPS

----------------------------------------------------------------------------
(* Autopilot *)

\* A blocker that is raised is one of the pointer, of the stage after it or of the line.
LEMMA ApSubjects ==
    ASSUME ApTypeOK
    PROVE  /\ QueueBlocker \in ApBlocker \cup {NoBlocker}
           /\ QueueStage \in ApStage \cup {0}
           /\ {<<ApTheLine, "line">>, <<ApTheLine, "stalled">>, <<apQueue.at, "stale">>} \subseteq ApBlocker
<1>1. /\ apQueue.at \in 1..ApStages /\ apCast.stages \in 1..ApStages /\ ApStages \in Nat
      /\ apQueue.at < apCast.stages => apQueue.at + 1 \in 1..ApStages
  BY ApAssumption DEF ApTypeOK, ApStage
<1>2. QED
  BY <1>1 DEF QueueBlocker, QueueStage, ApBlocker, ApStage, ApTheLine, NoBlocker

LEMMA ApTracks ==
    ASSUME ApTypeOK, NEW b \in ApBlocker \cup {NoBlocker}, Track(b)
    PROVE  /\ apTick' \in [at : {"idle", "act", "gate"}, busy : BOOLEAN,
                           raising : ApBlocker \cup {NoBlocker}, conv : Nat]
           /\ apSeen' \subseteq ApBlocker
           /\ apWatch' \in {"none", "fresh", "old", "escalated"}
<1>1. apWatch' \in {"none", "fresh", "old", "escalated"}
  BY DEF Track, Tracked, ApTypeOK
<1>2. ASSUME NEW c \in ApBlocker, Raise(c)
      PROVE  /\ apTick' \in [at : {"idle", "act", "gate"}, busy : BOOLEAN,
                             raising : ApBlocker \cup {NoBlocker}, conv : Nat]
             /\ apSeen' \subseteq ApBlocker
  BY <1>2 DEF Raise, ApTypeOK, ApUnknown
<1>3. ASSUME Quiet
      PROVE  apTick' \in [at : {"idle", "act", "gate"}, busy : BOOLEAN,
                          raising : ApBlocker \cup {NoBlocker}, conv : Nat]
  BY <1>3 DEF Quiet, ApTypeOK, ApUnknown
<1>4. <<ApTheLine, "stalled">> \in ApBlocker
  BY ApSubjects
<1>5. QED
  BY <1>1, <1>2, <1>3, <1>4 DEF Track, ApTypeOK

\* The transcript lags behind the conversation only until the agent takes a message:
\* until then no nudge reached it, and a tick that read another id may send the first
\* one, which the row counts under that id.
ApIInv ==
    /\ {apConv.real, apConv.seen} \subseteq Nat \ {0} /\ apConv.seen <= apConv.real
    /\ apConv.seen # apConv.real \/ apTick.conv \notin {ApUnknown, apConv.real} =>
          \A s \in ApStage : apSent[s] = 0
    /\ \A s \in ApStage :
          /\ apSent[s] <= apNudge[s].n + 1
          /\ apNudge[s].conv \notin {ApUnknown, apConv.real} => apSent[s] <= 1

\* Where a tick ends it forgets the id it read.
LEMMA ApForgets ==
    ASSUME ApTypeOK, Quiet \/ \E b \in ApBlocker : Raise(b)
    PROVE  apTick'.conv = ApUnknown
BY DEF Quiet, Raise, ApTypeOK

LEMMA ApTrackForgets ==
    ASSUME ApTypeOK, NEW b \in ApBlocker \cup {NoBlocker}, Track(b)
    PROVE  apTick'.conv = ApUnknown
<1>1. <<ApTheLine, "stalled">> \in ApBlocker
  BY ApSubjects
<1>2. QED
  BY <1>1, ApForgets DEF Track

\* A tick counts the nudge it sends, or changes neither count nor history; a message
\* the agent takes brings the transcript up to date.
LEMMA ApActs == ASSUME ApTypeOK, ApIInv, ApAct PROVE ApIInv'
<1> DEFINE s == QueueStage
<1>1. apTick'.conv = ApUnknown
  <2>1. NoBlocker \in ApBlocker \cup {NoBlocker}
    OBVIOUS
  <2>2. QED
    BY <2>1, ApSubjects, ApForgets, ApTrackForgets
    DEF ApAct, GovernorBlocks, GovernorSubmits, GovernorAdvances, Evaluates
<1>2. apConv' = apConv \/ apConv' = [apConv EXCEPT !.seen = apConv.real]
  BY DEF ApAct, GovernorBlocks, GovernorSubmits, GovernorAdvances, Evaluates, Taken
<1>3. /\ apConv'.real = apConv.real /\ apConv'.seen \in {apConv.seen, apConv.real}
      /\ {apConv'.real, apConv'.seen} \subseteq Nat \ {0} /\ apConv'.seen <= apConv'.real
      /\ apConv'.seen # apConv'.real => apConv' = apConv
  BY <1>2 DEF ApIInv, ApTypeOK
<1>4. CASE UNCHANGED <<apNudge, apSent>>
  BY <1>1, <1>3, <1>4 DEF ApIInv
<1>5. CASE ~UNCHANGED <<apNudge, apSent>>
  <2>1. /\ NudgeAllowed(s) /\ CountNudge(s)
        /\ \/ apSent' = [apSent EXCEPT ![s] = @ + 1] /\ Taken
           \/ apSent' = apSent /\ apConv' = apConv
    BY <1>5 DEF ApAct, GovernorBlocks, GovernorSubmits, GovernorAdvances, Evaluates
  <2>2. s \in ApStage \cup {0}
    BY ApSubjects
  <2> DEFINE row == [n |-> ApAttempts(s) + 1, cooling |-> TRUE, conv |-> apTick.conv]
  <2>3. apNudge' = [apNudge EXCEPT ![s] = row]
    BY <2>1 DEF CountNudge
  <2>4. \A q \in ApStage : apSent[q] \in Nat /\ apNudge[q].n \in Nat /\ apNudge[q].conv \in Nat
    BY ApAssumption DEF ApTypeOK
  <2>5. row.n = ApAttempts(s) + 1 /\ row.conv = apTick.conv
    OBVIOUS
  <2>6. apTick.conv \in Nat /\ apConv.real \in Nat \ {0} /\ ApUnknown = 0
    BY DEF ApTypeOK, ApIInv, ApUnknown
  <2> HIDE DEF s, row
  <2>7. apConv'.seen # apConv'.real => \A q \in ApStage : apSent'[q] = 0
    <3>1. CASE Taken
      BY <2>6, <3>1 DEF Taken, ApTypeOK
    <3>2. CASE apSent' = apSent /\ apConv' = apConv
      BY <3>2 DEF ApIInv
    <3>3. QED
      BY <2>1, <3>1, <3>2
  <2>8. ASSUME NEW q \in ApStage, q # s
        PROVE  /\ apSent'[q] <= apNudge'[q].n + 1
               /\ apNudge'[q].conv \notin {ApUnknown, apConv'.real} => apSent'[q] <= 1
    <3>1. apSent'[q] = apSent[q] /\ apNudge'[q] = apNudge[q]
      BY <2>1, <2>3, <2>8 DEF ApTypeOK
    <3>2. QED
      BY <1>3, <3>1 DEF ApIInv
  <2>9. ASSUME s \in ApStage
        PROVE  /\ apSent'[s] <= apNudge'[s].n + 1
               /\ apNudge'[s].conv \notin {ApUnknown, apConv'.real} => apSent'[s] <= 1
    <3>1. apNudge'[s] = row /\ apSent'[s] \in {apSent[s], apSent[s] + 1}
      BY <2>1, <2>3, <2>9 DEF ApTypeOK
    <3>2. apSent[s] <= ApAttempts(s) + 1
      <4>1. CASE OfAnother(s)
        <5>1. apTick.conv \notin {ApUnknown, apConv.real} => apSent[s] = 0
          BY <2>9 DEF ApIInv
        <5>2. apTick.conv = apConv.real => apNudge[s].conv \notin {ApUnknown, apConv.real}
          BY <4>1 DEF OfAnother
        <5>3. apNudge[s].conv \notin {ApUnknown, apConv.real} => apSent[s] <= 1
          BY <2>9 DEF ApIInv
        <5>4. apSent[s] <= 1
          BY <2>4, <2>9, <4>1, <5>1, <5>2, <5>3 DEF OfAnother
        <5>5. QED
          BY <4>1, <5>4 DEF ApAttempts
      <4>2. CASE ~OfAnother(s)
        BY <2>9, <4>2 DEF ApAttempts, ApIInv
      <4>3. QED
        BY <4>1, <4>2
    <3>3. ApAttempts(s) \in Nat
      BY <2>4, <2>9 DEF ApAttempts
    <3>4. apSent'[s] <= apNudge'[s].n + 1
      BY <2>4, <2>5, <2>9, <3>1, <3>2, <3>3
    <3>5. apTick.conv \notin {ApUnknown, apConv.real} => apSent[s] = 0
      BY <2>9 DEF ApIInv
    <3>6. QED
      BY <1>3, <2>5, <3>1, <3>4, <3>5
  <2>10. QED
    BY <1>1, <1>3, <2>7, <2>8, <2>9 DEF ApIInv
<1>6. QED
  BY <1>4, <1>5

LEMMA ApStep == ApTypeOK /\ ApIInv /\ [ApNext]_ApVars => ApIInv'
<1> SUFFICES ASSUME ApTypeOK, ApIInv, [ApNext]_ApVars PROVE ApIInv'
  OBVIOUS
<1>1. ASSUME UNCHANGED <<apConv, apNudge, apSent>>, apTick'.conv \in {apTick.conv, ApUnknown}
      PROVE  ApIInv'
  BY <1>1 DEF ApIInv
<1>2. CASE ApLineAges \/ ApAgent \/ ApOwnerTypes \/ ApQueueMoves \/ UNCHANGED ApVars
  BY <1>1, <1>2 DEF ApLineAges, ApAgent, ApOwnerTypes, ApQueueMoves, ApVars, ApState
<1>3. CASE ApOpenGate \/ ApStop
  BY <1>1, <1>3, ApForgets DEF ApOpenGate, ApStop
<1>4. CASE ApLook
  <2>1. apTick'.conv \in {apConv.seen, ApUnknown} /\ UNCHANGED <<apConv, apNudge, apSent>>
    BY <1>4 DEF ApLook, ApReads, ApTypeOK
  <2>2. QED
    BY <2>1 DEF ApIInv
<1>5. CASE ApAct
  BY <1>5, ApActs
<1>6. CASE ApNewConversation
  <2>1. /\ apConv'.real = apConv.real + 1 /\ apConv'.seen = apConv.seen
        /\ apConv.real \in Nat /\ apConv.seen \in Nat
        /\ UNCHANGED <<apTick, apNudge>>
    BY <1>6 DEF ApNewConversation, ApTypeOK
  <2>2. \A s \in ApStage : apSent'[s] = 0 /\ apNudge'[s].n \in Nat
    BY <1>6, ApAssumption DEF ApNewConversation, ApTypeOK
  <2>3. QED
    BY <2>1, <2>2 DEF ApIInv
<1>7. CASE ApTranscript
  <2>1. /\ apConv'.real = apConv.real /\ apConv'.seen = apConv.real
        /\ apConv.real \in Nat /\ apConv.seen # apConv.real
        /\ UNCHANGED <<apTick, apNudge, apSent>>
    BY <1>7 DEF ApTranscript, Taken, ApTypeOK
  <2>2. QED
    BY <2>1 DEF ApIInv
<1>8. ASSUME NEW s \in ApStage, ApCooled(s) PROVE ApIInv'
  <2>1. \A q \in ApStage : /\ apNudge'[q].n = apNudge[q].n
                           /\ apNudge'[q].conv = apNudge[q].conv
    BY <1>8 DEF ApCooled, ApTypeOK
  <2>2. QED
    BY <1>8, <2>1 DEF ApCooled, ApIInv
<1>9. QED
  BY <1>2, <1>3, <1>4, <1>5, <1>6, <1>7, <1>8 DEF ApNext, ApMoves, ApTicks

LEMMA ApTypesAct == ASSUME ApTypeOK, ApAct PROVE
    /\ apPane' \in [mode : {"rest", "busy", "dialog"}, line : ApLines]
    /\ apTick' \in [at : {"idle", "act", "gate"}, busy : BOOLEAN, raising : ApBlocker \cup {NoBlocker}, conv : Nat]
    /\ apNudge' \in [ApStage -> [n : 0..ApMaxNudges, cooling : BOOLEAN, conv : Nat]]
    /\ apConv' \in [real : Nat, seen : Nat]
    /\ apSeen' \subseteq ApBlocker
    /\ apGates' \subseteq 0..ApStages
    /\ apWatch' \in {"none", "fresh", "old", "escalated"}
<1> DEFINE Acted == /\ apTick' \in [at : {"idle", "act", "gate"}, busy : BOOLEAN,
                                    raising : ApBlocker \cup {NoBlocker}, conv : Nat]
                    /\ apSeen' \subseteq ApBlocker
                    /\ apWatch' \in {"none", "fresh", "old", "escalated"}
           Rest == /\ apPane' \in [mode : {"rest", "busy", "dialog"}, line : ApLines]
                   /\ apGates' \subseteq 0..ApStages
                   /\ apNudge' \in [ApStage -> [n : 0..ApMaxNudges, cooling : BOOLEAN, conv : Nat]]
<1>1. NoBlocker \in ApBlocker \cup {NoBlocker}
  OBVIOUS
<1>2. ASSUME Quiet, apSeen' = apSeen, apWatch' = "none" PROVE Acted
  BY <1>2 DEF Quiet, ApTypeOK, ApUnknown
<1>3. ASSUME Retract \/ apGates' = apGates PROVE apGates' \subseteq 0..ApStages
  BY <1>3 DEF Retract, ApTypeOK
<1>0. apConv' \in [real : Nat, seen : Nat]
  <2>1. apConv' = apConv \/ apConv' = [apConv EXCEPT !.seen = apConv.real]
    BY DEF ApAct, GovernorBlocks, GovernorSubmits, GovernorAdvances, Evaluates, Taken
  <2>2. QED
    BY <2>1 DEF ApTypeOK
<1>4. CASE GovernorBlocks
  BY <1>0, <1>4, ApSubjects, ApTracks DEF GovernorBlocks, ApTypeOK
<1>5. CASE GovernorSubmits
  <2>1. Acted
    BY <1>1, <1>2, <1>5, ApTracks DEF GovernorSubmits
  <2>2. Rest
    BY <1>3, <1>5 DEF GovernorSubmits, ApTypeOK, ApLines
  <2>3. QED
    BY <1>0, <2>1, <2>2
<1>6. CASE GovernorAdvances
  <2>1. Acted
    BY <1>1, <1>6, ApSubjects, ApTracks DEF GovernorAdvances
  <2>2. apNudge' \in [ApStage -> [n : 0..ApMaxNudges, cooling : BOOLEAN, conv : Nat]]
    <3>1. CASE apNudge' = apNudge
      BY <3>1 DEF ApTypeOK
    <3>2. CASE NudgeAllowed(QueueStage) /\ CountNudge(QueueStage)
      <4> DEFINE s == QueueStage
      <4>1. apNudge' = [apNudge EXCEPT ![s] =
                [n |-> ApAttempts(s) + 1, cooling |-> TRUE, conv |-> apTick.conv]]
        BY <3>2 DEF CountNudge
      <4>2. CASE s \in ApStage
        <5>1. ApAttempts(s) + 1 \in 0..ApMaxNudges /\ apTick.conv \in Nat
          BY <3>2, <4>2, ApAssumption DEF NudgeAllowed, ApAttempts, ApTypeOK
        <5> HIDE DEF s
        <5>2. QED
          BY <4>1, <4>2, <5>1 DEF ApTypeOK
      <4>3. CASE s \notin ApStage
        <5> HIDE DEF s
        <5>1. apNudge' = apNudge
          BY <4>1, <4>3 DEF ApTypeOK
        <5>2. QED
          BY <5>1 DEF ApTypeOK
      <4>4. QED
        BY <4>2, <4>3
    <3>3. QED
      BY <1>6, <3>1, <3>2 DEF GovernorAdvances
  <2>3. /\ apPane' \in [mode : {"rest", "busy", "dialog"}, line : ApLines]
        /\ apGates' \subseteq 0..ApStages
    BY <1>3, <1>6 DEF GovernorAdvances, ApTypeOK
  <2>4. QED
    BY <1>0, <2>1, <2>2, <2>3
<1>7. CASE Evaluates
  <2>1. Acted
    BY <1>1, <1>2, <1>7, ApTracks DEF Evaluates
  <2>2. Rest
    BY <1>3, <1>7 DEF Evaluates, ApTypeOK
  <2>3. QED
    BY <1>0, <2>1, <2>2
<1>8. QED
  BY <1>4, <1>5, <1>6, <1>7 DEF ApAct

LEMMA ApSentMoves ==
    ASSUME ApTypeOK, [ApNext]_ApVars
    PROVE  /\ \A s \in ApStage : apSent'[s] \in Nat
           /\ apSent' = [s \in ApStage |-> apSent'[s]]
           /\ apNudge' \in [ApStage -> [n : 0..ApMaxNudges, cooling : BOOLEAN, conv : Nat]]
<1>0. /\ apSent \in [ApStage -> Nat]
      /\ apNudge \in [ApStage -> [n : 0..ApMaxNudges, cooling : BOOLEAN, conv : Nat]]
  BY ApAssumption DEF ApTypeOK
<1>1. CASE ApAct
  <2>1. \/ apSent' = apSent
        \/ apSent' = [apSent EXCEPT ![QueueStage] = @ + 1]
    BY <1>1 DEF ApAct, GovernorBlocks, GovernorSubmits, GovernorAdvances, Evaluates
  <2> DEFINE s == QueueStage
  <2> HIDE DEF s
  <2>2. ASSUME apSent' = [apSent EXCEPT ![s] = @ + 1]
        PROVE  apSent' \in [ApStage -> Nat]
    <3>1. CASE s \in ApStage
      <4>1. apSent[s] + 1 \in Nat
        BY <1>0, <3>1
      <4>2. QED
        BY <1>0, <2>2, <3>1, <4>1
    <3>2. CASE s \notin ApStage
      BY <1>0, <2>2, <3>2
    <3>3. QED
      BY <3>1, <3>2
  <2>3. apSent' \in [ApStage -> Nat]
    BY <1>0, <2>1, <2>2 DEF s
  <2>4. QED
    BY <1>1, <2>3, ApTypesAct
<1>2. CASE ApNewConversation
  BY <1>2 DEF ApNewConversation, ApTypeOK
<1>3. ASSUME NEW s \in ApStage, ApCooled(s) PROVE apSent' = apSent
  BY <1>3 DEF ApCooled
<1>4. ASSUME NEW s \in ApStage, ApCooled(s)
      PROVE  apNudge' \in [ApStage -> [n : 0..ApMaxNudges, cooling : BOOLEAN, conv : Nat]]
  BY <1>4 DEF ApCooled, ApTypeOK
<1>5. CASE \/ ApLook \/ ApOpenGate \/ ApStop \/ ApLineAges \/ ApAgent \/ ApTranscript
           \/ ApOwnerTypes \/ ApQueueMoves \/ UNCHANGED ApVars
  BY <1>0, <1>5 DEF ApLook, ApOpenGate, ApStop, ApLineAges, ApAgent, ApTranscript, ApOwnerTypes,
                    ApQueueMoves, ApVars, ApState
<1>6. QED
  BY <1>0, <1>1, <1>2, <1>3, <1>4, <1>5 DEF ApNext, ApMoves, ApTicks

LEMMA ApTypeStep == ApTypeOK /\ ApIInv /\ ApIInv' /\ [ApNext]_ApVars => ApTypeOK'
<1> SUFFICES ASSUME ApTypeOK, ApIInv', [ApNext]_ApVars PROVE ApTypeOK'
  OBVIOUS
<1>1. apSent' \in [ApStage -> 0..ApMaxNudges + 1] /\ apCast' \in ApCasts
  <2>1. apCast' = apCast
    BY DEF ApNext, ApVars
  <2>2. /\ \A s \in ApStage : apSent'[s] \in Nat
        /\ apNudge' \in [ApStage -> [n : 0..ApMaxNudges, cooling : BOOLEAN, conv : Nat]]
        /\ apSent' = [s \in ApStage |-> apSent'[s]]
    BY ApSentMoves
  <2>3. \A s \in ApStage : apSent'[s] <= apNudge'[s].n + 1
    BY DEF ApIInv
  <2>4. \A s \in ApStage : apSent'[s] \in 0..ApMaxNudges + 1
    BY <2>2, <2>3, ApAssumption
  <2>5. QED
    BY <2>1, <2>2, <2>4 DEF ApTypeOK
<1>2. CASE ApAct
  BY <1>1, <1>2, ApTypesAct DEF ApAct, ApTypeOK
<1>3. CASE ApLook \/ ApOpenGate \/ ApStop
  <2>1. apTick.raising[1] \in 0..ApStages
    BY ApAssumption DEF ApTypeOK, ApBlocker, NoBlocker, ApTheLine
  <2>2. apTick' \in [at : {"idle", "act", "gate"}, busy : BOOLEAN,
                      raising : ApBlocker \cup {NoBlocker}, conv : Nat]
    <3>1. CASE ApLook
      <4> DEFINE busy == apPane.mode = "busy"
      <4>1. busy \in BOOLEAN
        OBVIOUS
      <4> HIDE DEF busy
      <4>2. PICK conv \in Nat : apTick' = [apTick EXCEPT !.at = "act", !.busy = busy, !.conv = conv]
        BY <3>1 DEF ApLook, ApReads, ApTypeOK, ApUnknown, busy
      <4>3. QED
        BY <4>1, <4>2 DEF ApTypeOK
    <3>2. CASE Quiet
      BY <3>2 DEF Quiet, ApTypeOK, ApUnknown
    <3>3. QED
      BY <1>3, <3>1, <3>2 DEF ApOpenGate, ApStop
  <2>3. /\ UNCHANGED <<apPane, apConv, apQueue, apNudge, apSeen, apWatch>>
        /\ apGates' = apGates \/ apGates' = apGates \cup {apTick.raising[1]}
    BY <1>3 DEF ApLook, ApOpenGate, ApStop
  <2>4. apGates' \subseteq 0..ApStages
    BY <2>1, <2>3 DEF ApTypeOK
  <2>5. QED
    BY <1>1, <2>2, <2>3, <2>4 DEF ApTypeOK
<1>4. CASE ApLineAges \/ ApAgent \/ ApNewConversation \/ ApTranscript \/ ApOwnerTypes \/ UNCHANGED ApVars
  <2>1. CASE ApLineAges \/ UNCHANGED ApVars
    BY <1>1, <2>1 DEF ApLineAges, ApTypeOK, ApVars, ApState
  <2>2. CASE ApAgent \/ ApOwnerTypes
    <3>1. apPane' \in [mode : {"rest", "busy", "dialog"}, line : ApLines]
      BY <2>2 DEF ApAgent, ApOwnerTypes, ApTypeOK, ApLines
    <3>2. QED
      BY <1>1, <2>2, <3>1 DEF ApAgent, ApOwnerTypes, ApTypeOK
  <2>3. CASE ApNewConversation
    <3>1. /\ apPane' \in [mode : {"rest", "busy", "dialog"}, line : ApLines]
          /\ apConv' \in [real : Nat, seen : Nat]
      BY <2>3 DEF ApNewConversation, ApLines, ApTypeOK
    <3>2. QED
      BY <1>1, <2>3, <3>1 DEF ApNewConversation, ApTypeOK
  <2>4. CASE ApTranscript
    <3>1. apConv' \in [real : Nat, seen : Nat]
      BY <2>4 DEF ApTranscript, Taken, ApTypeOK
    <3>2. QED
      BY <1>1, <2>4, <3>1 DEF ApTranscript, ApTypeOK
  <2>5. QED
    BY <1>4, <2>1, <2>2, <2>3, <2>4
<1>5. CASE ApQueueMoves
  <2>1. apQueue.at < apCast.stages => apQueue.at + 1 \in ApStage
    BY ApAssumption DEF ApTypeOK, ApStage
  <2>2. apQueue' \in [at : ApStage, status : [ApStage -> ApStatus]]
    BY <1>5, <2>1 DEF ApQueueMoves, ApTypeOK
  <2>3. QED
    BY <1>1, <1>5, <2>2 DEF ApQueueMoves, ApTypeOK
<1>6. ASSUME NEW s \in ApStage, ApCooled(s) PROVE ApTypeOK'
  BY <1>1, <1>6 DEF ApCooled, ApTypeOK
<1>7. QED
  BY <1>2, <1>3, <1>4, <1>5, <1>6 DEF ApNext, ApMoves, ApTicks

LEMMA ApInductive == ApSpec => [](ApTypeOK /\ ApIInv)
<1>1. ApInit => ApTypeOK /\ ApIInv
  <2> SUFFICES ASSUME ApInit PROVE ApTypeOK /\ ApIInv
    OBVIOUS
  <2>1. ApTypeOK
    BY ApAssumption
    DEF ApInit, ApNoRow, ApTypeOK, ApLines, ApStage, ApStatus, ApUnknown
  <2>2. ApIInv
    BY DEF ApInit, ApNoRow, ApIInv, ApUnknown
  <2>3. QED
    BY <2>1, <2>2
<1>2. QED
  BY <1>1, ApStep, ApTypeStep, PTL DEF ApSpec

\* The rows, the gates and the tick of the autopilot keep their types, and no count of
\* nudges passes the cap, for any queue of stages and every cap.
THEOREM ApTypeCorrect == ApSpec => []ApTypeOK
BY ApInductive, PTL

\* A stage is nudged at most ApMaxNudges times in a conversation, and once more when
\* its transcript lagged behind the first nudge, for any queue of stages, every cap and
\* any number of conversations.
THEOREM NudgesCapped == ApSpec => []ApNudgesCapped
<1>1. ApTypeOK /\ ApIInv => ApNudgesCapped
  BY ApAssumption DEF ApIInv, ApTypeOK, ApNudgesCapped
<1>2. QED
  BY <1>1, ApInductive, PTL

----------------------------------------------------------------------------
(* Context rotation *)

\* A /clear that rotate typed is on the actuator's record, awaits its verdict or was
\* lost; one that evaluate typed has its key, awaits it or was lost.
RcAwaitsVerdict(c) == rcJob.at \in {"verify", "again"} /\ rcJob.conv = c
RcAwaitsKey(h) == rcSweep.at = "clear typed" /\ rcSweep.hash = h
RcRecorded ==
    /\ rcClears \in [RcConv -> Nat]
    /\ \A c \in RcConv :
          /\ rcClears[c] <= rcLost + 1
          /\ c \notin rcActed /\ ~RcAwaitsVerdict(c) => rcClears[c] <= rcLost
RcKeyed ==
    /\ rcTyped \in [RcHash -> Nat]
    /\ \A h \in RcHash :
          /\ rcTyped[h] <= rcLost + 1
          /\ <<h, "clear">> \notin rcKeys /\ ~RcAwaitsKey(h) => rcTyped[h] <= rcLost
RcIInv == rcLost \in Nat /\ RcRecorded /\ RcKeyed

RcRecords ==
    /\ rcJob \in [at : {"idle", "clear", "verify", "again", "resume"}, conv : RcConv]
    /\ rcSweep \in [at : {"idle", "clear", "clear typed", "resume", "resume typed", "save"},
                    hash : RcHash, own : BOOLEAN]

LEMMA RcRecordedStep == ASSUME RcRecords, RcIInv, RcMoves PROVE RcRecorded'
<1>1. RcRecorded /\ rcLost \in Nat
  BY DEF RcIInv
<1>2. ASSUME UNCHANGED <<rcClears, rcActed, rcLost>>,
             \A c \in RcConv : RcAwaitsVerdict(c) => RcAwaitsVerdict(c)'
      PROVE  RcRecorded'
  BY <1>1, <1>2 DEF RcRecorded
<1>3. ASSUME UNCHANGED <<rcClears, rcActed, rcLost, rcJob>> PROVE RcRecorded'
  BY <1>2, <1>3 DEF RcAwaitsVerdict
<1>4. CASE RcTick \/ RcResume
  <2>1. \A c \in RcConv : ~RcAwaitsVerdict(c)
    BY <1>4 DEF RcTick, RcResume, RcAwaitsVerdict
  <2>2. UNCHANGED <<rcClears, rcActed, rcLost>>
    BY <1>4 DEF RcTick, RcResume
  <2>3. QED
    BY <1>2, <2>1, <2>2
<1>5. CASE RcClear
  <2>1. rcJob.at = "clear" /\ UNCHANGED <<rcActed, rcLost>>
    BY <1>5 DEF RcClear
  <2>2. \A c \in RcConv : ~RcAwaitsVerdict(c)
    BY <2>1 DEF RcAwaitsVerdict
  <2>3. CASE rcClears' = rcClears
    BY <1>2, <2>1, <2>2, <2>3
  <2>4. CASE rcClears' # rcClears
    <3>1. /\ rcJob.conv \notin rcActed /\ rcJob' = [rcJob EXCEPT !.at = "verify"]
          /\ rcClears' = [rcClears EXCEPT ![rcJob.conv] = @ + 1]
      BY <1>5, <2>4 DEF RcClear, RcMayActuate
    <3>2. rcJob'.at = "verify" /\ rcJob'.conv = rcJob.conv /\ rcJob.conv \in RcConv
      BY <3>1 DEF RcRecords
    <3>3. QED
      BY <1>1, <2>1, <2>2, <3>1, <3>2 DEF RcRecorded, RcAwaitsVerdict
  <2>5. QED
    BY <2>3, <2>4
<1>6. CASE RcClearAgain
  <2>1. rcJob'.at = "again" /\ rcJob'.conv = rcJob.conv /\ UNCHANGED <<rcClears, rcActed, rcLost>>
    BY <1>6 DEF RcClearAgain, RcRecords
  <2>2. QED
    BY <1>2, <2>1 DEF RcAwaitsVerdict
<1>7. CASE RcCheck
  <2>1. PICK ok \in BOOLEAN :
          /\ rcActed' = IF ok THEN rcActed \cup {rcJob.conv} ELSE rcActed \ {rcJob.conv}
          /\ rcClears' = IF ok THEN rcClears ELSE [rcClears EXCEPT ![rcJob.conv] = 0]
    BY <1>7 DEF RcCheck
  <2>2. rcLost' = rcLost
    BY <1>7 DEF RcCheck
  <2>3. PICK d \in RcConv : d = rcJob.conv
    BY DEF RcRecords
  <2>4. \A c \in RcConv : RcAwaitsVerdict(c) => c = d
    BY <2>3 DEF RcAwaitsVerdict
  <2>5. CASE ok
    <3>1. UNCHANGED <<rcClears, rcLost>> /\ rcActed' = rcActed \cup {d}
      BY <2>1, <2>2, <2>3, <2>5
    <3>2. QED
      BY <1>1, <2>4, <3>1 DEF RcRecorded
  <2>6. CASE ~ok
    <3>1. rcClears' = [rcClears EXCEPT ![d] = 0] /\ rcLost' = rcLost /\ rcActed' = rcActed \ {d}
      BY <2>1, <2>2, <2>3, <2>6
    <3>2. QED
      BY <1>1, <2>4, <3>1 DEF RcRecorded
  <2>7. QED
    BY <2>5, <2>6
<1>8. CASE RcCut
  <2>1. UNCHANGED <<rcClears, rcActed>> /\ rcLost' \in {rcLost, rcLost + 1}
    BY <1>8 DEF RcCut
  <2>2. \A c \in RcConv : RcAwaitsVerdict(c) => RcAwaitsVerdict(c)' \/ rcLost' = rcLost + 1
    BY <1>8 DEF RcCut, RcUnrecorded, RcAwaitsVerdict
  <2>3. QED
    BY <1>1, <2>1, <2>2 DEF RcRecorded
<1>9. CASE \/ RcEvaluate \/ RcSweepClear \/ RcSweepResume \/ RcSweepKey \/ RcSave
           \/ RcTurn \/ RcLineChanges \/ RcTime
           \/ \E key \in RcHash \X {"clear", "resume"} : RcKeyLapses(key)
  BY <1>3, <1>9 DEF RcEvaluate, RcSweepClear, RcSweepResume, RcSweepKey, RcSave, RcTurn, RcLineChanges,
                    RcTime, RcKeyLapses
<1>10. QED
  BY <1>4, <1>5, <1>6, <1>7, <1>8, <1>9 DEF RcMoves

LEMMA RcKeyedStep == ASSUME RcRecords, RcIInv, RcMoves PROVE RcKeyed'
<1>1. RcKeyed /\ rcLost \in Nat
  BY DEF RcIInv
<1>2. ASSUME UNCHANGED <<rcTyped, rcLost>>,
             \A h \in RcHash : <<h, "clear">> \in rcKeys => <<h, "clear">> \in rcKeys',
             \A h \in RcHash : RcAwaitsKey(h) => RcAwaitsKey(h)' \/ <<h, "clear">> \in rcKeys'
      PROVE  RcKeyed'
  BY <1>1, <1>2 DEF RcKeyed
<1>3. ASSUME UNCHANGED <<rcTyped, rcLost, rcKeys>>,
             rcSweep.at # "clear typed" \/ rcSweep' = rcSweep
      PROVE  RcKeyed'
  BY <1>2, <1>3 DEF RcAwaitsKey
<1>4. CASE \/ RcTick \/ RcClear \/ RcClearAgain \/ RcCheck \/ RcResume \/ RcTurn \/ RcLineChanges \/ RcTime
           \/ RcEvaluate \/ RcSave
  BY <1>3, <1>4 DEF RcTick, RcClear, RcClearAgain, RcCheck, RcResume, RcTurn, RcLineChanges, RcTime,
                    RcEvaluate, RcSave
<1>5. CASE RcSweepClear \/ RcSweepResume
  <2>1. rcSweep.at \in {"clear", "resume"} /\ UNCHANGED <<rcKeys, rcLost>>
    BY <1>5 DEF RcSweepClear, RcSweepResume
  <2>2. CASE rcTyped' = rcTyped
    BY <1>3, <2>1, <2>2
  <2>3. CASE rcTyped' # rcTyped
    <3>1. /\ <<rcSweep.hash, "clear">> \notin rcKeys
          /\ rcTyped' = [rcTyped EXCEPT ![rcSweep.hash] = @ + 1]
          /\ rcSweep' = [rcSweep EXCEPT !.at = "clear typed"]
      BY <1>5, <2>3 DEF RcSweepClear, RcSweepResume, RcSkips, RcTypes, RcKeyTaken
    <3>2. rcSweep'.at = "clear typed" /\ rcSweep'.hash = rcSweep.hash /\ rcSweep.hash \in RcHash
      BY <3>1 DEF RcRecords
    <3>3. PICK d \in RcHash : d = rcSweep.hash
      BY <3>2
    <3>4. \A h \in RcHash : ~RcAwaitsKey(h)
      BY <2>1 DEF RcAwaitsKey
    <3>5. RcAwaitsKey(d)'
      BY <3>2, <3>3 DEF RcAwaitsKey
    <3>6. <<d, "clear">> \notin rcKeys /\ rcTyped' = [rcTyped EXCEPT ![d] = @ + 1]
      BY <3>1, <3>3
    <3>7. QED
      BY <1>1, <2>1, <3>4, <3>5, <3>6 DEF RcKeyed
  <2>4. QED
    BY <2>2, <2>3
<1>6. CASE RcSweepKey
  <2>1. /\ UNCHANGED <<rcTyped, rcLost>>
        /\ \/ rcSweep.at = "clear typed" /\ rcKeys' = rcKeys \cup {<<rcSweep.hash, "clear">>}
           \/ rcSweep.at = "resume typed" /\ rcKeys' = rcKeys \cup {<<rcSweep.hash, "resume">>}
    BY <1>6 DEF RcSweepKey
  <2>2. QED
    BY <1>2, <2>1 DEF RcAwaitsKey
<1>7. CASE \E key \in RcHash \X {"clear", "resume"} : RcKeyLapses(key)
  <2>1. PICK key \in RcHash \X {"clear", "resume"} :
          /\ rcKeys' = rcKeys \ {key} /\ UNCHANGED <<rcSweep, rcLost>>
          /\ rcTyped' = IF key[2] = "clear" THEN [rcTyped EXCEPT ![key[1]] = 0] ELSE rcTyped
    BY <1>7 DEF RcKeyLapses
  <2>2. PICK h \in RcHash, text \in {"clear", "resume"} : key = <<h, text>>
    OBVIOUS
  <2>3. /\ rcKeys' = rcKeys \ {<<h, text>>}
        /\ rcTyped' = IF text = "clear" THEN [rcTyped EXCEPT ![h] = 0] ELSE rcTyped
    BY <2>1, <2>2
  <2>4. \A d \in RcHash : RcAwaitsKey(d)' <=> RcAwaitsKey(d)
    BY <2>1 DEF RcAwaitsKey
  <2>5. CASE text = "clear"
    <3>1. \A d \in RcHash \ {h} : <<d, "clear">> \in rcKeys' <=> <<d, "clear">> \in rcKeys
      BY <2>3
    <3>2. rcTyped' = [rcTyped EXCEPT ![h] = 0] /\ rcLost' = rcLost
      BY <2>1, <2>3, <2>5
    <3>3. QED
      BY <1>1, <2>4, <3>1, <3>2 DEF RcKeyed
  <2>6. CASE text = "resume"
    BY <1>1, <2>1, <2>3, <2>4, <2>6 DEF RcKeyed
  <2>7. QED
    BY <2>5, <2>6
<1>8. CASE RcCut
  <2>1. UNCHANGED <<rcTyped, rcKeys>> /\ rcLost' \in {rcLost, rcLost + 1}
    BY <1>8 DEF RcCut
  <2>2. \A h \in RcHash : RcAwaitsKey(h) => RcAwaitsKey(h)' \/ rcLost' = rcLost + 1
    BY <1>8 DEF RcCut, RcUnrecorded, RcAwaitsKey
  <2>3. QED
    BY <1>1, <2>1, <2>2 DEF RcKeyed
<1>9. QED
  BY <1>4, <1>5, <1>6, <1>7, <1>8 DEF RcMoves

LEMMA RcStep == RcTypeOK /\ RcIInv /\ [RcNext]_RcVars => RcIInv'
<1> SUFFICES ASSUME RcTypeOK, RcIInv, [RcNext]_RcVars PROVE RcIInv'
  OBVIOUS
<1>1. CASE UNCHANGED RcVars
  BY <1>1 DEF RcVars, RcState, RcIInv, RcRecorded, RcKeyed, RcAwaitsVerdict, RcAwaitsKey
<1>2. CASE RcMoves
  <2>1. rcLost' \in Nat
    <3>1. rcLost' \in {rcLost, rcLost + 1}
      BY <1>2 DEF RcMoves, RcTick, RcClear, RcClearAgain, RcCheck, RcResume, RcEvaluate, RcSweepClear,
                  RcSweepResume, RcSweepKey, RcSave, RcTurn, RcLineChanges, RcTime, RcKeyLapses, RcCut
    <3>2. QED
      BY <3>1 DEF RcIInv
  <2>2. RcRecords
    BY DEF RcTypeOK, RcRecords
  <2>3. QED
    BY <1>2, <2>1, <2>2, RcRecordedStep, RcKeyedStep DEF RcIInv
<1>3. QED
  BY <1>1, <1>2 DEF RcNext

RcPaneType ==
    /\ rcPane \in [mode : {"rest", "busy"}, line : RcLine, conv : RcConv, load : RcLoad]
    /\ rcFile \in [conv : RcConv, load : RcLoad]

\* A rotation that is about to type /clear may open a conversation by it, rotate one more
\* by its retry; each began before the last one.
RcJobOpens == IF rcJob.at = "clear" THEN 2 ELSE IF rcJob.at = "verify" THEN 1 ELSE 0
RcSweepOpens == IF rcSweep.at = "clear" THEN 1 ELSE 0
RcRoom == rcPane.conv + RcJobOpens + RcSweepOpens <= RcConvs + 2

LEMMA RcOpens ==
    ASSUME RcTypeOK, rcPane.conv + 1 \in RcConv, RcCleared
    PROVE  RcPaneType' /\ rcPane'.conv = rcPane.conv + 1
<1>1. /\ "rest" \in {"rest", "busy"} /\ "none" \in RcLine /\ "small" \in RcLoad
  BY DEF RcLine, RcLoad
<1>2. rcPane' = [mode |-> "rest", line |-> "none", conv |-> rcPane.conv + 1, load |-> "small"]
  BY DEF RcCleared
<1>3. rcFile' = rcFile \/ rcFile' = [conv |-> rcPane.conv + 1, load |-> "small"]
  BY DEF RcCleared
<1>4. rcFile' \in [conv : RcConv, load : RcLoad]
  <2>1. [conv |-> rcPane.conv + 1, load |-> "small"] \in [conv : RcConv, load : RcLoad]
    BY <1>1
  <2>2. rcFile \in [conv : RcConv, load : RcLoad]
    BY DEF RcTypeOK
  <2>3. QED
    BY <1>3, <2>1, <2>2
<1>5. QED
  BY <1>1, <1>2, <1>4 DEF RcPaneType

LEMMA RcStrokes ==
    ASSUME RcTypeOK, NEW text \in {"clear", "resume"},
           text = "clear" => rcPane.conv + 1 \in RcConv,
           RcKeystrokes(text) \/ (text = "clear" /\ RcEnter) \/ UNCHANGED <<rcPane, rcFile>>
    PROVE  /\ RcPaneType'
           /\ rcPane'.conv = rcPane.conv \/ (text = "clear" /\ rcPane'.conv = rcPane.conv + 1)
<1>1. CASE text = "clear" /\ RcCleared
  BY <1>1, RcOpens
<1>2. CASE UNCHANGED <<rcPane, rcFile>>
  BY <1>2 DEF RcTypeOK, RcPaneType
<1>3. CASE /\ rcFile' = rcFile
           /\ \/ rcPane' = [rcPane EXCEPT !.line = "none", !.mode = "busy"]
              \/ rcPane' = [rcPane EXCEPT !.mode = "busy"]
              \/ \E line \in RcLine : rcPane' = [rcPane EXCEPT !.line = line]
  BY <1>3 DEF RcTypeOK, RcPaneType, RcLine
<1>4. QED
  BY <1>1, <1>2, <1>3 DEF RcKeystrokes, RcEnter, RcLine

\* What the counters leave aside.
RcRest ==
    /\ RcRecords
    /\ rcFacts \in RcHash
    /\ rcLedger \subseteq RcConv \X RcStatus
    /\ rcActed \subseteq RcConv
    /\ rcRow \in [stage : {"none", "handoff_written", "cleared", "resumed"}, hash : RcHash,
                  rotated : {"never", "recently", "long ago"}]
    /\ rcSettled \in {"no", "seen", "settled"}
    /\ rcKeys \subseteq RcHash \X {"clear", "resume"}
    /\ rcLost \in 0..RcLosses /\ rcCast \in RcCasts

RcShapes == RcTypeOK /\ RcRoom

LEMMA RcParts == ASSUME RcShapes PROVE RcPaneType /\ RcRest
BY DEF RcShapes, RcTypeOK, RcPaneType, RcRest, RcRecords

LEMMA RcHasRoom ==
    ASSUME RcShapes
    PROVE  /\ rcJob.at \in {"clear", "verify"} \/ rcSweep.at = "clear" => rcPane.conv + 1 \in RcConv
           /\ rcPane.conv \in Nat /\ RcConvs \in Nat \ {0} /\ 0 \in RcConv /\ 0 \in RcHash
<1>1. rcPane.conv \in RcConv /\ RcConvs \in Nat \ {0} /\ RcFacts \in Nat
  BY RcAssumption DEF RcShapes, RcTypeOK
<1>2. rcPane.conv + RcJobOpens + RcSweepOpens <= RcConvs + 2
  BY DEF RcShapes, RcRoom
<1>3. RcJobOpens \in {0, 1, 2} /\ RcSweepOpens \in {0, 1}
  BY DEF RcJobOpens, RcSweepOpens
<1>4. rcJob.at \in {"clear", "verify"} \/ rcSweep.at = "clear" => rcPane.conv <= RcConvs + 1
  BY <1>1, <1>2, <1>3 DEF RcJobOpens, RcSweepOpens, RcConv
<1>5. QED
  BY <1>1, <1>4 DEF RcConv, RcHash

LEMMA RcTypesTick == ASSUME RcShapes, RcTick, rcCast' = rcCast PROVE RcPaneType' /\ RcRest' /\ RcRoom'
<1>1. /\ rcFile.conv \in RcConv /\ rcJob.at = "idle" /\ rcPane.conv < RcConvs
      /\ UNCHANGED <<rcPane, rcFile, rcFacts, rcActed, rcRow, rcSettled, rcSweep, rcKeys, rcLost>>
  BY DEF RcTick, RcShapes, RcTypeOK
<1>2. rcJob' \in [at : {"idle", "clear", "verify", "again", "resume"}, conv : RcConv]
  <2>1. rcJob' = rcJob \/ rcJob' = [at |-> "clear", conv |-> rcFile.conv]
    BY DEF RcTick, RcCheckpoint, RcMeasure
  <2>2. rcJob \in [at : {"idle", "clear", "verify", "again", "resume"}, conv : RcConv]
    BY DEF RcShapes, RcTypeOK
  <2>3. QED
    BY <1>1, <2>1, <2>2
<1>3. rcLedger' = rcLedger \/ rcLedger' = rcLedger \cup {<<rcFile.conv, "checkpoint_only">>}
  BY DEF RcTick, RcMeasure
<1>4. rcLedger' \subseteq RcConv \X RcStatus
  <2>1. rcLedger \subseteq RcConv \X RcStatus
    BY DEF RcShapes, RcTypeOK
  <2>2. <<rcFile.conv, "checkpoint_only">> \in RcConv \X RcStatus
    BY <1>1 DEF RcStatus
  <2>3. QED
    BY <1>3, <2>1, <2>2
<1>5. RcRoom'
  <2>1. RcJobOpens' \in {0, 1, 2} /\ RcSweepOpens' \in {0, 1}
    BY DEF RcJobOpens, RcSweepOpens
  <2>2. QED
    BY <1>1, <2>1, RcHasRoom DEF RcRoom
<1>6. QED
  BY <1>1, <1>2, <1>4, <1>5, RcParts DEF RcPaneType, RcRest, RcRecords

\* A step that may open one conversation, and leaves the sweep and the keys alone.
LEMMA RcTypesJob ==
    ASSUME RcShapes, NEW at \in {"idle", "verify", "again", "resume"}, NEW text \in {"clear", "resume"},
           rcJob' = RcNoJob \/ rcJob' = [rcJob EXCEPT !.at = at],
           rcJob.at = "clear" \/ at # "verify",
           text = "clear" => rcJob.at \in {"clear", "verify"},
           RcKeystrokes(text) \/ (text = "clear" /\ RcEnter) \/ UNCHANGED <<rcPane, rcFile>>,
           rcActed' \in {rcActed, rcActed \cup {rcJob.conv}, rcActed \ {rcJob.conv}},
           rcLedger' \subseteq RcConv \X RcStatus,
           UNCHANGED <<rcFacts, rcRow, rcSettled, rcSweep, rcKeys, rcLost>>
    PROVE  RcPaneType' /\ (rcCast' = rcCast => RcRest') /\ RcRoom'
<1>1. /\ RcPaneType'
      /\ rcPane'.conv = rcPane.conv \/ (text = "clear" /\ rcPane'.conv = rcPane.conv + 1)
  BY RcHasRoom, RcStrokes DEF RcShapes
<1>2. /\ rcJob \in [at : {"idle", "clear", "verify", "again", "resume"}, conv : RcConv]
      /\ RcNoJob \in [at : {"idle"}, conv : RcConv] /\ RcNoJob.at = "idle"
  BY RcHasRoom DEF RcShapes, RcTypeOK, RcNoJob
<1>3. /\ rcJob' \in [at : {"idle", "clear", "verify", "again", "resume"}, conv : RcConv]
      /\ rcJob'.at \in {"idle", at}
  BY <1>2
<1>4. rcCast' = rcCast => RcRest'
  BY <1>2, <1>3, RcParts DEF RcRest, RcRecords
<1>5. RcRoom'
  <2>1. rcPane.conv + RcJobOpens + RcSweepOpens <= RcConvs + 2 /\ RcSweepOpens \in {0, 1} /\ RcSweepOpens' = RcSweepOpens
    BY DEF RcShapes, RcRoom, RcSweepOpens
  <2>2. rcPane'.conv = rcPane.conv + 1 => RcJobOpens' + 1 <= RcJobOpens
    <3>1. CASE rcJob.at = "clear"
      BY <1>3, <3>1 DEF RcJobOpens
    <3>2. CASE rcJob.at = "verify"
      BY <1>3, <3>2 DEF RcJobOpens
    <3>3. CASE rcPane'.conv = rcPane.conv
      BY <3>3, RcHasRoom
    <3>4. QED
      BY <1>1, <3>1, <3>2, <3>3
  <2>3. RcJobOpens' <= RcJobOpens /\ RcJobOpens \in {0, 1, 2} /\ RcJobOpens' \in {0, 1, 2}
    BY <1>3 DEF RcJobOpens
  <2>4. QED
    BY <1>1, <2>1, <2>2, <2>3, RcHasRoom DEF RcRoom
<1>6. QED
  BY <1>1, <1>4, <1>5

LEMMA RcTypesRotate ==
    ASSUME RcShapes, RcClear \/ RcClearAgain \/ RcCheck \/ RcResume, rcCast' = rcCast
    PROVE  RcPaneType' /\ RcRest' /\ RcRoom'
<1>1. UNCHANGED <<rcFacts, rcRow, rcSettled, rcSweep, rcKeys, rcLost>>
  BY DEF RcClear, RcClearAgain, RcCheck, RcResume
<1>2. rcLedger \subseteq RcConv \X RcStatus /\ rcJob.conv \in RcConv
  BY DEF RcShapes, RcTypeOK
<1>3. CASE RcClear
  <2>1. /\ rcJob' = RcNoJob \/ rcJob' = [rcJob EXCEPT !.at = "verify"]
        /\ rcJob.at = "clear" /\ UNCHANGED <<rcActed, rcLedger>>
        /\ RcKeystrokes("clear") \/ RcEnter \/ UNCHANGED <<rcPane, rcFile>>
    BY <1>3 DEF RcClear
  <2>2. QED
    BY <1>1, <1>2, <2>1, RcTypesJob
<1>4. CASE RcClearAgain
  <2>1. /\ rcJob' = [rcJob EXCEPT !.at = "again"] /\ rcJob.at = "verify"
        /\ UNCHANGED <<rcActed, rcLedger>> /\ RcEnter
    BY <1>4 DEF RcClearAgain
  <2>2. QED
    BY <1>1, <1>2, <2>1, RcTypesJob
<1>5. CASE RcCheck
  <2>1. /\ rcJob' = RcNoJob \/ rcJob' = [rcJob EXCEPT !.at = "resume"]
        /\ rcActed' \in {rcActed \cup {rcJob.conv}, rcActed \ {rcJob.conv}}
        /\ UNCHANGED <<rcPane, rcFile, rcLedger>>
    BY <1>5 DEF RcCheck
  <2>2. QED
    BY <1>1, <1>2, <2>1, RcTypesJob
<1>6. CASE RcResume
  <2>1. PICK ok \in BOOLEAN :
          /\ RcKeystrokes("resume") \/ UNCHANGED <<rcPane, rcFile>>
          /\ rcLedger' = rcLedger \cup {<<rcJob.conv, IF ok THEN "rotated" ELSE "rotated_resume_unverified">>}
    BY <1>6 DEF RcResume
  <2>2. rcJob' = RcNoJob /\ rcActed' = rcActed
    BY <1>6 DEF RcResume
  <2>3. rcLedger' \subseteq RcConv \X RcStatus
    <3>1. <<rcJob.conv, IF ok THEN "rotated" ELSE "rotated_resume_unverified">> \in RcConv \X RcStatus
      BY <1>2 DEF RcStatus
    <3>2. QED
      BY <1>2, <2>1, <3>1
  <2>4. QED
    BY <1>1, <2>1, <2>2, <2>3, RcTypesJob
<1>7. QED
  BY <1>3, <1>4, <1>5, <1>6

LEMMA RcTypesEvaluate ==
    ASSUME RcShapes, RcEvaluate, rcCast' = rcCast PROVE RcPaneType' /\ RcRest' /\ RcRoom'
<1>1. /\ rcPane.conv < RcConvs /\ rcSweep.at = "idle"
      /\ UNCHANGED <<rcPane, rcFile, rcFacts, rcLedger, rcActed, rcJob, rcKeys, rcLost>>
      /\ rcSettled' \in {"no", "seen", "settled"}
  BY DEF RcEvaluate, RcShapes, RcTypeOK
<1>2. (rcPane.line = "clear") \in BOOLEAN
  OBVIOUS
<1>3. /\ rcRow' \in [stage : {"none", "handoff_written", "cleared", "resumed"}, hash : RcHash,
                     rotated : {"never", "recently", "long ago"}]
      /\ rcSweep' \in [at : {"idle", "clear", "clear typed", "resume", "resume typed", "save"},
                       hash : RcHash, own : BOOLEAN]
  <2>1. CASE RcAwaited
    BY <2>1 DEF RcAwaited, RcShapes, RcTypeOK
  <2>2. CASE UNCHANGED <<rcRow, rcSweep>>
    BY <2>2 DEF RcShapes, RcTypeOK
  <2>3. CASE /\ rcRow' = [stage |-> "handoff_written", hash |-> rcFacts, rotated |-> "never"]
             /\ rcSweep' = [at |-> "clear", hash |-> rcFacts, own |-> (rcPane.line = "clear")]
    BY <1>2, <2>3 DEF RcShapes, RcTypeOK
  <2>4. QED
    BY <2>1, <2>2, <2>3 DEF RcEvaluate, RcHandoff
<1>4. RcRoom'
  <2>1. RcJobOpens' \in {0, 1, 2} /\ RcSweepOpens' \in {0, 1}
    BY DEF RcJobOpens, RcSweepOpens
  <2>2. QED
    BY <1>1, <2>1, RcHasRoom DEF RcRoom
<1>5. QED
  BY <1>1, <1>3, <1>4, RcParts DEF RcPaneType, RcRest, RcRecords

LEMMA RcTypesSweep ==
    ASSUME RcShapes, RcSweepClear \/ RcSweepResume \/ RcSweepKey \/ RcSave, rcCast' = rcCast
    PROVE  RcPaneType' /\ RcRest' /\ RcRoom'
<1> DEFINE S == [at : {"idle", "clear", "clear typed", "resume", "resume typed", "save"},
                 hash : RcHash, own : BOOLEAN]
<1>1. UNCHANGED <<rcFacts, rcLedger, rcActed, rcJob, rcSettled, rcLost>>
  BY DEF RcSweepClear, RcSweepResume, RcSweepKey, RcSave
<1>2. \/ rcSweep' = RcNoSweep
      \/ \E at \in {"clear typed", "resume", "resume typed", "save"} : rcSweep' = [rcSweep EXCEPT !.at = at]
  BY DEF RcSweepClear, RcSweepResume, RcSweepKey, RcSave
<1>3. rcSweep' \in S /\ rcSweep'.at # "clear"
  <2>1. rcSweep \in S
    BY DEF RcShapes, RcTypeOK
  <2>2. RcNoSweep \in S /\ RcNoSweep.at = "idle"
    BY RcHasRoom DEF RcNoSweep
  <2>3. QED
    BY <1>2, <2>1, <2>2
<1>4. rcSweep.hash \in RcHash /\ rcKeys \subseteq RcHash \X {"clear", "resume"}
  BY DEF RcShapes, RcTypeOK
<1>5. rcKeys' \subseteq RcHash \X {"clear", "resume"}
  <2>1. rcKeys' = rcKeys \/ \E text \in {"clear", "resume"} : rcKeys' = rcKeys \cup {<<rcSweep.hash, text>>}
    BY DEF RcSweepClear, RcSweepResume, RcSweepKey, RcSave
  <2>2. QED
    BY <1>4, <2>1
<1>6. rcRow' \in [stage : {"none", "handoff_written", "cleared", "resumed"}, hash : RcHash,
                  rotated : {"never", "recently", "long ago"}]
  <2>1. rcRow' = rcRow \/ rcRow' = [stage |-> "cleared", hash |-> rcSweep.hash, rotated |-> "recently"]
    BY DEF RcSweepClear, RcSweepResume, RcSweepKey, RcSave
  <2>2. rcRow \in [stage : {"none", "handoff_written", "cleared", "resumed"}, hash : RcHash,
                   rotated : {"never", "recently", "long ago"}]
    BY DEF RcShapes, RcTypeOK
  <2>3. [stage |-> "cleared", hash |-> rcSweep.hash, rotated |-> "recently"]
          \in [stage : {"none", "handoff_written", "cleared", "resumed"}, hash : RcHash,
               rotated : {"never", "recently", "long ago"}]
    BY <1>4
  <2>4. QED
    BY <2>1, <2>2, <2>3
<1>7. \E text \in {"clear", "resume"} :
        /\ RcKeystrokes(text) \/ (text = "clear" /\ RcEnter) \/ UNCHANGED <<rcPane, rcFile>>
        /\ text = "clear" => rcSweep.at = "clear"
  BY DEF RcSweepClear, RcSweepResume, RcSweepKey, RcSave, RcSkips, RcTypes
<1>8. /\ RcPaneType'
      /\ rcPane'.conv = rcPane.conv \/ (rcSweep.at = "clear" /\ rcPane'.conv = rcPane.conv + 1)
  BY <1>7, RcHasRoom, RcStrokes DEF RcShapes
<1>9. RcRest'
  BY <1>1, <1>3, <1>5, <1>6, RcParts DEF RcRest, RcRecords
<1>10. RcRoom'
  <2>1. rcPane.conv + RcJobOpens + RcSweepOpens <= RcConvs + 2 /\ RcJobOpens' = RcJobOpens
    BY <1>1 DEF RcShapes, RcRoom, RcJobOpens
  <2>2. RcSweepOpens' = 0 /\ RcSweepOpens \in {0, 1} /\ (rcSweep.at = "clear" => RcSweepOpens = 1)
    BY <1>3 DEF RcSweepOpens
  <2>3. RcJobOpens \in {0, 1, 2}
    BY DEF RcJobOpens
  <2>4. QED
    BY <1>8, <2>1, <2>2, <2>3, RcHasRoom DEF RcRoom
<1>11. QED
  BY <1>8, <1>9, <1>10

LEMMA RcTypesOthers ==
    ASSUME RcShapes, rcCast' = rcCast,
           \/ RcTurn \/ RcLineChanges \/ RcTime \/ RcCut
           \/ \E key \in RcHash \X {"clear", "resume"} : RcKeyLapses(key)
    PROVE  RcPaneType' /\ RcRest' /\ RcRoom'
<1>1. CASE \E key \in RcHash \X {"clear", "resume"} : RcKeyLapses(key)
  BY <1>1 DEF RcKeyLapses, RcPaneType, RcRest, RcRecords, RcRoom, RcJobOpens, RcSweepOpens, RcShapes, RcTypeOK
<1>2. CASE RcTurn
  <2>1. UNCHANGED <<rcLedger, rcActed, rcJob, rcRow, rcSettled, rcSweep, rcKeys, rcLost>>
    BY <1>2 DEF RcTurn
  <2>2. RcPaneType' /\ rcPane'.conv = rcPane.conv
    <3>1. /\ rcPane \in [mode : {"rest", "busy"}, line : RcLine, conv : RcConv, load : RcLoad]
          /\ rcFile \in [conv : RcConv, load : RcLoad] /\ "none" \in RcLine
      BY DEF RcShapes, RcTypeOK, RcLine
    <3>2. CASE rcPane' = [rcPane EXCEPT !.mode = "busy", !.line = "none"] /\ rcFile' = rcFile
      BY <3>1, <3>2 DEF RcPaneType
    <3>3. ASSUME NEW load \in RcLoad, rcPane' = [rcPane EXCEPT !.mode = "rest", !.load = load],
                 rcFile' = [conv |-> rcPane.conv, load |-> load]
          PROVE  RcPaneType' /\ rcPane'.conv = rcPane.conv
      BY <3>1, <3>3 DEF RcPaneType
    <3>4. QED
      BY <1>2, <3>2, <3>3 DEF RcTurn
  <2>3. rcFacts' \in RcHash
    <3>1. rcFacts' = rcFacts \/ rcFacts' \in 0..rcCast.facts
      BY <1>2 DEF RcTurn
    <3>2. rcCast.facts \in 0..RcFacts /\ RcFacts \in Nat /\ rcFacts \in RcHash
      BY RcAssumption DEF RcShapes, RcTypeOK
    <3>3. QED
      BY <3>1, <3>2 DEF RcHash
  <2>4. QED
    BY <2>1, <2>2, <2>3 DEF RcRest, RcRecords, RcRoom, RcJobOpens, RcSweepOpens, RcShapes, RcTypeOK
<1>3. CASE RcLineChanges
  <2>1. PICK line \in RcLine : rcPane' = [rcPane EXCEPT !.line = line]
    BY <1>3 DEF RcLineChanges
  <2>2. UNCHANGED <<rcFile, rcFacts, rcLedger, rcActed, rcJob, rcRow, rcSettled, rcSweep, rcKeys, rcLost>>
    BY <1>3 DEF RcLineChanges
  <2>3. RcPaneType' /\ rcPane'.conv = rcPane.conv
    BY <2>1, <2>2, RcParts DEF RcPaneType
  <2>4. RcRest'
    BY <2>2, RcParts DEF RcRest, RcRecords
  <2>5. RcRoom'
    BY <2>2, <2>3 DEF RcRoom, RcJobOpens, RcSweepOpens, RcShapes
  <2>6. QED
    BY <2>3, <2>4, <2>5
<1>4. CASE RcTime
  BY <1>4 DEF RcTime, RcPaneType, RcRest, RcRecords, RcRoom, RcJobOpens, RcSweepOpens, RcShapes, RcTypeOK
<1>5. CASE RcCut
  <2>1. /\ UNCHANGED <<rcPane, rcFile, rcFacts, rcLedger, rcActed, rcRow, rcSettled, rcKeys>>
        /\ rcJob' \in {rcJob, RcNoJob} /\ rcSweep' \in {rcSweep, RcNoSweep}
    BY <1>5 DEF RcCut
  <2>2. /\ RcNoSweep \in [at : {"idle", "clear", "clear typed", "resume", "resume typed", "save"},
                          hash : RcHash, own : BOOLEAN]
        /\ RcNoJob \in [at : {"idle", "clear", "verify", "again", "resume"}, conv : RcConv]
        /\ RcNoSweep.at = "idle" /\ RcNoJob.at = "idle"
    BY RcHasRoom DEF RcNoJob, RcNoSweep
  <2>3. RcRecords'
    BY <2>1, <2>2, RcParts DEF RcRest, RcRecords
  <2>4. rcLost' \in 0..RcLosses
    <3>1. rcLost' = rcLost \/ (rcLost < rcCast.losses /\ rcLost' = rcLost + 1)
      BY <1>5 DEF RcCut
    <3>2. rcCast.losses \in 0..RcLosses /\ RcLosses \in Nat /\ rcLost \in 0..RcLosses
      BY RcAssumption DEF RcShapes, RcTypeOK
    <3>3. QED
      BY <3>1, <3>2
  <2>5. RcPaneType' /\ RcRest'
    BY <2>1, <2>3, <2>4, RcParts DEF RcPaneType, RcRest
  <2>6. RcRoom'
    <3>1. rcPane.conv + RcJobOpens + RcSweepOpens <= RcConvs + 2
      BY DEF RcShapes, RcRoom
    <3>2. RcJobOpens' \in {0, RcJobOpens} /\ RcSweepOpens' \in {0, RcSweepOpens}
      BY <2>1, <2>2 DEF RcJobOpens, RcSweepOpens
    <3>3. RcJobOpens \in {0, 1, 2} /\ RcSweepOpens \in {0, 1}
      BY DEF RcJobOpens, RcSweepOpens
    <3>4. QED
      BY <2>1, <3>1, <3>2, <3>3, RcHasRoom DEF RcRoom
  <2>7. QED
    BY <2>5, <2>6
<1>6. QED
  BY <1>1, <1>2, <1>3, <1>4, <1>5

LEMMA RcTypeStep == RcShapes /\ RcIInv' /\ [RcNext]_RcVars => RcShapes'
<1> SUFFICES ASSUME RcShapes, RcIInv', [RcNext]_RcVars PROVE RcShapes'
  OBVIOUS
<1>1. CASE UNCHANGED RcVars
  <2>1. UNCHANGED <<rcPane, rcFile, rcFacts, rcLedger, rcActed, rcJob, rcRow, rcSettled, rcSweep, rcKeys>>
    BY <1>1 DEF RcVars, RcState
  <2>2. UNCHANGED <<rcClears, rcTyped, rcLost, rcCast>>
    BY <1>1 DEF RcVars, RcState
  <2>3. RcTypeOK'
    <3>1. RcPaneType' /\ RcRest'
      <4>1. RcPaneType'
        BY <2>1, RcParts DEF RcPaneType
      <4>2. RcRest'
        BY <2>1, <2>2, RcParts DEF RcRest, RcRecords
      <4>3. QED
        BY <4>1, <4>2
    <3>2. /\ rcClears' \in [RcConv -> 0..RcLosses + 1]
          /\ rcTyped' \in [RcHash -> 0..RcLosses + 1]
      BY <2>2 DEF RcShapes, RcTypeOK
    <3>3. QED
      BY <3>1, <3>2 DEF RcTypeOK, RcPaneType, RcRest, RcRecords
  <2>4. RcRoom'
    BY <2>1 DEF RcShapes, RcRoom, RcJobOpens, RcSweepOpens
  <2>5. QED
    BY <2>3, <2>4 DEF RcShapes
<1>2. CASE RcNext
  <2>1. RcPaneType' /\ RcRest' /\ RcRoom'
    BY <1>2, RcTypesTick, RcTypesRotate, RcTypesEvaluate, RcTypesSweep, RcTypesOthers
       DEF RcNext, RcMoves
  <2>2. RcTypeOK'
    <3>1. rcClears' \in [RcConv -> 0..RcLosses + 1] /\ rcTyped' \in [RcHash -> 0..RcLosses + 1]
      <4>1. /\ rcClears' \in [RcConv -> Nat] /\ \A c \in RcConv : rcClears'[c] <= rcLost' + 1
            /\ rcTyped' \in [RcHash -> Nat] /\ \A h \in RcHash : rcTyped'[h] <= rcLost' + 1
        BY DEF RcIInv, RcRecorded, RcKeyed
      <4>2. rcLost' \in 0..RcLosses /\ RcLosses \in Nat
        BY <2>1, RcAssumption DEF RcRest
      <4>3. (\A c \in RcConv : rcClears'[c] \in 0..RcLosses + 1) /\ \A h \in RcHash : rcTyped'[h] \in 0..RcLosses + 1
        BY <4>1, <4>2
      <4>4. QED
        BY <4>1, <4>3
    <3>2. QED
      BY <2>1, <3>1 DEF RcTypeOK, RcPaneType, RcRest, RcRecords
  <2>3. QED
    BY <2>1, <2>2 DEF RcShapes
<1>3. QED
  BY <1>1, <1>2

LEMMA RcInductive == RcSpec => [](RcShapes /\ RcIInv)
<1>1. RcInit => RcShapes /\ RcIInv
  <2> SUFFICES ASSUME RcInit PROVE RcShapes /\ RcIInv
    OBVIOUS
  <2>1. RcConvs \in Nat \ {0} /\ RcFacts \in Nat /\ RcLosses \in Nat /\ 0 \in RcConv /\ 0 \in RcHash
    BY RcAssumption DEF RcConv, RcHash
  <2>2. RcIInv
    BY DEF RcInit, RcIInv, RcRecorded, RcKeyed
  <2>3. RcRoom
    BY <2>1 DEF RcInit, RcRoom, RcJobOpens, RcSweepOpens, RcNoJob, RcNoSweep
  <2>4. RcTypeOK
    BY <2>1 DEF RcInit, RcTypeOK, RcNoJob, RcNoSweep, RcLine, RcLoad
  <2>5. QED
    BY <2>2, <2>3, <2>4 DEF RcShapes
<1>2. RcShapes => RcTypeOK
  BY DEF RcShapes
<1>3. QED
  BY <1>1, <1>2, RcStep, RcTypeStep, PTL DEF RcSpec

\* The two rotations keep their types, and two /clears that race open no conversation
\* past the bound, for any number of conversations, facts and losses.
THEOREM RcTypeCorrect == RcSpec => []RcTypeOK
<1>1. RcShapes => RcTypeOK
  BY DEF RcShapes
<1>2. QED
  BY <1>1, RcInductive, PTL

\* Whatever stops between the keystrokes and their record and whenever a key lapses,
\* rotate types /clear once for a conversation until a verification fails, evaluate once
\* for a handoff while its key lives, and either once more for each typing that nothing
\* recorded, for any number of conversations, facts and losses.
THEOREM ClearedOnce == RcSpec => []RcClearedOnce
<1>1. RcIInv => RcClearedOnce
  <2> SUFFICES ASSUME RcIInv PROVE RcClearedOnce
    OBVIOUS
  <2>1. /\ rcLost \in Nat
        /\ \A c \in RcConv : rcClears[c] <= rcLost + 1
        /\ \A h \in RcHash : rcTyped[h] <= rcLost + 1
    BY DEF RcIInv, RcRecorded, RcKeyed
  <2>2. QED
    BY <2>1 DEF RcClearedOnce
<1>2. QED
  BY <1>1, RcInductive, PTL

----------------------------------------------------------------------------
(* The life cycle of an agent *)

\* The conversation of a kill at work was last seen at work.
LfIInv ==
    /\ DOMAIN lfRow = DOMAIN LfNoRow
    /\ lfKilled # 0 /\ lfRow.alive /\ lfRow.conv = lfKilled => lfRow.state \in LfActive

\* A sweep that finds the agent gone closes its row, and announces a completion only of
\* a row that was alive and not at work.
LEMMA LfGone ==
    ASSUME LfIInv, NEW fails \in BOOLEAN, LfRecordsGone(fails)
    PROVE  /\ lfKilled' = lfKilled /\ DOMAIN lfRow' = DOMAIN LfNoRow
           /\ lfRow' = lfRow \/ lfRow'.alive = FALSE
           /\ \A c : <<"completed", c>> \in lfEvents' \ lfEvents =>
                 lfRow.alive /\ lfRow.conv = c /\ lfRow.state \notin LfActive
<1>1. CASE ~lfRow.alive
  BY <1>1 DEF LfRecordsGone, LfIInv
<1>2. CASE lfRow.alive
  <2>1. /\ lfRow' = [lfRow EXCEPT !.alive = FALSE, !.done = @ \/ LfVerdict = "completed"]
        /\ lfKilled' = lfKilled
        /\ lfEvents' = lfEvents \/ lfEvents' = lfEvents \cup {<<LfVerdict, lfRow.conv>>}
    BY <1>2 DEF LfRecordsGone
  <2>2. DOMAIN lfRow = {"state", "alive", "conv", "done"}
    BY DEF LfIInv, LfNoRow
  <2>3. DOMAIN lfRow' = DOMAIN lfRow /\ lfRow'.alive = FALSE
    BY <2>1, <2>2
  <2>4. LfVerdict = "completed" => lfRow.state \notin LfActive
    BY DEF LfVerdict
  <2>5. QED
    BY <1>2, <2>1, <2>3, <2>4 DEF LfIInv
<1>3. QED
  BY <1>1, <1>2

LEMMA LfStep == LfIInv /\ [LfNext]_LfVars => LfIInv'
<1> SUFFICES ASSUME LfIInv, [LfNext]_LfVars PROVE LfIInv'
  OBVIOUS
<1>1. ASSUME UNCHANGED <<lfKilled, lfRow>> PROVE LfIInv'
  BY <1>1 DEF LfIInv
<1>2. CASE \/ \E state \in LfStates : LfAgentMoves(state)
           \/ LfWritesReport \/ LfReportAges \/ LfLooks \/ UNCHANGED LfVars
  BY <1>1, <1>2 DEF LfAgentMoves, LfWritesReport, LfReportAges, LfLooks, LfVars
<1>3. CASE LfAgentEnds
  BY <1>3 DEF LfAgentEnds, LfIInv
<1>4. ASSUME NEW b \in BOOLEAN, LfAgentStarts(b) PROVE LfIInv'
  BY <1>4 DEF LfAgentStarts, LfIInv
<1>5. ASSUME NEW b \in BOOLEAN, LfRecordsLive(b) PROVE LfIInv'
  BY <1>5 DEF LfRecordsLive, LfIInv, LfNoRow
<1>6. ASSUME NEW b \in BOOLEAN, LfRecordsGone(b) PROVE LfIInv'
  BY <1>6, LfGone DEF LfIInv
<1>7. CASE LfPrunes
  BY <1>7 DEF LfPrunes, LfIInv, LfNoRow
<1>8. QED
  BY <1>2, <1>3, <1>4, <1>5, <1>6, <1>7 DEF LfNext

\* An agent killed at work, and seen at work by the sweep before, is never announced as
\* completed, for any number of conversations and of events that are lost.
THEOREM NoFalseCompletion == LfSpec => LfNoFalseCompletion
<1>1. LfInit => LfIInv
  BY DEF LfInit, LfIInv
<1>2. ASSUME LfIInv, LfNext, NEW c \in 1..LfConvs, <<"completed", c>> \in lfEvents' \ lfEvents
      PROVE  lfKilled # c
  <2>1. PICK b \in BOOLEAN : LfRecordsGone(b)
    BY <1>2 DEF LfNext, LfAgentMoves, LfWritesReport, LfReportAges, LfAgentEnds, LfAgentStarts,
                LfRecordsLive, LfLooks, LfPrunes
  <2>2. lfRow.alive /\ lfRow.conv = c /\ lfRow.state \notin LfActive
    BY <1>2, <2>1, LfGone
  <2>3. c # 0
    BY LfAssumption
  <2>4. QED
    BY <1>2, <2>2, <2>3 DEF LfIInv
<1>3. LfIInv /\ [LfNext]_LfVars =>
        [\A c \in 1..LfConvs : <<"completed", c>> \in lfEvents' \ lfEvents => lfKilled # c]_LfVars
  BY <1>2
<1>4. QED
  BY <1>1, <1>3, LfStep, PTL DEF LfSpec, LfNoFalseCompletion

----------------------------------------------------------------------------
(* Types of the life cycle *)

LfRowType == lfRow = LfNoRow \/ lfRow \in [state : LfStates, alive : BOOLEAN, conv : 1..LfConvs, done : BOOLEAN]

LEMMA LfTypeStep == LfTypeOK /\ [LfNext]_LfVars => LfTypeOK'
<1> SUFFICES ASSUME LfTypeOK, [LfNext]_LfVars PROVE LfTypeOK'
  OBVIOUS
<1>1. /\ lfAgent \in [alive : BOOLEAN, state : LfStates, conv : 1..LfConvs, report : LfReports]
      /\ LfRowType /\ LfConvs \in Nat \ {0} /\ LfErrors \in Nat
  BY LfAssumption DEF LfTypeOK, LfRowType
<1>2. ASSUME NEW state \in LfStates, LfAgentMoves(state) PROVE LfTypeOK'
  BY <1>1, <1>2 DEF LfAgentMoves, LfTypeOK
<1>3. CASE LfWritesReport \/ LfReportAges
  <2>1. lfAgent' \in [alive : BOOLEAN, state : LfStates, conv : 1..LfConvs, report : LfReports]
    BY <1>1, <1>3 DEF LfWritesReport, LfReportAges, LfReports
  <2>2. QED
    BY <1>3, <2>1 DEF LfWritesReport, LfReportAges, LfTypeOK
<1>4. CASE LfAgentEnds
  <2>1. lfAgent' \in [alive : BOOLEAN, state : LfStates, conv : 1..LfConvs, report : LfReports]
    BY <1>1, <1>4 DEF LfAgentEnds
  <2>2. lfKilled' = lfAgent.conv \/ lfKilled' = 0
    BY <1>4 DEF LfAgentEnds
  <2>3. lfKilled' \in 0..LfConvs
    BY <1>1, <2>2
  <2>4. QED
    BY <1>4, <2>1, <2>3 DEF LfAgentEnds, LfTypeOK
<1>5. ASSUME NEW b \in BOOLEAN, LfAgentStarts(b) PROVE LfTypeOK'
  <2>1. lfAgent' \in [alive : BOOLEAN, state : LfStates, conv : 1..LfConvs, report : LfReports]
    <3>1. PICK c \in 1..LfConvs :
            lfAgent' = [lfAgent EXCEPT !.alive = TRUE, !.state = "idle", !.conv = c]
      <4>1. lfAgent.conv \in 1..LfConvs /\ (lfAgent.conv < LfConvs => lfAgent.conv + 1 \in 1..LfConvs)
        BY <1>1
      <4>2. lfAgent' = [lfAgent EXCEPT !.alive = TRUE, !.state = "idle",
                                       !.conv = IF b THEN lfAgent.conv ELSE lfAgent.conv + 1]
        BY <1>5 DEF LfAgentStarts
      <4>3. CASE b
        BY <4>1, <4>2, <4>3
      <4>4. CASE ~b
        BY <1>5, <4>1, <4>2, <4>4 DEF LfAgentStarts
      <4>5. QED
        BY <4>3, <4>4
    <3>2. "idle" \in LfStates
      BY DEF LfStates
    <3>3. QED
      BY <1>1, <3>1, <3>2
  <2>2. QED
    BY <1>1, <1>5, <2>1 DEF LfAgentStarts, LfTypeOK
<1>6. ASSUME NEW b \in BOOLEAN, LfRecordsLive(b) PROVE LfTypeOK'
  <2> DEFINE done == \/ lfSeen = "idle" /\ ~b /\ lfAgent.report = "fresh"
                     \/ lfRow.done /\ ~(lfRow.conv # 0 /\ lfRow.conv # lfAgent.conv)
  <2>1. lfRow' = [state |-> lfSeen, alive |-> TRUE, conv |-> lfAgent.conv, done |-> done]
    BY <1>6 DEF LfRecordsLive
  <2>2. done \in BOOLEAN /\ lfSeen \in LfStates /\ lfAgent.conv \in 1..LfConvs
    BY <1>1, <1>6 DEF LfRecordsLive
  <2> HIDE DEF done
  <2>3. lfRow' \in [state : LfStates, alive : BOOLEAN, conv : 1..LfConvs, done : BOOLEAN]
    BY <2>1, <2>2
  <2>4. lfKilled' \in 0..LfConvs /\ UNCHANGED <<lfAgent, lfEvents, lfErrors>> /\ lfSeen' = "none"
    BY <1>1, <1>6 DEF LfRecordsLive, LfTypeOK
  <2>5. QED
    BY <2>3, <2>4 DEF LfTypeOK
<1>7. ASSUME NEW b \in BOOLEAN, LfRecordsGone(b) PROVE LfTypeOK'
  <2>1. UNCHANGED <<lfAgent, lfKilled>> /\ lfSeen' = "none"
    BY <1>7 DEF LfRecordsGone
  <2>2. CASE ~lfRow.alive
    BY <1>1, <1>7, <2>1, <2>2 DEF LfRecordsGone, LfTypeOK, LfRowType
  <2>3. CASE lfRow.alive
    <3>1. /\ lfRow \in [state : LfStates, alive : BOOLEAN, conv : 1..LfConvs, done : BOOLEAN]
          /\ lfErrors' = lfErrors \/ (lfErrors < LfErrors /\ lfErrors' = lfErrors + 1)
          /\ \/ lfEvents' = lfEvents
             \/ LfVerdict \in LfKinds /\ lfEvents' = lfEvents \cup {<<LfVerdict, lfRow.conv>>}
          /\ lfRow' = [lfRow EXCEPT !.alive = FALSE, !.done = @ \/ LfVerdict = "completed"]
      BY <1>1, <1>7, <2>3 DEF LfRecordsGone, LfRowType, LfNoRow
    <3>2. (lfRow.done \/ LfVerdict = "completed") \in BOOLEAN
      OBVIOUS
    <3>3. lfRow' \in [state : LfStates, alive : BOOLEAN, conv : 1..LfConvs, done : BOOLEAN]
      BY <3>1, <3>2
    <3>4. lfEvents' \subseteq LfKinds \X (1..LfConvs)
      BY <3>1 DEF LfTypeOK
    <3>5. lfErrors' \in 0..LfErrors
      BY <1>1, <3>1 DEF LfTypeOK
    <3>6. QED
      BY <2>1, <3>3, <3>4, <3>5 DEF LfTypeOK
  <2>4. QED
    BY <2>2, <2>3
<1>8. CASE LfLooks
  BY <1>1, <1>8 DEF LfLooks, LfTypeOK
<1>9. CASE LfPrunes \/ UNCHANGED LfVars
  BY <1>9 DEF LfPrunes, LfVars, LfTypeOK
<1>10. QED
  BY <1>2, <1>3, <1>4, <1>5, <1>6, <1>7, <1>8, <1>9 DEF LfNext

\* The row of a target and its events keep their types, for any number of conversations
\* and of events that are lost.
THEOREM LfTypeCorrect == LfSpec => []LfTypeOK
<1>1. LfInit => LfTypeOK
  <2> SUFFICES ASSUME LfInit PROVE LfTypeOK
    OBVIOUS
  <2>1. 1 \in 1..LfConvs /\ 0 \in 0..LfErrors /\ 0 \in 0..LfConvs
    BY LfAssumption
  <2>2. lfAgent \in [alive : BOOLEAN, state : LfStates, conv : 1..LfConvs, report : LfReports]
    BY <2>1 DEF LfInit, LfStates, LfReports
  <2>3. QED
    BY <2>1, <2>2 DEF LfInit, LfTypeOK
<1>2. QED
  BY <1>1, LfTypeStep, PTL DEF LfSpec

----------------------------------------------------------------------------
(* The orchestrator *)

OrSteps == {"rest", "evaluate", "resume typed", "save", "advance", "phase typed", "phase",
            "verify", "plan", "dispatch", "task typed", "mark", "count", "close"}
OrSeen == {"none", "working", "idle", "completed", "paused"}
OrSweeps == [at : OrSteps, seen : OrSeen, retry : 0..OrMaxResumes, task : OrTasks \cup {0},
             ready : SUBSET OrTasks]

\* The types, but for the counts of what was typed.
OrForm ==
    /\ orAgent \in [state : {"working", "idle"}, fresh : BOOLEAN]
    /\ orLocked \in BOOLEAN
    /\ orGoal \in {"none", "active", "complete"}
    /\ orTask \in [OrTasks -> {"none", "pending", "dispatched"} \cup OrSettled]
    /\ orMarker \subseteq OrTasks
    /\ orRecord \in [state : OrSeen, retry : 0..OrMaxResumes]
    /\ orAdvance \in [1..OrPhases -> {"none", "dispatched", "verified", "dispatched_no_working",
                                      "rolled_back"}]
    /\ orKeys \subseteq OrKeys
    /\ orLost \in 0..OrLosses
    /\ orSweep \in OrSweeps
    /\ orSetting \in OrSettings

\* What was typed last has a key, what is to be marked is a task, and the tasks the sweep
\* may send are on its list only while it sends them.
OrTypedAt == {"resume typed", "phase typed", "task typed"}
OrAimed ==
    /\ orSweep.at \in OrTypedAt => OrPending \in OrKeys
    /\ orSweep.at = "mark" => orSweep.task \in OrTasks
    /\ orSweep.ready # {} => orSweep.at \in {"dispatch", "task typed", "mark"}

\* What was typed has its key recorded, awaits it, or lost it.
OrAwaits(key) == orSweep.at \in OrTypedAt /\ key = OrPending
OrCounted ==
    /\ orTyped \in [OrKeys -> Nat]
    /\ \A key \in OrKeys :
          /\ orTyped[key] <= orLost + 1
          /\ key \notin orKeys /\ ~OrAwaits(key) => orTyped[key] <= orLost

\* The tasks in the sweep's hands, and those that were or are about to be sent: what they
\* depend on is settled, and is not about to be marked as dispatched.
OrHeld == orSweep.ready \cup (IF orSweep.at \in {"task typed", "mark"} THEN {orSweep.task} ELSE {})
OrBegun(t) ==
    \/ \E n \in 0..OrMaxResumes : orTyped[<<"task", t, n>>] > 0
    \/ orTask[t] = "dispatched"
    \/ t \in OrHeld
OrOrdered ==
    \A t \in OrTasks : OrBegun(t) => \A u \in OrDepends[t] : orTask[u] \in OrSettled /\ u \notin OrHeld

OrIInv == OrForm /\ OrAimed /\ OrCounted /\ OrOrdered

LEMMA OrNumbers == 0 \in 0..OrMaxResumes /\ OrMaxResumes \in Nat /\ OrLosses \in Nat
BY OrAssumption

LEMMA OrRestsForm == OrResting \in OrSweeps /\ OrResting.at = "rest" /\ OrResting.ready = {}
BY OrNumbers DEF OrResting, OrSweeps, OrSteps, OrSeen

LEMMA OrRetryForm == ASSUME OrForm PROVE OrRetry \in 0..OrMaxResumes
BY OrNumbers DEF OrForm, OrRetry

LEMMA OrTaskKeys ==
    ASSUME NEW t \in OrTasks, NEW n \in 0..OrMaxResumes PROVE <<"task", t, n>> \in OrKeys
BY DEF OrKeys

----------------------------------------------------------------------------
(* What a step does to the sweep *)

\* The steps that begin a delivery, with what was typed to be keyed next.
LEMMA OrSends ==
    ASSUME OrForm, OrAimed, OrResumes \/ OrAdvances \/ OrDispatches
    PROVE  /\ orSweep' \in OrSweeps /\ OrAimed'
           /\ orAgent' \in [state : {"working", "idle"}, fresh : BOOLEAN]
           /\ \/ UNCHANGED orTyped /\ orSweep'.at \notin OrTypedAt
              \/ /\ orSweep'.at \in OrTypedAt /\ OrPending' \notin orKeys
                 /\ orTyped' = [orTyped EXCEPT ![OrPending'] = @ + 1]
<1>1. orSweep \in OrSweeps /\ orAgent \in [state : {"working", "idle"}, fresh : BOOLEAN]
  BY DEF OrForm
<1>2. CASE OrResumes
  <2>1. PICK t \in OrAssigned :
          \/ /\ OrSkips(<<"task", t, OrRetry + 1>>)
             /\ orSweep' = [orSweep EXCEPT !.at = "save", !.retry = OrRetry + 1, !.task = t]
          \/ /\ OrTypes(<<"task", t, OrRetry + 1>>)
             /\ orSweep' = [orSweep EXCEPT !.at = "resume typed", !.retry = OrRetry + 1, !.task = t]
    BY <1>2 DEF OrResumes
  <2>2. t \in OrTasks /\ OrRetry + 1 \in 0..OrMaxResumes /\ orSweep.ready = {}
    <3>1. t \in OrTasks
      BY DEF OrAssigned
    <3>2. OrRetry < OrMaxResumes /\ orSweep.at = "evaluate"
      BY <1>2 DEF OrResumes
    <3>3. OrRetry + 1 \in 0..OrMaxResumes
      BY <3>2, OrRetryForm, OrNumbers
    <3>4. orSweep.ready = {}
      BY <3>2 DEF OrAimed
    <3>5. QED
      BY <3>1, <3>3, <3>4
  <2>3. PICK r \in 0..OrMaxResumes : r = OrRetry + 1
    BY <2>2
  <2>4. CASE OrSkips(<<"task", t, r>>) /\ orSweep' = [orSweep EXCEPT !.at = "save", !.retry = r, !.task = t]
    <3>1. orSweep' \in OrSweeps /\ orSweep'.at = "save" /\ orSweep'.ready = {}
      BY <1>1, <2>2, <2>4 DEF OrSweeps, OrSteps
    <3>2. QED
      BY <1>1, <2>4, <3>1 DEF OrAimed, OrTypedAt, OrSkips
  <2>5. CASE OrTypes(<<"task", t, r>>) /\ orSweep' = [orSweep EXCEPT !.at = "resume typed", !.retry = r, !.task = t]
    <3>1. /\ orSweep' \in OrSweeps /\ orSweep'.at = "resume typed" /\ orSweep'.ready = {}
          /\ orSweep'.retry = r /\ orSweep'.task = t
      BY <1>1, <2>2, <2>5 DEF OrSweeps, OrSteps
    <3>2. OrPending' = <<"task", t, r>>
      BY <3>1 DEF OrPending
    <3>3. OrAimed'
      BY <2>2, <3>1, <3>2, OrTaskKeys DEF OrAimed
    <3>4. orAgent' \in [state : {"working", "idle"}, fresh : BOOLEAN]
      BY <1>1, <2>5 DEF OrTypes
    <3>5. QED
      BY <2>5, <3>1, <3>2, <3>3, <3>4 DEF OrTypes, OrTypedAt
  <2>6. QED
    BY <2>1, <2>3, <2>4, <2>5
<1>3. CASE OrAdvances
  <2>1. CASE UNCHANGED <<orAgent, orTyped>> /\ \E a \in {"plan", "phase"} : orSweep' = [OrResting EXCEPT !.at = a]
    <3>1. orSweep' \in OrSweeps /\ orSweep'.at \in {"plan", "phase"} /\ orSweep'.ready = {}
      BY <2>1, OrNumbers DEF OrResting, OrSweeps, OrSteps, OrSeen
    <3>2. QED
      BY <1>1, <2>1, <3>1 DEF OrAimed, OrTypedAt
  <2>2. CASE OrMayAdvance /\ OrTypes(<<"phase", 2, 0>>) /\ orSweep' = [OrResting EXCEPT !.at = "phase typed"]
    <3>1. orSweep' \in OrSweeps /\ orSweep'.at = "phase typed" /\ orSweep'.ready = {}
      BY <2>2, OrNumbers DEF OrResting, OrSweeps, OrSteps, OrSeen
    <3>2. OrPending' = <<"phase", 2, 0>>
      BY <3>1 DEF OrPending
    <3>3. <<"phase", 2, 0>> \in OrKeys
      <4>1. 2 \in 1..OrPhases
        <5>1. OrPhases >= 2
          BY <2>2 DEF OrMayAdvance
        <5>2. OrPhases \in Nat
          BY OrAssumption
        <5>3. QED
          BY <5>1, <5>2
      <4>2. QED
        BY <4>1 DEF OrKeys
    <3>4. OrAimed'
      BY <3>1, <3>2, <3>3 DEF OrAimed
    <3>5. orAgent' \in [state : {"working", "idle"}, fresh : BOOLEAN]
      BY <1>1, <2>2 DEF OrTypes
    <3>6. QED
      BY <2>2, <3>1, <3>2, <3>4, <3>5 DEF OrTypes, OrTypedAt
  <2>3. QED
    BY <1>3, <2>1, <2>2 DEF OrAdvances, OrSkips
<1>4. CASE OrDispatches
  <2>1. CASE orSweep' = [OrResting EXCEPT !.at = "count"] /\ UNCHANGED <<orAgent, orTyped>>
    <3>1. orSweep' \in OrSweeps /\ orSweep'.at = "count" /\ orSweep'.ready = {}
      BY <2>1, OrNumbers DEF OrResting, OrSweeps, OrSteps, OrSeen
    <3>2. QED
      BY <1>1, <2>1, <3>1 DEF OrAimed, OrTypedAt
  <2>2. ASSUME NEW t \in orSweep.ready, NEW a \in {"mark", "dispatch"}, UNCHANGED <<orAgent, orTyped>>,
               orSweep' = [orSweep EXCEPT !.at = a, !.task = t, !.ready = @ \ {t}]
        PROVE  /\ orSweep' \in OrSweeps /\ OrAimed' /\ orSweep'.at \notin OrTypedAt
    <3>1. t \in OrTasks /\ orSweep.ready \ {t} \subseteq OrTasks
      BY <1>1 DEF OrSweeps
    <3>2. orSweep' \in OrSweeps /\ orSweep'.at = a /\ orSweep'.task = t
      BY <1>1, <2>2, <3>1 DEF OrSweeps, OrSteps
    <3>3. QED
      BY <3>1, <3>2 DEF OrAimed, OrTypedAt
  <2>3. ASSUME NEW t \in orSweep.ready, OrTypes(<<"task", t, 0>>),
               orSweep' = [orSweep EXCEPT !.at = "task typed", !.task = t, !.ready = @ \ {t}]
        PROVE  /\ orSweep' \in OrSweeps /\ OrAimed' /\ orSweep'.at \in OrTypedAt
               /\ OrPending' = <<"task", t, 0>>
               /\ orAgent' \in [state : {"working", "idle"}, fresh : BOOLEAN]
    <3>1. t \in OrTasks /\ orSweep.ready \ {t} \subseteq OrTasks
      BY <1>1 DEF OrSweeps
    <3>2. orSweep' \in OrSweeps /\ orSweep'.at = "task typed" /\ orSweep'.task = t
      BY <1>1, <2>3, <3>1 DEF OrSweeps, OrSteps
    <3>3. OrPending' = <<"task", t, 0>>
      BY <3>2 DEF OrPending
    <3>4. OrAimed'
      BY <3>1, <3>2, <3>3, OrTaskKeys, OrNumbers DEF OrAimed
    <3>5. orAgent' \in [state : {"working", "idle"}, fresh : BOOLEAN]
      BY <1>1, <2>3 DEF OrTypes
    <3>6. QED
      BY <3>2, <3>3, <3>4, <3>5 DEF OrTypedAt
  <2>4. QED
    BY <1>1, <1>4, <2>1, <2>2, <2>3 DEF OrDispatches, OrSkips, OrTypes
<1>5. QED
  BY <1>2, <1>3, <1>4

\* A key recorded, or lost.
LEMMA OrKeys1 ==
    ASSUME OrForm, OrAimed, OrRecordsKey
    PROVE  /\ orSweep' \in OrSweeps /\ OrAimed' /\ orSweep'.at \notin OrTypedAt
           /\ orSweep.at \in OrTypedAt
           /\ \/ orKeys' = orKeys \cup {OrPending} /\ orLost' = orLost
              \/ orKeys' = orKeys /\ orLost' = orLost + 1 /\ orLost < orSetting.losses
           /\ \/ orSweep.at = "task typed" /\ orSweep'.at \in {"mark", "dispatch"}
              \/ orSweep.at # "task typed" /\ orSweep'.at \notin {"mark", "task typed"}
           /\ orSweep'.ready = orSweep.ready /\ orSweep'.task = orSweep.task
<1>1. orSweep \in OrSweeps
  BY DEF OrForm
<1>2. ASSUME NEW from \in OrTypedAt, NEW after \in OrSteps, NEW failed \in OrSteps,
             OrKeyed(from, OrPending, after, failed)
      PROVE  /\ orSweep.at = from /\ orSweep'.at \in {after, failed}
             /\ orSweep' \in OrSweeps
             /\ orSweep'.ready = orSweep.ready /\ orSweep'.task = orSweep.task
             /\ \/ orKeys' = orKeys \cup {OrPending} /\ orLost' = orLost
                \/ orKeys' = orKeys /\ orLost' = orLost + 1 /\ orLost < orSetting.losses
  BY <1>1, <1>2 DEF OrKeyed, OrSweeps
<1>3. /\ {"save", "phase", "plan", "mark", "dispatch"} \subseteq OrSteps
      /\ {"resume typed", "phase typed", "task typed"} \subseteq OrTypedAt
  BY DEF OrSteps, OrTypedAt
<1>4. CASE OrKeyed("resume typed", OrPending, "save", "save")
  <2>1. orSweep.at = "resume typed" /\ orSweep'.at = "save" /\ orSweep.ready = {}
    BY <1>2, <1>3, <1>4 DEF OrAimed
  <2>2. QED
    BY <1>2, <1>3, <1>4, <2>1 DEF OrAimed, OrTypedAt
<1>5. CASE OrKeyed("phase typed", OrPending, "phase", "plan")
  <2>1. orSweep.at = "phase typed" /\ orSweep'.at \in {"phase", "plan"} /\ orSweep.ready = {}
    BY <1>2, <1>3, <1>5 DEF OrAimed
  <2>2. QED
    BY <1>2, <1>3, <1>5, <2>1 DEF OrAimed, OrTypedAt
<1>6. CASE OrKeyed("task typed", OrPending, "mark", "dispatch")
  <2>1. orSweep.at = "task typed" /\ orSweep'.at \in {"mark", "dispatch"}
    BY <1>2, <1>3, <1>6
  <2>2. orSweep.task \in OrTasks
    BY <2>1 DEF OrAimed, OrPending, OrTypedAt, OrKeys
  <2>3. QED
    BY <1>2, <1>3, <1>6, <2>1, <2>2 DEF OrAimed, OrTypedAt
<1>7. QED
  BY <1>4, <1>5, <1>6 DEF OrRecordsKey

\* The other steps of the sweep, and a stop.
OrQuietStep ==
    OrLooks \/ OrWatches \/ OrSaves \/ OrPhaseRecorded \/ OrCompletes \/ OrMarks \/ OrCounts \/ OrCloses
LEMMA OrGoesOn ==
    ASSUME OrForm, OrAimed, OrQuietStep \/ OrCrash
    PROVE  /\ orSweep' \in OrSweeps /\ OrAimed' /\ orSweep'.at \notin OrTypedAt \cup {"mark"}
           /\ OrCompletes \/ orSweep'.ready = {}
<1>1. orSweep \in OrSweeps
  BY DEF OrForm
<1>2. ASSUME NEW a \in OrSteps, orSweep' = [OrResting EXCEPT !.at = a]
      PROVE  orSweep' \in OrSweeps /\ orSweep'.at = a /\ orSweep'.ready = {}
  BY <1>2, OrNumbers DEF OrResting, OrSweeps, OrSeen
<1>3. CASE OrLooks
  <2>1. OrDerived \in OrSeen
    BY DEF OrDerived, OrSeen, OrForm
  <2>2. orSweep' \in OrSweeps /\ orSweep'.at = "evaluate" /\ orSweep'.ready = {}
    BY <1>3, <2>1, OrNumbers DEF OrLooks, OrResting, OrSweeps, OrSteps
  <2>3. QED
    BY <2>2 DEF OrAimed, OrTypedAt
<1>4. CASE OrWatches
  <2>1. orSweep' \in OrSweeps /\ orSweep'.at = "save" /\ orSweep'.ready = {}
    BY <1>1, <1>4, OrRetryForm DEF OrWatches, OrSweeps, OrSteps, OrAimed
  <2>2. QED
    BY <2>1 DEF OrAimed, OrTypedAt
<1>5. CASE OrSaves
  <2>1. orSweep' \in OrSweeps /\ orSweep'.at = "advance" /\ orSweep'.ready = {}
    BY <1>1, <1>5, OrNumbers DEF OrSaves, OrResting, OrSweeps, OrSteps
  <2>2. QED
    BY <2>1 DEF OrAimed, OrTypedAt
<1>6. CASE OrPhaseRecorded
  <2>1. orSweep.at \in {"phase", "verify"} /\ \E a \in {"verify", "plan"} : orSweep' = [orSweep EXCEPT !.at = a]
    BY <1>6 DEF OrPhaseRecorded, OrRecords
  <2>2. orSweep' \in OrSweeps /\ orSweep'.at \in {"verify", "plan"} /\ orSweep'.ready = {}
    BY <1>1, <2>1 DEF OrSweeps, OrSteps, OrAimed
  <2>3. QED
    BY <2>2 DEF OrAimed, OrTypedAt
<1>7. CASE OrCompletes
  <2>1. CASE orSweep' = OrResting
    BY <2>1, OrRestsForm DEF OrAimed, OrTypedAt
  <2>2. ASSUME NEW ready \in SUBSET OrTasks, orSweep' = [OrResting EXCEPT !.at = "dispatch", !.ready = ready]
        PROVE  orSweep' \in OrSweeps /\ orSweep'.at = "dispatch"
    BY <2>2, OrNumbers DEF OrResting, OrSweeps, OrSteps, OrSeen
  <2>3. CASE orSweep' # OrResting
    <3>1. orSweep' \in OrSweeps /\ orSweep'.at = "dispatch"
      <4> DEFINE tasks == [t \in OrTasks |-> IF orTask[t] = "dispatched" /\ t \in orMarker
                                             THEN "completed" ELSE orTask[t]]
                 ready == IF orRecord.state \in {"idle", "completed"}
                          THEN {t \in OrTasks : OrReady(tasks, t)} ELSE {}
      <4>1. orSweep' = [OrResting EXCEPT !.at = "dispatch", !.ready = ready]
        BY <1>7, <2>3 DEF OrCompletes
      <4>2. ready \in SUBSET OrTasks
        OBVIOUS
      <4> HIDE DEF ready
      <4>3. QED
        BY <2>2, <4>1, <4>2
    <3>2. QED
      BY <1>7, <3>1 DEF OrAimed, OrTypedAt
  <2>4. QED
    BY <2>1, <2>3, OrRestsForm
<1>8. CASE OrMarks
  <2>1. orSweep' = [OrResting EXCEPT !.at = "count"] /\ "count" \in OrSteps
    BY <1>8 DEF OrMarks, OrSteps
  <2>2. QED
    BY <1>2, <2>1 DEF OrAimed, OrTypedAt
<1>9. CASE OrCounts \/ OrCloses \/ OrCrash
  <2>1. CASE orSweep' = OrResting
    BY <2>1, OrRestsForm DEF OrAimed, OrTypedAt
  <2>2. CASE orSweep.at = "count" /\ orSweep' = [orSweep EXCEPT !.at = "close"]
    <3>1. orSweep' \in OrSweeps /\ orSweep'.at = "close" /\ orSweep'.ready = {}
      BY <1>1, <2>2 DEF OrSweeps, OrSteps, OrAimed
    <3>2. QED
      BY <3>1 DEF OrAimed, OrTypedAt
  <2>3. QED
    BY <1>9, <2>1, <2>2 DEF OrCounts, OrCloses, OrCrash
<1>10. QED
  BY <1>3, <1>4, <1>5, <1>6, <1>7, <1>8, <1>9 DEF OrQuietStep

\* The agent, the owner and time leave the sweep alone.
OrOutside ==
    \/ OrAgentWorks \/ OrAgentRests \/ OrReportAges \/ OrBudget \/ OrSetGoal
    \/ \E t \in OrTasks : OrAddTask(t) \/ OrSettles(t)
    \/ \E p \in 1..OrPhases : OrRollback(p)
    \/ \E key \in OrKeys : OrKeyLapses(key)
LEMMA OrAlone == OrOutside \/ UNCHANGED OrVars => orSweep' = orSweep
BY DEF OrOutside, OrAgentWorks, OrAgentRests, OrReportAges, OrBudget, OrSetGoal, OrAddTask, OrSettles,
       OrRollback, OrKeyLapses, OrVars

----------------------------------------------------------------------------
(* The three parts of the invariant *)

LEMMA OrCountedStep == ASSUME OrForm, OrAimed, OrCounted, OrNext PROVE OrCounted'
<1>1. orLost \in Nat /\ orTyped \in [OrKeys -> Nat]
  BY OrNumbers DEF OrForm, OrCounted
<1>2. ASSUME UNCHANGED <<orTyped, orKeys, orLost>>,
             orSweep.at \notin OrTypedAt \/ orSweep' = orSweep
      PROVE  OrCounted'
  BY <1>2 DEF OrCounted, OrAwaits, OrPending
<1>3. ASSUME UNCHANGED orTyped, orLost' = orLost + 1, UNCHANGED orKeys PROVE OrCounted'
  BY <1>1, <1>3 DEF OrCounted
<1>4. CASE OrResumes \/ OrAdvances \/ OrDispatches
  <2>1. orSweep.at \notin OrTypedAt /\ UNCHANGED <<orKeys, orLost>>
    BY <1>4 DEF OrResumes, OrAdvances, OrDispatches, OrTypedAt
  <2>2. CASE UNCHANGED orTyped
    BY <1>2, <2>1, <2>2
  <2>3. CASE /\ orSweep'.at \in OrTypedAt /\ OrPending' \notin orKeys
             /\ orTyped' = [orTyped EXCEPT ![OrPending'] = @ + 1]
    <3>1. PICK k : k = OrPending'
      OBVIOUS
    <3>2. /\ k \notin orKeys /\ orTyped' = [orTyped EXCEPT ![k] = @ + 1]
          /\ \A key \in OrKeys : ~OrAwaits(key)
      BY <2>1, <2>3, <3>1 DEF OrAwaits
    <3>3. \A key \in OrKeys : OrAwaits(key)' <=> key = k
      BY <2>3, <3>1 DEF OrAwaits
    <3>4. /\ orTyped' \in [OrKeys -> Nat]
          /\ \A key \in OrKeys : orTyped'[key] = IF key = k THEN orTyped[key] + 1 ELSE orTyped[key]
      <4>1. orTyped' = [key \in OrKeys |-> IF key = k THEN orTyped[k] + 1 ELSE orTyped[key]]
        BY <1>1, <3>2
      <4>2. \A key \in OrKeys : orTyped[key] \in Nat
        BY <1>1
      <4>3. \A key \in OrKeys : (IF key = k THEN orTyped[k] + 1 ELSE orTyped[key]) \in Nat
        BY <4>2
      <4>4. QED
        BY <4>1, <4>3
    <3>5. ASSUME NEW key \in OrKeys
          PROVE  /\ orTyped'[key] <= orLost' + 1
                 /\ key \notin orKeys' /\ ~OrAwaits(key)' => orTyped'[key] <= orLost'
      <4>1. /\ orTyped[key] <= orLost + 1
            /\ key \notin orKeys => orTyped[key] <= orLost
        BY <3>2 DEF OrCounted
      <4>2. CASE key = k
        BY <1>1, <2>1, <3>2, <3>3, <3>4, <4>1, <4>2
      <4>3. CASE key # k
        BY <1>1, <2>1, <3>4, <4>1, <4>3
      <4>4. QED
        BY <4>2, <4>3
    <3>6. QED
      BY <3>4, <3>5 DEF OrCounted
  <2>4. QED
    BY <1>4, <2>2, <2>3, OrSends
<1>5. CASE OrRecordsKey
  <2>1. UNCHANGED orTyped
    BY <1>5 DEF OrRecordsKey, OrKeyed
  <2>2. CASE orKeys' = orKeys \cup {OrPending} /\ orLost' = orLost
    BY <2>1, <2>2 DEF OrCounted, OrAwaits
  <2>3. QED
    BY <1>3, <1>5, <2>1, <2>2, OrKeys1
<1>6. CASE OrQuietStep
  <2>1. orSweep.at \notin OrTypedAt /\ UNCHANGED <<orTyped, orKeys, orLost>>
    BY <1>6 DEF OrQuietStep, OrLooks, OrWatches, OrSaves, OrPhaseRecorded, OrRecords, OrCompletes, OrMarks,
                OrCounts, OrCloses, OrTypedAt
  <2>2. QED
    BY <1>2, <2>1
<1>7. CASE OrCrash
  <2>1. UNCHANGED <<orTyped, orKeys>> /\ (orLost' = orLost + 1 \/ (orSweep.at \notin OrTypedAt /\ orLost' = orLost))
    BY <1>7 DEF OrCrash, OrTypedAt
  <2>2. QED
    BY <1>2, <1>3, <2>1
<1>8. ASSUME NEW k \in OrKeys, OrKeyLapses(k) PROVE OrCounted'
  <2>1. /\ orKeys' = orKeys \ {k} /\ orTyped' = [orTyped EXCEPT ![k] = 0]
        /\ UNCHANGED <<orLost, orSweep>>
    BY <1>8 DEF OrKeyLapses
  <2>2. \A key \in OrKeys : OrAwaits(key)' <=> OrAwaits(key)
    BY <2>1 DEF OrAwaits, OrPending
  <2>3. orTyped' \in [OrKeys -> Nat] /\ orTyped'[k] = 0 /\ \A key \in OrKeys : key # k => orTyped'[key] = orTyped[key]
    BY <1>1, <2>1
  <2>4. ASSUME NEW key \in OrKeys
        PROVE  /\ orTyped'[key] <= orLost' + 1
               /\ key \notin orKeys' /\ ~OrAwaits(key)' => orTyped'[key] <= orLost'
    <3>1. orLost' = orLost
      BY <2>1
    <3>2. CASE key = k
      BY <1>1, <2>3, <3>1, <3>2
    <3>3. CASE key # k
      <4>1. orTyped'[key] = orTyped[key] /\ (key \in orKeys' <=> key \in orKeys)
        BY <2>1, <2>3, <3>3
      <4>2. /\ orTyped[key] <= orLost + 1
            /\ key \notin orKeys /\ ~OrAwaits(key) => orTyped[key] <= orLost
        BY DEF OrCounted
      <4>3. QED
        BY <2>2, <3>1, <4>1, <4>2
    <3>4. QED
      BY <3>2, <3>3
  <2>5. QED
    BY <2>3, <2>4 DEF OrCounted
<1>9. CASE OrOutside /\ ~\E key \in OrKeys : OrKeyLapses(key)
  <2>1. UNCHANGED <<orTyped, orKeys, orLost>>
    BY <1>9 DEF OrOutside, OrAgentWorks, OrAgentRests, OrReportAges, OrBudget, OrSetGoal, OrAddTask, OrSettles,
                OrRollback
  <2>2. QED
    BY <1>2, <1>9, <2>1, OrAlone
<1>10. QED
  BY <1>4, <1>5, <1>6, <1>7, <1>8, <1>9 DEF OrNext, OrSweepStep, OrQuietStep, OrOutside

\* The tasks keep their order when nothing new is begun and nothing settled comes undone.
LEMMA OrOrderKept ==
    ASSUME OrOrdered,
           \A t \in OrTasks : OrBegun(t)' => OrBegun(t),
           \A u : orTask[u] \in OrSettled /\ u \notin OrHeld => orTask'[u] \in OrSettled /\ u \notin OrHeld'
    PROVE  OrOrdered'
BY DEF OrOrdered

LEMMA OrOrderedStep == ASSUME OrForm, OrAimed, OrCounted, OrOrdered, OrNext PROVE OrOrdered'
<1>1. /\ orTask \in [OrTasks -> {"none", "pending", "dispatched"} \cup OrSettled]
      /\ orTyped \in [OrKeys -> Nat] /\ orSweep \in OrSweeps
  BY DEF OrForm, OrCounted
<1>2. "dispatched" \notin OrSettled /\ "pending" \notin OrSettled /\ "none" \notin OrSettled
  BY DEF OrSettled
<1>3. ASSUME UNCHANGED <<orTask, orTyped>>, OrHeld' \subseteq OrHeld PROVE OrOrdered'
  <2>1. \A t \in OrTasks : OrBegun(t)' => OrBegun(t)
    BY <1>3 DEF OrBegun
  <2>2. QED
    BY <1>3, <2>1, OrOrderKept
<1>4. CASE OrResumes \/ OrAdvances \/ OrDispatches
  <2>1. UNCHANGED orTask
    BY <1>4 DEF OrResumes, OrAdvances, OrDispatches
  <2>2. OrHeld' \subseteq OrHeld
    <3>1. CASE OrResumes \/ OrAdvances
      <4>1. orSweep'.at \notin {"task typed", "mark"} /\ orSweep'.ready \subseteq orSweep.ready
        BY <1>1, <3>1 DEF OrResumes, OrAdvances, OrResting, OrSweeps
      <4>2. QED
        BY <4>1 DEF OrHeld
    <3>2. CASE OrDispatches
      <4>1. orSweep.at = "dispatch"
        BY <3>2 DEF OrDispatches
      <4>2. CASE orSweep' = [OrResting EXCEPT !.at = "count"]
        BY <4>2 DEF OrHeld, OrResting
      <4>3. ASSUME NEW t \in orSweep.ready, NEW a \in OrSteps,
                   orSweep' = [orSweep EXCEPT !.at = a, !.task = t, !.ready = @ \ {t}]
            PROVE  OrHeld' \subseteq OrHeld
        <5>1. orSweep'.task = t /\ orSweep'.ready = orSweep.ready \ {t}
          BY <1>1, <4>3 DEF OrSweeps
        <5>2. QED
          BY <5>1 DEF OrHeld
      <4>4. {"mark", "task typed", "dispatch"} \subseteq OrSteps
        BY DEF OrSteps
      <4>5. QED
        BY <3>2, <4>2, <4>3, <4>4 DEF OrDispatches
    <3>3. QED
      BY <1>4, <3>1, <3>2
  <2>3. \A t \in OrTasks : OrBegun(t)' => OrBegun(t)
    <3>1. SUFFICES ASSUME NEW t \in OrTasks, OrBegun(t)', ~OrBegun(t) PROVE FALSE
      OBVIOUS
    <3>2. PICK n \in 0..OrMaxResumes : orTyped'[<<"task", t, n>>] > 0
      BY <2>1, <2>2, <3>1 DEF OrBegun
    <3>3. ~(orTyped[<<"task", t, n>>] > 0) /\ <<"task", t, n>> \in OrKeys /\ orTask[t] # "dispatched" /\ t \notin OrHeld
      BY <3>1, <3>2, OrTaskKeys DEF OrBegun
    <3>4. PICK k : orTyped' = [orTyped EXCEPT ![k] = @ + 1] /\ k = OrPending'
      BY <1>4, <3>2, <3>3, OrSends
    <3>5. k = <<"task", t, n>>
      BY <1>1, <3>2, <3>3, <3>4
    <3>6. CASE OrResumes
      <4>1. PICK s \in OrAssigned : orTyped' = orTyped \/ orTyped' = [orTyped EXCEPT ![<<"task", s, OrRetry + 1>>] = @ + 1]
        BY <3>6 DEF OrResumes, OrSkips, OrTypes
      <4>2. orTyped' = [orTyped EXCEPT ![<<"task", s, OrRetry + 1>>] = @ + 1]
        BY <3>2, <3>3, <4>1
      <4>3. <<"task", s, OrRetry + 1>> = <<"task", t, n>>
        BY <1>1, <3>2, <3>3, <4>2
      <4>4. s = t
        BY <4>3
      <4>5. QED
        BY <3>3, <4>4 DEF OrAssigned
    <3>7. CASE OrAdvances
      <4>1. orTyped' = orTyped \/ orTyped' = [orTyped EXCEPT ![<<"phase", 2, 0>>] = @ + 1]
        BY <3>7 DEF OrAdvances, OrSkips, OrTypes
      <4>2. <<"phase", 2, 0>> # <<"task", t, n>>
        OBVIOUS
      <4>3. QED
        BY <1>1, <3>2, <3>3, <4>1, <4>2
    <3>8. CASE OrDispatches
      <4>1. orTyped' = orTyped \/ \E s \in orSweep.ready : orTyped' = [orTyped EXCEPT ![<<"task", s, 0>>] = @ + 1]
        BY <3>8 DEF OrDispatches, OrSkips, OrTypes
      <4>2. PICK s \in orSweep.ready : orTyped' = [orTyped EXCEPT ![<<"task", s, 0>>] = @ + 1]
        BY <3>2, <3>3, <4>1
      <4>3. <<"task", s, 0>> = <<"task", t, n>>
        BY <1>1, <3>2, <3>3, <4>2
      <4>4. s = t
        BY <4>3
      <4>5. QED
        BY <3>3, <4>4 DEF OrHeld
    <3>9. QED
      BY <1>4, <3>6, <3>7, <3>8
  <2>4. QED
    BY <2>1, <2>2, <2>3, OrOrderKept
<1>5. CASE OrRecordsKey
  <2>1. UNCHANGED <<orTask, orTyped>>
    BY <1>5 DEF OrRecordsKey, OrKeyed
  <2>2. OrHeld' \subseteq OrHeld
    BY <1>5, OrKeys1 DEF OrHeld
  <2>3. QED
    BY <1>3, <2>1, <2>2
<1>6. CASE OrLooks \/ OrWatches \/ OrSaves \/ OrPhaseRecorded \/ OrCounts \/ OrCloses \/ OrCrash
  <2>1. UNCHANGED <<orTask, orTyped>>
    BY <1>6 DEF OrLooks, OrWatches, OrSaves, OrPhaseRecorded, OrRecords, OrCounts, OrCloses, OrCrash
  <2>2. OrHeld' = {}
    <3>1. CASE OrCrash
      BY <3>1, OrRestsForm DEF OrCrash, OrHeld
    <3>2. CASE ~OrCrash
      <4>1. orSweep.at # "plan"
        BY <1>6, <3>2 DEF OrLooks, OrWatches, OrSaves, OrPhaseRecorded, OrRecords, OrCounts, OrCloses
      <4>2. ~OrCompletes
        BY <4>1 DEF OrCompletes
      <4>3. QED
        BY <1>6, <4>2, OrGoesOn DEF OrHeld, OrQuietStep, OrTypedAt
    <3>3. QED
      BY <3>1, <3>2
  <2>3. QED
    BY <1>3, <2>1, <2>2
<1>7. CASE OrCompletes
  <2> DEFINE tasks == [t \in OrTasks |-> IF orTask[t] = "dispatched" /\ t \in orMarker
                                         THEN "completed" ELSE orTask[t]]
  <2>1. orSweep.at = "plan" /\ UNCHANGED orTyped
    BY <1>7 DEF OrCompletes
  <2>2. OrHeld = {}
    BY <2>1 DEF OrHeld, OrAimed
  <2>3. CASE orTask' = orTask /\ orSweep' = OrResting
    <3>1. OrHeld' = {}
      BY <2>3, OrRestsForm DEF OrHeld, OrResting
    <3>2. QED
      BY <1>3, <2>1, <2>3, <3>1
  <2>4. CASE orTask' = tasks /\ \E ready \in SUBSET {t \in OrTasks : OrReady(tasks, t)} :
                                   orSweep' = [OrResting EXCEPT !.at = "dispatch", !.ready = ready]
    <3>1. PICK ready \in SUBSET {t \in OrTasks : OrReady(tasks, t)} :
            orSweep' = [OrResting EXCEPT !.at = "dispatch", !.ready = ready]
      BY <2>4
    <3>2. OrHeld' = ready
      BY <3>1 DEF OrHeld, OrResting
    <3>3. \A t \in OrTasks : /\ orTask[t] \in OrSettled => orTask'[t] \in OrSettled
                             /\ orTask'[t] = "dispatched" => orTask[t] = "dispatched"
      BY <1>1, <1>2, <2>4
    <3>4. \A t \in OrHeld' : orTask'[t] = "pending" /\ \A u \in OrDepends[t] : orTask'[u] \in OrSettled
      BY <2>4, <3>1, <3>2 DEF OrReady
    <3>5. \A t \in OrTasks : OrDepends[t] \subseteq OrTasks
      BY OrAssumption
    <3>6. \A t \in OrTasks : OrBegun(t)' => OrBegun(t) \/ t \in OrHeld'
      BY <2>1, <3>3 DEF OrBegun
    <3> HIDE DEF tasks
    <3>7. \A t \in OrTasks : OrBegun(t)' => \A u \in OrDepends[t] : orTask'[u] \in OrSettled
      BY <3>3, <3>4, <3>5, <3>6 DEF OrOrdered
    <3>8. \A u : orTask'[u] \in OrSettled => u \notin OrHeld'
      BY <1>2, <3>4
    <3>9. QED
      BY <3>7, <3>8 DEF OrOrdered
  <2>5. QED
    BY <1>7, <2>3, <2>4 DEF OrCompletes
<1>8. CASE OrMarks
  <2>1. /\ orSweep.at = "mark" /\ UNCHANGED orTyped /\ orSweep.task \in OrTasks
        /\ orTask' = [orTask EXCEPT ![orSweep.task] = "dispatched"]
    BY <1>8 DEF OrMarks, OrAimed
  <2>2. OrHeld' = {} /\ orSweep.task \in OrHeld
    BY <1>8, <2>1 DEF OrMarks, OrHeld, OrResting
  <2>3. \A t \in OrTasks : OrBegun(t)' => OrBegun(t)
    BY <1>1, <2>1, <2>2 DEF OrBegun
  <2>4. \A u : u # orSweep.task => orTask'[u] = orTask[u]
    BY <1>1, <2>1
  <2>5. QED
    BY <2>2, <2>3, <2>4, OrOrderKept
<1>9. ASSUME NEW t \in OrTasks, OrAddTask(t) \/ OrSettles(t) PROVE OrOrdered'
  <2>1. PICK status \in {"pending"} \cup OrSettled :
          /\ orTask' = [orTask EXCEPT ![t] = status] /\ orTask[t] \notin OrSettled
          /\ UNCHANGED <<orTyped, orSweep>>
    BY <1>2, <1>9 DEF OrAddTask, OrSettles
  <2>2. OrHeld' = OrHeld
    BY <2>1 DEF OrHeld
  <2>3. \A s \in OrTasks : OrBegun(s)' => OrBegun(s)
    BY <1>1, <1>2, <2>1, <2>2 DEF OrBegun
  <2>4. \A u : u # t => orTask'[u] = orTask[u]
    BY <1>1, <2>1
  <2>5. QED
    BY <2>1, <2>2, <2>3, <2>4, OrOrderKept
<1>10. ASSUME NEW k \in OrKeys, OrKeyLapses(k) PROVE OrOrdered'
  <2>1. orTyped' = [orTyped EXCEPT ![k] = 0] /\ UNCHANGED <<orTask, orSweep>>
    BY <1>10 DEF OrKeyLapses
  <2>2. \A key \in OrKeys : orTyped'[key] > 0 => orTyped[key] > 0
    BY <1>1, <2>1
  <2>3. OrHeld' = OrHeld
    BY <2>1 DEF OrHeld
  <2>4. \A t \in OrTasks : OrBegun(t)' => OrBegun(t)
    BY <2>1, <2>2, <2>3, OrTaskKeys DEF OrBegun
  <2>5. QED
    BY <2>1, <2>3, <2>4, OrOrderKept
<1>11. CASE \/ OrAgentWorks \/ OrAgentRests \/ OrReportAges \/ OrBudget \/ OrSetGoal
            \/ \E p \in 1..OrPhases : OrRollback(p)
  <2>1. UNCHANGED <<orTask, orTyped, orSweep>>
    BY <1>11 DEF OrAgentWorks, OrAgentRests, OrReportAges, OrBudget, OrSetGoal, OrRollback
  <2>2. OrHeld' = OrHeld
    BY <2>1 DEF OrHeld
  <2>3. QED
    BY <1>3, <2>1, <2>2
<1>12. QED
  BY <1>4, <1>5, <1>6, <1>7, <1>8, <1>9, <1>10, <1>11 DEF OrNext, OrSweepStep

LEMMA OrFormStep == ASSUME OrForm, OrAimed, OrNext PROVE OrForm' /\ OrAimed'
<1>1. orLost' \in 0..OrLosses
  <2>1. orLost' = orLost \/ (orLost < orSetting.losses /\ orLost' = orLost + 1)
    BY DEF OrNext, OrSweepStep, OrLooks, OrWatches, OrResumes, OrSaves, OrAdvances, OrPhaseRecorded, OrRecords,
           OrCompletes, OrDispatches, OrMarks, OrCounts, OrCloses, OrRecordsKey, OrKeyed, OrCrash,
           OrAgentWorks, OrAgentRests, OrReportAges, OrBudget, OrSetGoal, OrAddTask, OrSettles, OrRollback, OrKeyLapses
  <2>2. orSetting.losses \in 0..OrLosses /\ orLost \in 0..OrLosses
    BY OrAssumption DEF OrForm
  <2>3. QED
    BY <2>1, <2>2, OrNumbers
<1>2. orTask' \in [OrTasks -> {"none", "pending", "dispatched"} \cup OrSettled]
  <2>1. CASE orTask' = orTask \/ \E t \in OrTasks, status \in {"pending", "dispatched"} \cup OrSettled :
                                    orTask' = [orTask EXCEPT ![t] = status]
    BY <2>1 DEF OrForm
  <2>2. CASE OrCompletes
    BY <2>2 DEF OrCompletes, OrForm, OrSettled
  <2>3. CASE OrMarks
    BY <2>1, <2>3 DEF OrMarks, OrAimed
  <2>4. QED
    BY <2>1, <2>2, <2>3
       DEF OrNext, OrSweepStep, OrLooks, OrWatches, OrResumes, OrSaves, OrAdvances, OrPhaseRecorded, OrRecords,
           OrDispatches, OrCounts, OrCloses, OrRecordsKey, OrKeyed, OrCrash,
           OrAgentWorks, OrAgentRests, OrReportAges, OrBudget, OrSetGoal, OrAddTask, OrSettles, OrRollback, OrKeyLapses
<1>3. CASE OrSweepStep \/ OrCrash
  <2>1. orSweep' \in OrSweeps /\ OrAimed'
    BY <1>3, OrSends, OrKeys1, OrGoesOn DEF OrSweepStep, OrQuietStep
  <2>2. orAgent' \in [state : {"working", "idle"}, fresh : BOOLEAN]
    <3>1. CASE orAgent' = orAgent
      BY <3>1 DEF OrForm
    <3>2. QED
      BY <1>3, <3>1, OrSends
         DEF OrSweepStep, OrLooks, OrWatches, OrSaves, OrPhaseRecorded, OrRecords, OrCompletes, OrMarks, OrCounts,
             OrCloses, OrRecordsKey, OrKeyed, OrCrash
  <2>3. orKeys' \subseteq OrKeys
    <3>1. CASE orKeys' = orKeys
      BY <3>1 DEF OrForm
    <3>2. CASE OrRecordsKey
      BY <3>1, <3>2, OrKeys1 DEF OrForm, OrAimed
    <3>3. QED
      BY <1>3, <3>1, <3>2
         DEF OrSweepStep, OrLooks, OrWatches, OrResumes, OrSaves, OrAdvances, OrPhaseRecorded, OrRecords, OrCompletes,
             OrDispatches, OrMarks, OrCounts, OrCloses, OrCrash
  <2>4. orRecord' \in [state : OrSeen, retry : 0..OrMaxResumes]
    <3>1. CASE OrSaves
      BY <3>1 DEF OrSaves, OrForm, OrSweeps
    <3>2. CASE orRecord' = orRecord
      BY <3>2 DEF OrForm
    <3>3. QED
      BY <1>3, <3>1, <3>2
         DEF OrSweepStep, OrLooks, OrWatches, OrResumes, OrAdvances, OrPhaseRecorded, OrRecords, OrCompletes,
             OrDispatches, OrMarks, OrCounts, OrCloses, OrRecordsKey, OrKeyed, OrCrash
  <2>5. orAdvance' \in [1..OrPhases -> {"none", "dispatched", "verified", "dispatched_no_working", "rolled_back"}]
    <3>1. \/ orAdvance' = orAdvance
          \/ \E st \in {"dispatched", "verified", "dispatched_no_working"} : orAdvance' = [orAdvance EXCEPT ![2] = st]
      BY <1>3 DEF OrSweepStep, OrLooks, OrWatches, OrResumes, OrSaves, OrAdvances, OrPhaseRecorded, OrRecords,
                  OrCompletes, OrDispatches, OrMarks, OrCounts, OrCloses, OrRecordsKey, OrKeyed, OrCrash
    <3>2. QED
      BY <3>1 DEF OrForm
  <2>6. UNCHANGED <<orLocked, orMarker, orSetting>> /\ orGoal' \in {orGoal, "complete"}
    BY <1>3 DEF OrSweepStep, OrLooks, OrWatches, OrResumes, OrSaves, OrAdvances, OrPhaseRecorded, OrRecords,
                OrCompletes, OrDispatches, OrMarks, OrCounts, OrCloses, OrRecordsKey, OrKeyed, OrCrash
  <2>7. QED
    BY <1>1, <1>2, <2>1, <2>2, <2>3, <2>4, <2>5, <2>6 DEF OrForm
<1>4. CASE OrOutside
  <2>1. orSweep' = orSweep /\ orSweep' \in OrSweeps /\ OrAimed'
    BY <1>4, OrAlone DEF OrForm, OrAimed, OrPending
  <2>2. /\ orAgent' \in [state : {"working", "idle"}, fresh : BOOLEAN]
        /\ orMarker' \subseteq OrTasks
    <3>1. orAgent \in [state : {"working", "idle"}, fresh : BOOLEAN] /\ orMarker \subseteq OrTasks
      BY DEF OrForm
    <3>2. CASE UNCHANGED <<orAgent, orMarker>>
      BY <3>1, <3>2
    <3>3. CASE OrAgentWorks \/ OrReportAges
      BY <3>1, <3>3 DEF OrAgentWorks, OrReportAges
    <3>4. CASE OrAgentRests
      <4>1. PICK fresh \in {orSetting.advance, orAgent.fresh} : orAgent' = [state |-> "idle", fresh |-> fresh]
        BY <3>4 DEF OrAgentRests
      <4>2. fresh \in BOOLEAN
        BY <3>1, <4>1, OrAssumption DEF OrForm
      <4>3. orAgent' \in [state : {"working", "idle"}, fresh : BOOLEAN]
        BY <4>1, <4>2
      <4>4. orMarker' \subseteq OrTasks
        BY <3>1, <3>4 DEF OrAgentRests
      <4>5. QED
        BY <4>3, <4>4
    <3>5. QED
      BY <1>4, <3>2, <3>3, <3>4 DEF OrOutside, OrBudget, OrSetGoal, OrAddTask, OrSettles, OrRollback, OrKeyLapses
  <2>3. /\ orLocked' \in BOOLEAN /\ orGoal' \in {"none", "active", "complete"}
        /\ orRecord' \in [state : OrSeen, retry : 0..OrMaxResumes]
        /\ orKeys' \subseteq OrKeys /\ orSetting' \in OrSettings
    BY <1>4 DEF OrOutside, OrAgentWorks, OrAgentRests, OrReportAges, OrBudget, OrSetGoal, OrAddTask, OrSettles,
                OrRollback, OrKeyLapses, OrForm
  <2>4. orAdvance' \in [1..OrPhases -> {"none", "dispatched", "verified", "dispatched_no_working", "rolled_back"}]
    <3>1. orAdvance' = orAdvance \/ \E p \in 1..OrPhases : orAdvance' = [orAdvance EXCEPT ![p] = "rolled_back"]
      BY <1>4 DEF OrOutside, OrAgentWorks, OrAgentRests, OrReportAges, OrBudget, OrSetGoal, OrAddTask, OrSettles,
                  OrRollback, OrKeyLapses
    <3>2. QED
      BY <3>1 DEF OrForm
  <2>5. QED
    BY <1>1, <1>2, <2>1, <2>2, <2>3, <2>4 DEF OrForm
<1>5. QED
  BY <1>3, <1>4 DEF OrNext, OrOutside

LEMMA OrStep == OrIInv /\ [OrNext]_OrVars => OrIInv'
<1> SUFFICES ASSUME OrIInv, [OrNext]_OrVars PROVE OrIInv'
  OBVIOUS
<1>1. CASE OrNext
  BY <1>1, OrFormStep, OrCountedStep, OrOrderedStep DEF OrIInv
<1>2. CASE UNCHANGED OrVars
  <2>1. OrForm' /\ OrAimed'
    BY <1>2 DEF OrVars, OrIInv, OrForm, OrAimed, OrPending
  <2>2. OrCounted'
    BY <1>2 DEF OrVars, OrIInv, OrCounted, OrAwaits, OrPending
  <2>3. OrOrdered'
    BY <1>2 DEF OrVars, OrIInv, OrOrdered, OrBegun, OrHeld
  <2>4. QED
    BY <2>1, <2>2, <2>3 DEF OrIInv
<1>3. QED
  BY <1>1, <1>2

LEMMA OrInductive == OrSpec => []OrIInv
<1>1. OrInit => OrIInv
  <2> SUFFICES ASSUME OrInit PROVE OrIInv
    OBVIOUS
  <2>1. OrForm
    <3>1. orRecord \in [state : OrSeen, retry : 0..OrMaxResumes]
      BY OrNumbers DEF OrInit, OrSeen
    <3>2. orAgent \in [state : {"working", "idle"}, fresh : BOOLEAN]
      BY DEF OrInit
    <3>3. /\ orTask \in [OrTasks -> {"none", "pending", "dispatched"} \cup OrSettled]
          /\ orAdvance \in [1..OrPhases -> {"none", "dispatched", "verified", "dispatched_no_working",
                                            "rolled_back"}]
      BY DEF OrInit
    <3>4. orLost \in 0..OrLosses /\ orSweep \in OrSweeps
      BY OrNumbers, OrRestsForm DEF OrInit
    <3>5. orLocked \in BOOLEAN /\ orGoal \in {"none", "active", "complete"} /\ orMarker \subseteq OrTasks
      BY DEF OrInit
    <3>6. orKeys \subseteq OrKeys /\ orSetting \in OrSettings
      BY DEF OrInit
    <3>7. QED
      BY <3>1, <3>2, <3>3, <3>4, <3>5, <3>6 DEF OrForm
  <2>2. OrAimed /\ orSweep.at = "rest" /\ orSweep.ready = {}
    BY OrRestsForm DEF OrInit, OrAimed, OrTypedAt
  <2>3. OrCounted
    BY OrNumbers DEF OrInit, OrCounted
  <2>4. OrOrdered
    <3>1. ASSUME NEW t \in OrTasks PROVE ~OrBegun(t)
      <4>1. \A n \in 0..OrMaxResumes : orTyped[<<"task", t, n>>] = 0
        BY OrTaskKeys DEF OrInit
      <4>2. orTask[t] # "dispatched"
        BY DEF OrInit
      <4>3. OrHeld = {}
        BY <2>2 DEF OrHeld
      <4>4. ~(0 > 0)
        OBVIOUS
      <4>5. QED
        BY <4>1, <4>2, <4>3, <4>4 DEF OrBegun
    <3>2. QED
      BY <3>1 DEF OrOrdered
  <2>5. QED
    BY <2>1, <2>2, <2>3, <2>4 DEF OrIInv
<1>2. QED
  BY <1>1, OrStep, PTL DEF OrSpec

\* A task is typed only after the tasks it depends on are settled, and each delivery once
\* while its key lives, once more only when a key was never recorded: wherever the
\* service stops, whatever the owner settles, for any plan, any number of resumes,
\* phases and losses.
THEOREM TypedInOrder == OrSpec => []OrInv
<1>1. OrIInv => OrInv
  <2> SUFFICES ASSUME OrIInv PROVE OrInv
    OBVIOUS
  <2>1. \A t \in OrTasks, n \in 0..OrMaxResumes :
           orTyped[<<"task", t, n>>] > 0 => \A u \in OrDepends[t] : orTask[u] \in OrSettled
    BY DEF OrIInv, OrOrdered, OrBegun
  <2>2. \A key \in OrKeys : orTyped[key] <= 1 + orLost
    BY OrNumbers DEF OrIInv, OrCounted, OrForm
  <2>3. QED
    BY <2>1, <2>2 DEF OrInv
<1>2. QED
  BY <1>1, OrInductive, PTL

\* The record, the sweep, the keys and the counts of the orchestrator keep their types,
\* for any plan, any number of resumes, phases and losses.
THEOREM OrTypeCorrect == OrSpec => []OrTypeOK
<1>1. OrIInv => OrTypeOK
  <2> SUFFICES ASSUME OrIInv PROVE OrTypeOK
    OBVIOUS
  <2>1. ASSUME NEW key \in OrKeys PROVE orTyped[key] \in 0..OrLosses + 1
    BY OrNumbers DEF OrIInv, OrCounted, OrForm
  <2>2. orTyped \in [OrKeys -> 0..OrLosses + 1]
    BY <2>1 DEF OrIInv, OrCounted
  <2>3. QED
    BY <2>2 DEF OrIInv, OrForm, OrTypeOK, OrSweeps, OrSteps, OrSeen
<1>2. QED
  BY <1>1, OrInductive, PTL

----------------------------------------------------------------------------
(* The composition *)

\* Whatever part moves, each controller behaves by its own specification, so what is
\* proved of it holds of the composition.
LEMMA PartsBehave ==
    ControlSpec => TaskSpec /\ CwSpec /\ ApSpec /\ RcSpec /\ LfSpec /\ OrSpec
<1>1. ControlInit => TaskInit /\ CwInit /\ ApInit /\ RcInit /\ LfInit /\ OrInit
  BY DEF ControlInit
<1>2. [ControlNext]_ControlVars => [TaskNext]_TaskVars
  BY DEF ControlNext, ControlVars, TasksMoves, WatchdogMoves, AutopilotMoves, RotationMoves,
         LifecycleMoves, OrchestratorMoves
<1>3. [ControlNext]_ControlVars => [CwNext]_CwVars
  BY DEF ControlNext, ControlVars, TasksMoves, WatchdogMoves, AutopilotMoves, RotationMoves,
         LifecycleMoves, OrchestratorMoves
<1>4. [ControlNext]_ControlVars => [ApNext]_ApVars
  BY DEF ControlNext, ControlVars, TasksMoves, WatchdogMoves, AutopilotMoves, RotationMoves,
         LifecycleMoves, OrchestratorMoves
<1>5. [ControlNext]_ControlVars => [RcNext]_RcVars
  BY DEF ControlNext, ControlVars, TasksMoves, WatchdogMoves, AutopilotMoves, RotationMoves,
         LifecycleMoves, OrchestratorMoves
<1>6. [ControlNext]_ControlVars => [LfNext]_LfVars
  BY DEF ControlNext, ControlVars, TasksMoves, WatchdogMoves, AutopilotMoves, RotationMoves,
         LifecycleMoves, OrchestratorMoves
<1>7. [ControlNext]_ControlVars => [OrNext]_OrVars
  BY DEF ControlNext, ControlVars, TasksMoves, WatchdogMoves, AutopilotMoves, RotationMoves,
         LifecycleMoves, OrchestratorMoves
<1>8. QED
  BY <1>1, <1>2, <1>3, <1>4, <1>5, <1>6, <1>7, PTL
     DEF ControlSpec, TaskSpec, CwSpec, ApSpec, RcSpec, LfSpec, OrSpec

\* The tables of the controllers keep their types, whichever of them moves, for every
\* value of their constants.
THEOREM ControlTypes == ControlSpec => []ControlTypeOK
<1>1. TaskTypeOK /\ CwTypeOK /\ ApTypeOK /\ RcTypeOK /\ LfTypeOK /\ OrTypeOK => ControlTypeOK
  BY DEF ControlTypeOK
<1>2. QED
  BY <1>1, PartsBehave, TaskTypes, CwTypeCorrect, ApTypeCorrect, RcTypeCorrect, LfTypeCorrect,
     OrTypeCorrect, PTL
=============================================================================
