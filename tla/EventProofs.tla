---------------------------- MODULE EventProofs ----------------------------
(***************************************************************************)
(* Proofs about the two readers of the event log: the outbox that delivers *)
(* a notice of an event, and the CTO bridge that has it decided.           *)
(*                                                                         *)
(* Outbox, for every set of alerts, every choice of configured channels,   *)
(* any cap on the attempts and any number of stops: what a notice marked   *)
(* sent, a dead letter and a healthy push channel stand for, and that the  *)
(* outbox implements Mailbox.                                              *)
(*                                                                         *)
(* CtoBridge, for every sequence of events, any cap on the attempts and    *)
(* any number of stops and failures: no event is passed without a record,  *)
(* none is decided twice, and nothing is told that was not decided or that *)
(* awaits the owner.                                                       *)
(***************************************************************************)
EXTENDS Outbox, CtoBridge, FiniteSetTheorems, WellFoundedInduction, TLAPS

----------------------------------------------------------------------------
(* Numbers *)

\* A set of numbers that is not empty has a least one.
LEMMA Least ==
    ASSUME NEW S \in SUBSET Nat, S # {}
    PROVE  \E n \in S : \A m \in S : n <= m
<1> DEFINE R == {ss \in Nat \X Nat : ss[1] < ss[2]}
<1>1. IsWellFoundedOn(R, Nat)
  BY NatLessThanWellFounded DEF OpToRel
<1> HIDE DEF R
<1>2. PICK x \in S : \A y \in S : ~ (<<y, x>> \in R)
  <2>1. S \subseteq Nat
    OBVIOUS
  <2>2. QED
    BY ONLY <1>1, <2>1, S # {}, WFMin, Zenon
<1>3. \A y \in S : ~ (y < x)
  BY <1>2 DEF R
<1>4. QED
  BY <1>3

\* And a bounded one has a greatest.
LEMMA Greatest ==
    ASSUME NEW b \in Nat, NEW S \in SUBSET (0..b), S # {}
    PROVE  \E n \in S : \A m \in S : m <= n
<1> DEFINE T == {b - n : n \in S}
<1>1. T \in SUBSET Nat /\ T # {}
  <2>1. \A n \in S : b - n \in Nat
    OBVIOUS
  <2>2. QED
    BY <2>1
<1>2. PICK t \in T : \A u \in T : t <= u
  BY <1>1, Least
<1>3. PICK n \in S : t = b - n
  OBVIOUS
<1>4. \A m \in S : b - n <= b - m
  BY <1>2, <1>3
<1>5. QED
  BY <1>4

----------------------------------------------------------------------------
(* The outbox *)

OxNoteRow == [key : OxKeys, state : {"pending", "sent", "failed", "dead_letter"}, attempts : Nat]
OxChannelRow == [state : OxHealth, mine : BOOLEAN]

OxBoxType == oxCast \in OxCasts /\ oxNote \in Seq(OxNoteRow)
OxSentType ==
    /\ oxChannel \in [OxChannels -> OxChannelRow]
    /\ oxProof \in [OxChannels -> {"none", "receipt", "refused"}]

\* Parts of OxInv.
SentHasReceipt == \A n \in OxIds : oxNote[n].state = "sent" => n \in oxReceipts
DeadIsExhausted == \A n \in OxIds : oxNote[n].state = "dead_letter" => oxNote[n].attempts >= OxMaxAttempts
\* What a refresh must know to keep a refusal: it was this runtime's.
PushIsProven ==
    LET c == oxChannel["owner_push"] IN
    /\ c.mine /\ c.state = "healthy" => oxProof["owner_push"] = "receipt"
    /\ oxProof["owner_push"] = "refused" => c.mine /\ c.state = "unhealthy"

OxIInv == OxBoxType /\ OxSentType /\ SentHasReceipt /\ DeadIsExhausted /\ PushIsProven

LEMMA OxInitInv == OxInit => OxIInv
<1> SUFFICES ASSUME OxInit PROVE OxIInv
  OBVIOUS
<1>1. OxBoxType /\ OxSentType
  BY DEF OxInit, OxBoxType, OxSentType, OxChannelRow, OxHealth
<1>2. SentHasReceipt /\ DeadIsExhausted
  BY DEF OxInit, SentHasReceipt, DeadIsExhausted, OxIds
<1>3. PushIsProven
  BY DEF OxInit, PushIsProven, OxChannels, OxTiers
<1>4. QED
  BY <1>1, <1>2, <1>3 DEF OxIInv

----------------------------------------------------------------------------
(* The notices *)

\* A queued notice is a pending one; those before it stay as they are.
LEMMA OxQueued ==
    ASSUME OxBoxType, NEW key \in OxKeys, oxNote' = OxEnqueued(key)
    PROVE  /\ oxNote' \in Seq(OxNoteRow)
           /\ \A n \in OxIds' : \/ n \in OxIds /\ oxNote'[n] = oxNote[n]
                                \/ oxNote'[n].state = "pending"
<1>1. CASE OxKept(key) # {}
  BY <1>1 DEF OxEnqueued, OxBoxType, OxIds
<1>2. CASE OxKept(key) = {}
  <2> DEFINE new == [key |-> key, state |-> "pending", attempts |-> 0]
  <2>1. new \in OxNoteRow /\ new.state = "pending" /\ oxNote' = Append(oxNote, new)
    BY <1>2 DEF OxEnqueued, OxNoteRow
  <2>2. QED
    BY <2>1 DEF OxBoxType, OxIds
<1>3. QED
  BY <1>1, <1>2

\* A tried notice is sent or failed, with one more attempt; the others stay.
LEMMA OxMarked ==
    ASSUME OxBoxType, NEW m, NEW o, OxMark(m, o)
    PROVE  /\ oxNote' \in Seq(OxNoteRow) /\ OxIds' = OxIds
           /\ \A n \in OxIds : n # m => oxNote'[n] = oxNote[n]
           /\ m \in OxIds => oxNote'[m].state = IF o = "none" THEN "failed" ELSE "sent"
<1>1. CASE m \notin OxIds
  <2>1. oxNote' = oxNote
    BY <1>1 DEF OxMark, OxBoxType, OxIds
  <2>2. QED
    BY <1>1, <2>1 DEF OxBoxType, OxIds
<1>2. CASE m \in OxIds
  <2> DEFINE row == IF o = "none"
                    THEN [oxNote[m] EXCEPT !.state = "failed", !.attempts = oxNote[m].attempts + 1]
                    ELSE [oxNote[m] EXCEPT !.state = "sent"]
  <2>1. oxNote[m] \in OxNoteRow
    BY <1>2 DEF OxBoxType, OxIds
  <2>2. row \in OxNoteRow /\ row.state = IF o = "none" THEN "failed" ELSE "sent"
    <3>1. CASE o = "none"
      <4>1. oxNote[m].attempts + 1 \in Nat
        BY <2>1 DEF OxNoteRow
      <4>2. QED
        BY <2>1, <3>1, <4>1 DEF OxNoteRow
    <3>2. CASE o # "none"
      BY <2>1, <3>2 DEF OxNoteRow
    <3>3. QED
      BY <3>1, <3>2
  <2>3. oxNote' = [oxNote EXCEPT ![m] = row]
    BY DEF OxMark
  <2> HIDE DEF row
  <2>4. QED
    BY <1>2, <2>2, <2>3 DEF OxBoxType, OxIds
<1>3. QED
  BY <1>1, <1>2

\* Sending a notice gives it a receipt when it is marked sent.
LEMMA DeliversBox ==
    ASSUME OxIInv, NEW m, NEW o, OxDelivers(m, o), oxCast' = oxCast, oxEvents' = oxEvents
    PROVE  OxBoxType' /\ SentHasReceipt' /\ DeadIsExhausted'
<1>1. /\ oxNote' \in Seq(OxNoteRow) /\ OxIds' = OxIds
      /\ \A n \in OxIds : n # m => oxNote'[n] = oxNote[n]
      /\ m \in OxIds => oxNote'[m].state = IF o = "none" THEN "failed" ELSE "sent"
  BY OxMarked DEF OxDelivers, OxIInv
<1>2. oxReceipts' = IF o = "none" THEN oxReceipts ELSE oxReceipts \cup {m}
  BY DEF OxDelivers
<1>3. OxKeys' = OxKeys
  BY DEF OxKeys
<1>4. OxBoxType'
  BY <1>1, <1>3 DEF OxBoxType, OxIInv, OxNoteRow
<1>5. SentHasReceipt'
  BY <1>1, <1>2 DEF SentHasReceipt, OxIInv
<1>6. DeadIsExhausted'
  BY <1>1 DEF DeadIsExhausted, OxIInv
<1>7. QED
  BY <1>4, <1>5, <1>6

----------------------------------------------------------------------------
(* The channels *)

LEMMA Push == "owner_push" \in OxChannels /\ "same_chat_wake" \in OxChannels
BY DEF OxChannels, OxTiers

\* A send writes the state of a channel and its proof together.
LEMMA DeliversSent ==
    ASSUME OxIInv, NEW m, NEW o, OxDelivers(m, o)
    PROVE  OxSentType' /\ PushIsProven'
<1>1. OxSentType'
  BY DEF OxDelivers, OxSentType, OxIInv, OxChannelRow, OxHealth
<1>2. PushIsProven'
  BY Push DEF OxDelivers, PushIsProven, OxIInv
<1>3. QED
  BY <1>1, <1>2

\* A refresh keeps what this runtime proved of the push channel.
LEMMA RefreshesSent ==
    ASSUME OxIInv, OxRefreshes
    PROVE  OxSentType' /\ PushIsProven'
<1>1. /\ oxChannel' = [c \in OxChannels |-> OxDerived(c)]
      /\ oxProof' = oxProof
  BY DEF OxRefreshes
<1>2. \A c \in OxChannels : OxDerived(c) \in OxChannelRow
  BY DEF OxDerived, OxIInv, OxSentType, OxChannelRow, OxHealth
<1>3. OxSentType'
  BY <1>1, <1>2 DEF OxSentType, OxIInv
<1>4. \/ OxDerived("owner_push") = [state |-> "unhealthy", mine |-> TRUE]
      \/ OxProven("owner_push") /\ OxDerived("owner_push") = oxChannel["owner_push"]
      \/ ~OxProven("owner_push") /\ OxDerived("owner_push") = [state |-> "unverified", mine |-> FALSE]
  BY DEF OxDerived
<1>5. PushIsProven'
  BY Push, <1>1, <1>4 DEF PushIsProven, OxIInv, OxProven
<1>6. QED
  BY <1>3, <1>5

----------------------------------------------------------------------------

LEMMA OxStepInv == OxIInv /\ [OxNext]_OxVars => OxIInv'
<1> SUFFICES ASSUME OxIInv, [OxNext]_OxVars PROVE OxIInv'
  OBVIOUS
<1> USE DEF OxIInv
<1>1. ASSUME UNCHANGED OxSent PROVE OxSentType' /\ PushIsProven'
  BY <1>1 DEF OxSent, OxSentType, PushIsProven
<1>2. ASSUME UNCHANGED <<oxCast, oxNote>>, oxReceipts \subseteq oxReceipts', oxEvents \subseteq oxEvents'
      PROVE  OxBoxType' /\ SentHasReceipt' /\ DeadIsExhausted'
  BY <1>2 DEF OxBoxType, SentHasReceipt, DeadIsExhausted, OxIds, OxNoteRow, OxKeys
<1>3. ASSUME NEW key \in OxKeys, oxNote' = OxEnqueued(key), oxCast' = oxCast,
             oxReceipts' = oxReceipts, oxEvents \subseteq oxEvents'
      PROVE  OxBoxType' /\ SentHasReceipt' /\ DeadIsExhausted'
  <2>1. OxKeys' = OxKeys
    BY <1>3 DEF OxKeys
  <2>2. OxBoxType'
    BY <1>3, <2>1, OxQueued DEF OxBoxType, OxNoteRow
  <2>3. SentHasReceipt' /\ DeadIsExhausted'
    BY <1>3, OxQueued DEF SentHasReceipt, DeadIsExhausted
  <2>4. QED
    BY <2>2, <2>3
<1>4. ASSUME NEW key \in oxCast.keys, NEW noted \in BOOLEAN, OxEmits(key, noted) PROVE OxIInv'
  <2>1. key \in OxKeys /\ oxEvents \subseteq oxEvents'
    BY <1>4 DEF OxKeys, OxEmits, OxAppends
  <2>2. oxNote' = OxEnqueued(key) \/ oxNote' = oxNote
    BY <1>4 DEF OxEmits
  <2>3. QED
    BY <1>1, <1>2, <1>3, <1>4, <2>1, <2>2 DEF OxEmits, OxSent
<1>5. CASE OxAgentMoves
  BY <1>1, <1>2, <1>5 DEF OxAgentMoves, OxBox, OxSent
<1>6. CASE OxRefreshes
  BY <1>2, <1>6, RefreshesSent DEF OxRefreshes, OxAppends
<1>7. CASE OxBuries
  <2> DEFINE m == OxNext1
  <2>1. /\ oxNote' = [oxNote EXCEPT ![m].state = "dead_letter"]
        /\ oxNote[m].attempts >= OxMaxAttempts
        /\ UNCHANGED <<oxCast, OxSent>>
    BY <1>7 DEF OxBuries
  <2> HIDE DEF m
  <2>2. /\ oxNote' \in Seq(OxNoteRow) /\ OxIds' = OxIds
        /\ \A n \in OxIds : n # m => oxNote'[n] = oxNote[n]
        /\ m \in OxIds => /\ oxNote'[m].state = "dead_letter"
                          /\ oxNote'[m].attempts = oxNote[m].attempts
    <3>1. CASE m \notin OxIds
      <4>1. oxNote' = oxNote
        BY <2>1, <3>1 DEF OxBoxType, OxIds
      <4>2. QED
        BY <3>1, <4>1 DEF OxBoxType, OxIds
    <3>2. CASE m \in OxIds
      <4> DEFINE row == [oxNote[m] EXCEPT !.state = "dead_letter"]
      <4>1. /\ row \in OxNoteRow /\ row.state = "dead_letter"
            /\ row.attempts = oxNote[m].attempts
        <5>1. oxNote[m] \in OxNoteRow
          BY <3>2 DEF OxBoxType, OxIds
        <5>2. QED
          BY <5>1 DEF OxNoteRow
      <4>2. oxNote' = [oxNote EXCEPT ![m] = row]
        BY <2>1
      <4> HIDE DEF row
      <4>3. QED
        BY <3>2, <4>1, <4>2 DEF OxBoxType, OxIds
    <3>3. QED
      BY <3>1, <3>2
  <2>3. OxKeys' = OxKeys
    BY <2>1 DEF OxKeys
  <2>4. OxBoxType'
    BY <2>1, <2>2, <2>3 DEF OxBoxType, OxNoteRow
  <2>5. SentHasReceipt'
    BY <2>1, <2>2 DEF SentHasReceipt, OxSent
  <2>6. DeadIsExhausted'
    BY <2>1, <2>2 DEF DeadIsExhausted
  <2>7. QED
    BY <1>1, <2>1, <2>4, <2>5, <2>6
<1>8. CASE OxDrained \/ OxNoNews \/ OxAlerts
  BY <1>1, <1>2, <1>8 DEF OxDrained, OxNoNews, OxAlerts, OxAppends, OxBox, OxSent
<1>9. CASE OxPings
  <2>1. OxKindOf \in OxKeys /\ oxEvents \subseteq oxEvents'
    BY <1>9 DEF OxPings, OxKindOf, OxKeys, OxKinds, OxAppends
  <2>2. QED
    BY <1>1, <1>3, <1>9, <2>1 DEF OxPings, OxSent
<1>10. ASSUME NEW o \in OxOutcomes, OxDrains(o) \/ OxPublishes(o) PROVE OxIInv'
  <2>1. OxDelivers(OxNext1, o) /\ UNCHANGED <<oxCast, oxEvents>>
    BY <1>10 DEF OxDrains, OxPublishes
  <2>2. QED
    BY <2>1, DeliversBox, DeliversSent
<1>11. ASSUME NEW lands \in BOOLEAN, OxStops(lands) PROVE OxIInv'
  <2>1. OxSentType'
    BY <1>11 DEF OxStops, OxSentType, OxChannelRow
  <2>2. PushIsProven'
    BY <1>11, Push DEF OxStops, OxSentType, PushIsProven, OxChannelRow
  <2>3. QED
    BY <1>2, <1>11, <2>1, <2>2 DEF OxStops, OxBox
<1>12. CASE UNCHANGED OxVars
  BY <1>1, <1>2, <1>12 DEF OxVars, OxBox, OxSent
<1>13. QED
  BY <1>4, <1>5, <1>6, <1>7, <1>8, <1>9, <1>10, <1>11, <1>12 DEF OxNext, OxTickStep

----------------------------------------------------------------------------
(* The types of the outbox *)

OxLogKeys == ((OxKeys \cup {"red"}) \X {0}) \cup {OxDeadKey(n) : n \in OxIds}
OxTables ==
    /\ oxEvents \subseteq OxLogKeys /\ oxReceipts \subseteq OxIds
    /\ oxAgent \in oxCast.states /\ oxPinged \in OxKinds \cup {"none"}
    /\ oxCount \in [moves : 0..oxCast.moves, stops : 0..oxCast.stops]
\* The notices of a tick exist; the pinger works on one of its own, of a kind it publishes.
OxAtWork ==
    /\ oxTick \in [at : {"rest", "drain", "bury", "ping", "deliver"}, todo : SUBSET OxIds, tries : 0..2]
    /\ oxTick.at = "deliver" => \E n \in OxIds : oxTick.todo = {n} /\ oxNote[n].key \in OxKinds
    /\ oxTick.at = "bury" => oxTick.todo # {}

LEMMA OxIdsAre == ASSUME OxBoxType PROVE OxIds = 1..Len(oxNote) /\ Len(oxNote) \in Nat
BY DEF OxBoxType, OxIds

\* The next notice is one of those to try.
LEMMA OxFirst == ASSUME OxBoxType, OxAtWork, oxTick.todo # {} PROVE OxNext1 \in oxTick.todo
<1>1. oxTick.todo \in SUBSET Nat
  BY OxIdsAre DEF OxAtWork
<1>2. \E n \in oxTick.todo : \A m \in oxTick.todo : n <= m
  BY <1>1, Least
<1>3. QED
  BY <1>2 DEF OxNext1

\* What is queued keeps the notices there are, and the pinger's is among them.
LEMMA OxQueuedKeys ==
    ASSUME OxBoxType, NEW key \in OxKeys, oxNote' = OxEnqueued(key)
    PROVE  /\ OxIds \subseteq OxIds' /\ \A n \in OxIds : oxNote'[n].key = oxNote[n].key
           /\ OxNoticeOf(key) \in OxIds' /\ oxNote'[OxNoticeOf(key)].key = key
<1>1. CASE OxKept(key) # {}
  <2>1. OxKept(key) \in SUBSET (0..Len(oxNote)) /\ Len(oxNote) \in Nat
    BY OxIdsAre DEF OxKept
  <2>2. \E n \in OxKept(key) : \A m \in OxKept(key) : m <= n
    BY <1>1, <2>1, Greatest
  <2>3. OxNoticeOf(key) \in OxKept(key)
    BY <1>1, <2>2 DEF OxNoticeOf
  <2>4. oxNote' = oxNote
    BY <1>1 DEF OxEnqueued
  <2>5. QED
    BY <2>3, <2>4 DEF OxKept, OxIds
<1>2. CASE OxKept(key) = {}
  <2> DEFINE new == [key |-> key, state |-> "pending", attempts |-> 0]
  <2>1. oxNote' = Append(oxNote, new) /\ OxNoticeOf(key) = Len(oxNote) + 1 /\ new.key = key
    BY <1>2 DEF OxEnqueued, OxNoticeOf
  <2> HIDE DEF new
  <2>2. QED
    BY <2>1 DEF OxBoxType, OxIds
<1>3. QED
  BY <1>1, <1>2

\* Sending and burying keep the notices and their keys.
LEMMA OxMarkedKeys ==
    ASSUME OxBoxType, NEW m,
           \/ \E o : OxMark(m, o)
           \/ oxNote' = [oxNote EXCEPT ![m].state = "dead_letter"]
    PROVE  OxIds' = OxIds /\ \A n \in OxIds : oxNote'[n].key = oxNote[n].key
<1>1. ASSUME NEW row, oxNote' = [oxNote EXCEPT ![m] = row], m \in OxIds => row.key = oxNote[m].key
      PROVE  OxIds' = OxIds /\ \A n \in OxIds : oxNote'[n].key = oxNote[n].key
  BY <1>1 DEF OxBoxType, OxIds
<1>2. m \in OxIds => oxNote[m] \in OxNoteRow
  BY DEF OxBoxType, OxIds
<1>3. CASE oxNote' = [oxNote EXCEPT ![m].state = "dead_letter"]
  BY <1>1, <1>2, <1>3 DEF OxNoteRow
<1>4. ASSUME NEW o, OxMark(m, o) PROVE OxIds' = OxIds /\ \A n \in OxIds : oxNote'[n].key = oxNote[n].key
  <2>1. CASE o = "none"
    <3>1. oxNote' = [oxNote EXCEPT ![m] = [@ EXCEPT !.state = "failed", !.attempts = oxNote[m].attempts + 1]]
      BY <1>4, <2>1 DEF OxMark
    <3>2. QED
      BY <1>1, <1>2, <3>1 DEF OxNoteRow
  <2>2. CASE o # "none"
    <3>1. oxNote' = [oxNote EXCEPT ![m] = [@ EXCEPT !.state = "sent"]]
      BY <1>4, <2>2 DEF OxMark
    <3>2. QED
      BY <1>1, <1>2, <3>1 DEF OxNoteRow
  <2>3. QED
    BY <2>1, <2>2
<1>5. QED
  BY <1>3, <1>4

LEMMA OxTypesStep == ASSUME OxIInv, OxTables, OxAtWork, [OxNext]_OxVars PROVE OxTables' /\ OxAtWork'
<1> USE DEF OxIInv
<1> DEFINE Kept == /\ oxCast' = oxCast /\ OxIds \subseteq OxIds'
                   /\ \A n \in OxIds : oxNote'[n].key = oxNote[n].key
<1>1. ASSUME Kept PROVE OxKeys' = OxKeys /\ OxLogKeys \subseteq OxLogKeys'
  BY <1>1 DEF OxKeys, OxLogKeys, OxDeadKey
<1>2. ASSUME Kept, oxTick' = oxTick PROVE OxAtWork'
  BY <1>2 DEF OxAtWork
<1>3. ASSUME Kept, oxEvents' = oxEvents, oxReceipts' = oxReceipts,
             UNCHANGED <<oxAgent, oxPinged, oxCount>>
      PROVE  OxTables'
  BY <1>1, <1>3 DEF OxTables
<1>4. ASSUME UNCHANGED <<oxCast, oxNote>> PROVE Kept
  BY <1>4 DEF OxIds
<1>5. ASSUME NEW key \in oxCast.keys, NEW noted \in BOOLEAN, OxEmits(key, noted)
      PROVE  OxTables' /\ OxAtWork'
  <2>1. key \in OxKeys /\ Kept
    <3>1. key \in OxKeys /\ oxCast' = oxCast /\ (oxNote' = OxEnqueued(key) \/ oxNote' = oxNote)
      BY <1>5 DEF OxKeys, OxEmits
    <3>2. QED
      BY <1>4, <3>1, OxQueuedKeys
  <2>2. OxAtWork'
    BY <1>2, <1>5, <2>1 DEF OxEmits
  <2>3. oxCount' \in [moves : 0..oxCast.moves, stops : 0..oxCast.stops]
    BY <1>5, OxAssumption DEF OxEmits, OxMoves, OxTables, OxBoxType
  <2>4. oxEvents' \subseteq OxLogKeys'
    <3>1. oxEvents' = oxEvents \cup {<<key, 0>>}
      BY <1>5 DEF OxEmits, OxAppends, OxKey
    <3>2. <<key, 0>> \in OxLogKeys
      BY <2>1 DEF OxLogKeys
    <3>3. QED
      BY <1>1, <2>1, <3>1, <3>2 DEF OxTables
  <2>5. QED
    BY <1>5, <2>1, <2>2, <2>3, <2>4 DEF OxEmits, OxSent, OxTables
<1>6. CASE OxAgentMoves
  <2>1. Kept /\ UNCHANGED <<oxTick, oxEvents, oxReceipts, oxPinged, oxCast>>
    BY <1>4, <1>6 DEF OxAgentMoves, OxBox, OxSent
  <2>2. oxCount' \in [moves : 0..oxCast.moves, stops : 0..oxCast.stops] /\ oxAgent' \in oxCast.states
    BY <1>6, OxAssumption DEF OxAgentMoves, OxMoves, OxTables, OxBoxType
  <2>3. QED
    BY <1>1, <1>2, <2>1, <2>2 DEF OxTables
<1>7. CASE OxRefreshes
  <2>1. Kept /\ UNCHANGED <<oxReceipts, oxPinged, oxCast, oxAgent, oxCount>>
    BY <1>4, <1>7 DEF OxRefreshes
  <2>2. oxEvents' \subseteq oxEvents \cup {<<"red", 0>>}
    BY <1>7 DEF OxRefreshes, OxAppends, OxKey
  <2>3. oxEvents' \subseteq OxLogKeys'
    BY <1>1, <2>1, <2>2 DEF OxTables, OxLogKeys
  <2>4. OxAtWork'
    <3>1. oxTick' = [oxTick EXCEPT !.at = "drain",
                       !.todo = {n \in OxIds : oxNote[n].state \in {"pending", "failed"}}] /\ OxIds' = OxIds
      BY <1>7 DEF OxRefreshes, OxIds
    <3>2. QED
      BY <3>1 DEF OxAtWork
  <2>5. QED
    BY <2>1, <2>3, <2>4 DEF OxTables
<1>8. CASE OxBuries
  <2>1. OxNext1 \in OxIds /\ oxTick.at = "drain"
    BY <1>8, OxFirst DEF OxBuries, OxAtWork
  <2>2. Kept /\ OxIds' = OxIds /\ oxTick.todo # {}
    BY <1>8, OxMarkedKeys DEF OxBuries
  <2>4. OxTables'
    BY <1>1, <1>8, <2>2 DEF OxBuries, OxSent, OxTables
  <2>5. oxTick' = [oxTick EXCEPT !.at = "bury"]
    BY <1>8 DEF OxBuries
  <2>6. OxAtWork'
    BY <2>1, <2>2, <2>5 DEF OxAtWork
  <2>7. QED
    BY <2>4, <2>6
<1>9. CASE OxDrained \/ OxNoNews
  <2>1. Kept /\ OxTables' /\ OxIds' = OxIds
    BY <1>3, <1>4, <1>9 DEF OxDrained, OxNoNews, OxBox, OxSent, OxIds
  <2>2. oxTick' = [oxTick EXCEPT !.at = "ping"] \/ oxTick' = [oxTick EXCEPT !.at = "rest"]
    BY <1>9 DEF OxDrained, OxNoNews
  <2>3. QED
    BY <2>1, <2>2 DEF OxAtWork
<1>10. CASE OxPings
  <2> DEFINE key == OxKindOf
  <2>1. key \in OxKinds /\ key \in OxKeys
    BY <1>10 DEF OxPings, OxKindOf, OxKinds, OxKeys
  <2>2. /\ oxNote' = OxEnqueued(key) /\ oxEvents' = oxEvents \cup {<<key, 0>>}
        /\ oxTick' = [at |-> "deliver", todo |-> {OxNoticeOf(key)}, tries |-> 2]
        /\ UNCHANGED <<oxCast, oxReceipts, oxAgent, oxPinged, oxCount>>
    BY <1>10 DEF OxPings, OxAppends, OxKey, OxSent
  <2> HIDE DEF key
  <2>3. Kept /\ OxNoticeOf(key) \in OxIds' /\ oxNote'[OxNoticeOf(key)].key = key
    BY <2>1, <2>2, OxQueuedKeys
  <2>4. <<key, 0>> \in OxLogKeys
    BY <2>1 DEF OxLogKeys
  <2>5. OxTables'
    BY <1>1, <2>2, <2>3, <2>4 DEF OxTables
  <2>6. OxAtWork'
    BY <2>1, <2>2, <2>3 DEF OxAtWork
  <2>7. QED
    BY <2>5, <2>6
<1>11. ASSUME NEW o \in OxOutcomes, OxDrains(o) \/ OxPublishes(o) PROVE OxTables' /\ OxAtWork'
  <2>1. OxNext1 \in oxTick.todo /\ OxNext1 \in OxIds
    <3>1. oxTick.todo # {}
      BY <1>11 DEF OxDrains, OxPublishes, OxAtWork
    <3>2. QED
      BY <3>1, OxFirst DEF OxAtWork
  <2>2. /\ oxCast' = oxCast /\ oxEvents' = oxEvents /\ OxMark(OxNext1, o)
        /\ oxReceipts' \subseteq oxReceipts \cup {OxNext1}
        /\ UNCHANGED <<oxAgent, oxCount>>
    BY <1>11 DEF OxDrains, OxPublishes, OxDelivers
  <2>3. Kept /\ OxIds' = OxIds
    BY <2>2, OxMarkedKeys
  <2>4. CASE OxDrains(o)
    <3>1. oxTick' = [oxTick EXCEPT !.todo = oxTick.todo \ {OxNext1}] /\ oxTick.at = "drain" /\ oxPinged' = oxPinged
      BY <2>4 DEF OxDrains, OxDone1
    <3>2. OxAtWork'
      BY <2>3, <3>1 DEF OxAtWork
    <3>3. QED
      BY <1>1, <2>1, <2>2, <2>3, <3>1, <3>2 DEF OxTables
  <2>5. CASE OxPublishes(o)
    <3>1. oxTick.at = "deliver" /\ oxNote[OxNext1].key \in OxKinds
      BY <2>1, <2>5 DEF OxPublishes, OxAtWork
    <3>2. oxPinged' \in {oxPinged, oxNote[OxNext1].key}
      BY <2>5 DEF OxPublishes
    <3>3. oxTick' = [at |-> "rest", todo |-> {}, tries |-> 0] \/ oxTick' = [oxTick EXCEPT !.tries = 1]
      BY <2>5 DEF OxPublishes
    <3>4. OxAtWork'
      BY <2>3, <3>3 DEF OxAtWork
    <3>5. QED
      BY <1>1, <2>1, <2>2, <2>3, <3>1, <3>2, <3>4 DEF OxTables
  <2>6. QED
    BY <1>11, <2>4, <2>5
<1>12. ASSUME NEW lands \in BOOLEAN, OxStops(lands) PROVE OxTables' /\ OxAtWork'
  <2>1. Kept /\ OxIds' = OxIds /\ UNCHANGED <<oxCast, oxEvents, oxAgent, oxPinged>>
    BY <1>4, <1>12 DEF OxStops, OxBox, OxIds
  <2>2. oxReceipts' \subseteq OxIds
    BY <1>12, OxFirst DEF OxStops, OxTables, OxAtWork
  <2>3. oxCount' \in [moves : 0..oxCast.moves, stops : 0..oxCast.stops]
    <3>1. oxCount.stops < oxCast.stops /\ oxCount' = [oxCount EXCEPT !.stops = @ + 1] /\ oxCast.stops \in Nat
      BY <1>12, OxAssumption DEF OxStops, OxBoxType
    <3>2. QED
      BY <3>1 DEF OxTables
  <2>4. OxAtWork'
    BY <1>12, <2>1 DEF OxStops, OxAtWork
  <2>5. QED
    BY <1>1, <2>1, <2>2, <2>3, <2>4 DEF OxTables
<1>13. CASE UNCHANGED OxVars
  <2>1. Kept /\ oxTick' = oxTick /\ UNCHANGED <<oxEvents, oxReceipts, oxAgent, oxPinged, oxCount>>
    BY <1>4, <1>13 DEF OxVars, OxBox, OxSent
  <2>2. QED
    BY <1>2, <1>3, <2>1
<1>14. ASSUME OxAlerts, oxTick.todo # {} PROVE OxTables' /\ OxAtWork'
  <2>1. OxNext1 \in OxIds
    BY <1>14, OxFirst DEF OxAtWork
  <2>2. Kept /\ OxIds' = OxIds
    BY <1>4, <1>14 DEF OxAlerts, OxIds
  <2>3. oxEvents' = oxEvents \cup {OxDeadKey(OxNext1)} /\ OxDeadKey(OxNext1) \in OxLogKeys
    BY <1>14, <2>1 DEF OxAlerts, OxAppends, OxLogKeys
  <2>4. OxTables'
    BY <1>1, <1>14, <2>2, <2>3 DEF OxAlerts, OxSent, OxTables
  <2>5. oxTick' = [oxTick EXCEPT !.at = "drain", !.todo = oxTick.todo \ {OxNext1}]
    BY <1>14 DEF OxAlerts
  <2>6. OxAtWork'
    BY <2>1, <2>2, <2>5 DEF OxAtWork
  <2>7. QED
    BY <2>4, <2>6
<1>15. oxTick.at = "bury" => oxTick.todo # {}
  BY DEF OxAtWork
<1>16. QED
  BY <1>5, <1>6, <1>7, <1>8, <1>9, <1>10, <1>11, <1>12, <1>13, <1>14, <1>15 DEF OxNext, OxTickStep, OxAlerts

\* A key in the log is of an alert, a published kind or a buried notice; a receipt is of a
\* notice there is; what the pinger holds is one notice of a kind it publishes.
THEOREM OxTypeCorrect == OxSpec => []OxTypeOK
<1>1. OxInit => OxTables /\ OxAtWork
  BY OxAssumption DEF OxInit, OxTables, OxAtWork, OxLogKeys, OxIds
<1>2. OxIInv /\ OxTables /\ OxAtWork => OxTypeOK
  BY DEF OxIInv, OxBoxType, OxSentType, OxNoteRow, OxChannelRow, OxTables, OxAtWork, OxLogKeys, OxTypeOK
<1>3. QED
  BY <1>1, <1>2, OxTypesStep, OxInitInv, OxStepInv, PTL DEF OxSpec

----------------------------------------------------------------------------
(* The outbox implements Mailbox *)

\* An alert is of a notice that was given up.
OxAlertIsOfDead == \A n \in OxIds : OxDeadKey(n) \in oxEvents => oxNote[n].state = "dead_letter"
\* What a tick still has to try was not given up, but for the notice it is giving up, and
\* between the ticks nothing is left.
OxToTry ==
    /\ oxTick.at = "bury" =>
         \A n \in oxTick.todo : IF n = OxNext1
              THEN oxNote[n].state = "dead_letter" /\ OxDeadKey(n) \notin oxEvents
              ELSE oxNote[n].state \in {"pending", "failed"}
    /\ oxTick.at = "drain" => \A n \in oxTick.todo : oxNote[n].state \in {"pending", "failed"}
    /\ oxTick.at = "deliver" => \A n \in oxTick.todo : oxNote[n].state # "dead_letter"
    /\ oxTick.at \in {"rest", "ping"} => oxTick.todo = {}
OxOpen == OxToTry /\ OxAlertIsOfDead

OxMailInv == OxIInv /\ OxTables /\ OxAtWork /\ OxOpen
OxMailMoves == [OxMail!Next]_(OxMail!vars)

LEMMA OxBoxIs ==
    ASSUME OxBoxType
    PROVE  /\ DOMAIN OxBoxOf = OxIds
           /\ \A n \in OxIds : OxBoxOf[n].state = oxNote[n].state /\ OxBoxOf[n].attempts = oxNote[n].attempts
BY DEF OxBoxOf

\* Nothing happens to the mailbox while the notices and the dead letters stay.
LEMMA OxMailRests ==
    ASSUME oxNote' = oxNote, \A n \in OxIds : OxDeadKey(n) \in oxEvents' <=> OxDeadKey(n) \in oxEvents
    PROVE  UNCHANGED <<OxBoxOf, OxTold>>
<1>1. OxIds' = OxIds
  BY DEF OxIds
<1>2. OxBoxOf' = OxBoxOf
  BY <1>1 DEF OxBoxOf
<1>3. QED
  BY <1>1, <1>2 DEF OxTold

\* The key of an event is no key of a dead letter.
LEMMA OxAppendsKey ==
    ASSUME OxBoxType, NEW key, OxAppends(OxKey(key))
    PROVE  \A n \in Nat \ {0} : OxDeadKey(n) \in oxEvents' <=> OxDeadKey(n) \in oxEvents
BY DEF OxAppends, OxKey, OxDeadKey

\* What is queued is posted, unless a notice of the key is kept.
LEMMA OxPosts ==
    ASSUME OxMailInv, NEW key, key \in OxKeys, OxAppends(OxKey(key)), oxNote' = OxEnqueued(key),
           oxReceipts' = oxReceipts
    PROVE  /\ OxMailMoves /\ OxNoticeOf(key) \in OxIds' /\ oxNote'[OxNoticeOf(key)].state # "dead_letter"
           /\ \A n \in OxIds : n \in OxIds' /\ oxNote'[n] = oxNote[n]
           /\ \A n \in OxIds' : OxDeadKey(n) \in oxEvents' => n \in OxIds /\ OxDeadKey(n) \in oxEvents
<1>1. OxBoxType /\ OxIds = 1..Len(oxNote) /\ Len(oxNote) \in Nat /\ oxEvents \subseteq OxLogKeys
  BY OxIdsAre DEF OxMailInv, OxIInv, OxTables
<1>2. \A n \in Nat \ {0} : OxDeadKey(n) \in oxEvents' <=> OxDeadKey(n) \in oxEvents
  BY <1>1, OxAppendsKey
<1>3. CASE OxKept(key) # {}
  <2>1. oxNote' = oxNote /\ OxIds' = OxIds
    BY <1>3 DEF OxEnqueued, OxIds
  <2>2. UNCHANGED <<OxBoxOf, OxTold>>
    BY <1>1, <1>2, <2>1, OxMailRests
  <2>3. OxKept(key) \in SUBSET (0..Len(oxNote))
    BY <1>1 DEF OxKept
  <2>4. \E n \in OxKept(key) : \A m \in OxKept(key) : m <= n
    BY <1>1, <1>3, <2>3, Greatest
  <2>5. OxNoticeOf(key) \in OxKept(key)
    BY <1>3, <2>4 DEF OxNoticeOf
  <2>6. \A n \in OxIds' : OxDeadKey(n) \in oxEvents' => n \in OxIds /\ OxDeadKey(n) \in oxEvents
    BY <1>1, <1>2, <2>1
  <2>7. QED
    BY <2>1, <2>2, <2>5, <2>6 DEF OxKept, OxMailMoves, OxMail!vars
<1>4. CASE OxKept(key) = {}
  <2> DEFINE new == [key |-> key, state |-> "pending", attempts |-> 0]
             row == [state |-> "pending", attempts |-> 0]
             N == Len(oxNote) + 1
  <2>1. oxNote' = Append(oxNote, new) /\ OxNoticeOf(key) = N
    BY <1>4 DEF OxEnqueued, OxNoticeOf
  <2>2. new.state = "pending" /\ new.attempts = 0
    OBVIOUS
  <2> HIDE DEF new
  <2>3. /\ OxIds' = OxIds \cup {N} /\ N \notin OxIds /\ N \in Nat \ {0}
        /\ oxNote'[N] = new /\ \A n \in OxIds : oxNote'[n] = oxNote[n]
    BY <1>1, <2>1 DEF OxIds, OxBoxType
  <2>4. OxBoxOf' = [n \in OxIds \cup {N} |-> IF n = N THEN row ELSE OxBoxOf[n]]
    BY <2>2, <2>3 DEF OxBoxOf
  <2>5. Append(OxBoxOf, row) = [n \in OxIds \cup {N} |-> IF n = N THEN row ELSE OxBoxOf[n]]
    <3>1. OxBoxOf \in Seq([state : {"pending", "sent", "failed", "dead_letter"}, attempts : Nat])
          /\ Len(OxBoxOf) = Len(oxNote)
      <4>1. \A n \in OxIds : oxNote[n] \in OxNoteRow
        BY <1>1 DEF OxBoxType
      <4>2. OxBoxOf = [n \in 1..Len(oxNote) |-> [state |-> oxNote[n].state, attempts |-> oxNote[n].attempts]]
        BY <1>1 DEF OxBoxOf
      <4>3. \A n \in 1..Len(oxNote) : [state |-> oxNote[n].state, attempts |-> oxNote[n].attempts]
                \in [state : {"pending", "sent", "failed", "dead_letter"}, attempts : Nat]
        BY <1>1, <4>1 DEF OxNoteRow
      <4>4. QED
        BY <1>1, <4>2, <4>3
    <3>2. DOMAIN Append(OxBoxOf, row) = 1..N /\ OxIds \cup {N} = 1..N
      BY <1>1, <3>1
    <3>3. \A n \in 1..N : Append(OxBoxOf, row)[n] = IF n = N THEN row ELSE OxBoxOf[n]
      BY <1>1, <3>1
    <3>4. QED
      BY <3>1, <3>2, <3>3
  <2>6. OxDeadKey(N) \notin oxEvents
    BY <1>1, <2>3 DEF OxLogKeys, OxDeadKey
  <2>7. OxTold' = OxTold
    BY <1>1, <1>2, <2>3, <2>6 DEF OxTold
  <2>8. OxMail!Post
    BY <2>4, <2>5, <2>7 DEF OxMail!Post
  <2>9. \A n \in OxIds' : OxDeadKey(n) \in oxEvents' => n \in OxIds /\ OxDeadKey(n) \in oxEvents
    BY <1>1, <1>2, <2>3, <2>6
  <2>10. QED
    BY <2>1, <2>2, <2>3, <2>8, <2>9 DEF OxMailMoves, OxMail!Next
<1>5. QED
  BY <1>3, <1>4

\* A try is a send or a failure of a notice that was not given up.
LEMMA OxTries ==
    ASSUME OxMailInv, NEW n \in OxIds, oxNote[n].state # "dead_letter", NEW o \in OxOutcomes,
           OxDelivers(n, o), oxEvents' = oxEvents
    PROVE  OxMailMoves
<1>1. OxBoxType /\ oxNote \in Seq(OxNoteRow) /\ OxIds = 1..Len(oxNote) /\ Len(oxNote) \in Nat /\ oxNote[n] \in OxNoteRow
  BY OxIdsAre DEF OxMailInv, OxIInv, OxBoxType, OxIds
<1>2. OxIds' = OxIds
  BY <1>1, OxMarked DEF OxDelivers
<1>3. OxTold' = OxTold
  BY <1>2 DEF OxTold
<1>4. DOMAIN OxBoxOf = OxIds /\ OxBoxOf[n] = [state |-> oxNote[n].state, attempts |-> oxNote[n].attempts]
  BY DEF OxBoxOf
<1>5. CASE o = "none"
  <2>1. oxNote' = [oxNote EXCEPT ![n] = [oxNote[n] EXCEPT !.state = "failed", !.attempts = oxNote[n].attempts + 1]]
    BY <1>5 DEF OxDelivers, OxMark
  <2>2. /\ oxNote'[n].state = "failed" /\ oxNote'[n].attempts = oxNote[n].attempts + 1
        /\ \A m \in OxIds \ {n} : oxNote'[m] = oxNote[m]
    BY <1>1, <2>1 DEF OxNoteRow
  <2>3. OxBoxOf' = [OxBoxOf EXCEPT ![n] = [state |-> "failed", attempts |-> oxNote[n].attempts + 1]]
    BY <1>2, <2>2 DEF OxBoxOf
  <2>4. oxReceipts' = oxReceipts
    BY <1>5 DEF OxDelivers
  <2>5. OxMail!Fail(n)
    BY <1>3, <1>4, <2>3, <2>4 DEF OxMail!Fail, OxMail!GivenUp
  <2>6. QED
    BY <1>4, <2>5 DEF OxMailMoves, OxMail!Next
<1>6. CASE o # "none"
  <2>1. oxNote' = [oxNote EXCEPT ![n] = [oxNote[n] EXCEPT !.state = "sent"]]
    BY <1>6 DEF OxDelivers, OxMark
  <2>2. /\ oxNote'[n].state = "sent" /\ oxNote'[n].attempts = oxNote[n].attempts
        /\ \A m \in OxIds \ {n} : oxNote'[m] = oxNote[m]
    BY <1>1, <2>1 DEF OxNoteRow
  <2>3. OxBoxOf' = [OxBoxOf EXCEPT ![n] = [state |-> "sent", attempts |-> oxNote[n].attempts]]
    BY <1>2, <2>2 DEF OxBoxOf
  <2>4. OxBoxOf' = [OxBoxOf EXCEPT ![n].state = "sent"]
    <3>1. PICK f, a, b : f = OxBoxOf /\ a = oxNote[n].attempts /\ b = oxNote[n].state
      OBVIOUS
    <3>2. f[n] = [state |-> b, attempts |-> a]
      BY <1>4, <3>1
    <3>3. [[state |-> b, attempts |-> a] EXCEPT !.state = "sent"] = [state |-> "sent", attempts |-> a]
      OBVIOUS
    <3>4. [f EXCEPT ![n].state = "sent"] = [f EXCEPT ![n] = [state |-> "sent", attempts |-> a]]
      BY <3>2, <3>3
    <3>5. QED
      BY <2>3, <3>1, <3>4
  <2>5. oxReceipts' = oxReceipts \cup {n}
    BY <1>6 DEF OxDelivers
  <2>6. OxMail!Send(n)
    BY <1>3, <1>4, <2>4, <2>5 DEF OxMail!Send, OxMail!GivenUp
  <2>7. QED
    BY <1>4, <2>6 DEF OxMailMoves, OxMail!Next
<1>7. QED
  BY <1>5, <1>6

\* A tick gives a notice up after its last try.
LEMMA OxBuriesMail ==
    ASSUME OxMailInv, OxBuries
    PROVE  OxMailMoves /\ OxOpen'
<1> DEFINE n == OxNext1
<1>1. OxBoxType /\ OxAtWork /\ OxOpen /\ OxIds = 1..Len(oxNote) /\ Len(oxNote) \in Nat /\ oxNote \in Seq(OxNoteRow)
  BY OxIdsAre DEF OxMailInv, OxIInv, OxBoxType
<1>2. /\ oxTick.at = "drain" /\ n \in oxTick.todo /\ oxNote[n].attempts >= OxMaxAttempts
      /\ oxNote' = [oxNote EXCEPT ![n].state = "dead_letter"]
      /\ oxReceipts' = oxReceipts /\ oxEvents' = oxEvents
      /\ oxTick' = [oxTick EXCEPT !.at = "bury"]
      /\ n = OxNext1
  BY <1>1, OxFirst DEF OxBuries, OxSent
<1> HIDE DEF n
<1>3. n \in OxIds /\ oxNote[n].state \in {"pending", "failed"} /\ oxNote[n] \in OxNoteRow
  BY <1>1, <1>2 DEF OxOpen, OxToTry, OxAlertIsOfDead, OxAtWork
<1>4. /\ oxNote'[n].state = "dead_letter" /\ oxNote'[n].attempts = oxNote[n].attempts
      /\ \A m \in OxIds \ {n} : oxNote'[m] = oxNote[m]
      /\ OxIds' = OxIds
  BY <1>1, <1>2, <1>3 DEF OxIds, OxNoteRow
<1>5. OxTold' = OxTold
  BY <1>2, <1>4 DEF OxTold, OxDeadKey
<1>6. OxBoxOf' = [OxBoxOf EXCEPT ![n] = [state |-> "dead_letter", attempts |-> oxNote[n].attempts]]
  BY <1>4 DEF OxBoxOf
<1>7. DOMAIN OxBoxOf = OxIds /\ OxBoxOf[n] = [state |-> oxNote[n].state, attempts |-> oxNote[n].attempts]
  BY <1>3 DEF OxBoxOf
<1>8. OxBoxOf' = [OxBoxOf EXCEPT ![n].state = "dead_letter"]
  <2>1. PICK f, a, b : f = OxBoxOf /\ a = oxNote[n].attempts /\ b = oxNote[n].state
    OBVIOUS
  <2>2. f[n] = [state |-> b, attempts |-> a]
    BY <1>7, <2>1
  <2>3. [[state |-> b, attempts |-> a] EXCEPT !.state = "dead_letter"] = [state |-> "dead_letter", attempts |-> a]
    OBVIOUS
  <2>4. [f EXCEPT ![n].state = "dead_letter"] = [f EXCEPT ![n] = [state |-> "dead_letter", attempts |-> a]]
    BY <2>2, <2>3
  <2>5. QED
    BY <1>6, <2>1, <2>4
<1>9. OxMail!GiveUp(n)
  BY <1>2, <1>3, <1>5, <1>7, <1>8 DEF OxMail!GiveUp
<1>10. OxOpen'
  <2>1. oxTick'.at = "bury" /\ oxTick'.todo = oxTick.todo
    BY <1>1, <1>2 DEF OxAtWork
  <2>2. OxNext1' = n
    BY <1>2, <2>1 DEF OxNext1
  <2>3. \A m \in oxTick.todo : m \in OxIds /\ oxNote[m].state \in {"pending", "failed"}
    BY <1>1, <1>2 DEF OxOpen, OxToTry, OxAlertIsOfDead, OxAtWork
  <2>4. OxDeadKey(n) \notin oxEvents
    BY <1>1, <1>3 DEF OxOpen, OxToTry, OxAlertIsOfDead
  <2>5. \A m \in OxIds : OxDeadKey(m)' = OxDeadKey(m)
    BY DEF OxDeadKey
  <2>6. QED
    BY <1>1, <1>2, <1>4, <2>1, <2>2, <2>3, <2>4, <2>5 DEF OxOpen, OxToTry, OxAlertIsOfDead
<1>11. QED
  BY <1>3, <1>7, <1>9, <1>10 DEF OxMailMoves, OxMail!Next

\* The inbox is told of the notice that was given up.
LEMMA OxAlertsMail ==
    ASSUME OxMailInv, OxAlerts
    PROVE  OxMailMoves /\ OxOpen'
<1> DEFINE n == OxNext1
<1>1. OxBoxType /\ OxAtWork /\ OxOpen /\ OxIds = 1..Len(oxNote) /\ Len(oxNote) \in Nat
  BY OxIdsAre DEF OxMailInv, OxIInv, OxBoxType
<1>2. /\ oxTick.at = "bury" /\ n \in oxTick.todo /\ oxNote' = oxNote /\ oxReceipts' = oxReceipts
      /\ oxEvents' = oxEvents \cup {OxDeadKey(n)} /\ OxIds' = OxIds
      /\ oxTick' = [oxTick EXCEPT !.at = "drain", !.todo = oxTick.todo \ {n}]
      /\ n = OxNext1
  BY <1>1, OxFirst DEF OxAlerts, OxAppends, OxSent, OxAtWork, OxIds
<1> HIDE DEF n
<1>3. n \in OxIds /\ oxNote[n].state = "dead_letter"
  BY <1>1, <1>2 DEF OxOpen, OxToTry, OxAlertIsOfDead, OxAtWork
<1>4. OxTold' = OxTold \cup {n} /\ OxBoxOf' = OxBoxOf
  BY <1>2, <1>3 DEF OxTold, OxBoxOf, OxDeadKey
<1>5. OxMail!Tell(n)
  BY <1>1, <1>2, <1>3, <1>4, OxBoxIs DEF OxMail!Tell, OxMail!GivenUp
<1>6. OxOpen'
  <2>1. oxTick'.at = "drain" /\ oxTick'.todo = oxTick.todo \ {n}
    BY <1>1, <1>2 DEF OxAtWork
  <2>2. \A m \in oxTick'.todo : oxNote[m].state \in {"pending", "failed"}
    BY <1>1, <1>2, <2>1 DEF OxOpen, OxToTry, OxAlertIsOfDead
  <2>3. \A m \in OxIds : OxDeadKey(m) \in oxEvents' => oxNote[m].state = "dead_letter"
    BY <1>1, <1>2, <1>3 DEF OxOpen, OxToTry, OxAlertIsOfDead, OxDeadKey
  <2>4. \A m \in OxIds : OxDeadKey(m)' = OxDeadKey(m)
    BY DEF OxDeadKey
  <2>5. QED
    BY <1>2, <2>1, <2>2, <2>3, <2>4 DEF OxOpen, OxToTry, OxAlertIsOfDead
<1>7. QED
  BY <1>1, <1>3, <1>5, <1>6, OxBoxIs DEF OxMailMoves, OxMail!Next

\* While no notice of the tick changes, what the tick has to try stays as it is.
LEMMA OxOpenStays ==
    ASSUME OxMailInv, oxTick' = oxTick,
           \A n \in OxIds : n \in OxIds' /\ oxNote'[n] = oxNote[n],
           \A n \in OxIds' : OxDeadKey(n) \in oxEvents' => n \in OxIds /\ OxDeadKey(n) \in oxEvents
    PROVE  OxOpen'
<1>1. OxOpen /\ oxTick.todo \subseteq OxIds
  BY DEF OxMailInv, OxAtWork
<1>2. OxNext1' = OxNext1
  BY DEF OxNext1
<1>3. \A n \in OxIds' : OxDeadKey(n)' = OxDeadKey(n)
  BY DEF OxDeadKey
<1>4. \A n \in oxTick.todo : n \in OxIds /\ oxNote'[n] = oxNote[n] /\ (OxDeadKey(n) \in oxEvents' => OxDeadKey(n) \in oxEvents)
  BY <1>1
<1>5. QED
  BY <1>1, <1>2, <1>3, <1>4 DEF OxOpen, OxToTry, OxAlertIsOfDead

LEMMA OxMailStep ==
    ASSUME OxMailInv, [OxNext]_OxVars PROVE OxMailInv' /\ OxMailMoves
<1>1. OxIInv' /\ OxTables' /\ OxAtWork'
  BY OxStepInv, OxTypesStep DEF OxMailInv
<1>2. OxBoxType /\ OxAtWork /\ OxOpen /\ OxTables /\ oxNote \in Seq(OxNoteRow)
      /\ OxIds = 1..Len(oxNote) /\ Len(oxNote) \in Nat
  BY OxIdsAre DEF OxMailInv, OxIInv, OxBoxType
<1>3. ASSUME UNCHANGED <<oxNote, oxEvents, oxReceipts>> PROVE OxMailMoves
  BY <1>3, OxMailRests DEF OxMailMoves, OxMail!vars
<1>s. ASSUME oxNote' = oxNote, \A n \in OxIds : OxDeadKey(n) \in oxEvents' <=> OxDeadKey(n) \in oxEvents
      PROVE  OxAlertIsOfDead'
  BY <1>2, <1>s DEF OxOpen, OxAlertIsOfDead, OxIds, OxDeadKey
<1>4. ASSUME NEW key \in oxCast.keys, NEW noted \in BOOLEAN, OxEmits(key, noted)
      PROVE  OxMailMoves /\ OxOpen'
  <2>1. /\ OxAppends(OxKey(key)) /\ key \in OxKeys
        /\ oxNote' = OxEnqueued(key) \/ oxNote' = oxNote
        /\ oxReceipts' = oxReceipts /\ oxTick' = oxTick
    BY <1>4 DEF OxEmits, OxSent, OxKeys
  <2>2. CASE oxNote' = OxEnqueued(key)
    <3>1. /\ OxMailMoves /\ \A n \in OxIds : n \in OxIds' /\ oxNote'[n] = oxNote[n]
          /\ \A n \in OxIds' : OxDeadKey(n) \in oxEvents' => n \in OxIds /\ OxDeadKey(n) \in oxEvents
      BY <2>1, <2>2, OxPosts
    <3>2. OxOpen'
      BY <2>1, <3>1, OxOpenStays
    <3>3. QED
      BY <3>1, <3>2
  <2>3. CASE oxNote' = oxNote
    <3>1. \A n \in OxIds : OxDeadKey(n) \in oxEvents' <=> OxDeadKey(n) \in oxEvents
      BY <1>2, <2>1, OxAppendsKey
    <3>2. OxMailMoves
      BY <2>1, <2>3, <3>1, OxMailRests DEF OxMailMoves, OxMail!vars
    <3>3. OxIds' = OxIds
      BY <2>3 DEF OxIds
    <3>4. OxOpen'
      BY <2>1, <2>3, <3>1, <3>3, OxOpenStays
    <3>5. QED
      BY <3>2, <3>4
  <2>4. QED
    BY <2>1, <2>2, <2>3
<1>5. ASSUME OxRefreshes PROVE OxMailMoves /\ OxOpen'
  <2>1. /\ oxNote' = oxNote /\ oxReceipts' = oxReceipts
        /\ oxTick' = [oxTick EXCEPT !.at = "drain",
                         !.todo = {n \in OxIds : oxNote[n].state \in {"pending", "failed"}}]
        /\ OxAppends(OxKey("red")) \/ oxEvents' = oxEvents
    BY <1>5 DEF OxRefreshes
  <2>2. \A n \in OxIds : OxDeadKey(n) \in oxEvents' <=> OxDeadKey(n) \in oxEvents
    BY <1>2, <2>1, OxAppendsKey
  <2>3. OxMailMoves
    BY <2>1, <2>2, OxMailRests DEF OxMailMoves, OxMail!vars
  <2>4. OxToTry'
    BY <1>2, <2>1 DEF OxToTry, OxAtWork
  <2>5. QED
    BY <1>s, <2>1, <2>2, <2>3, <2>4 DEF OxOpen
<1>6. ASSUME OxDrained \/ OxNoNews PROVE OxMailMoves /\ OxOpen'
  <2>1. UNCHANGED <<oxNote, oxEvents, oxReceipts>>
    BY <1>6 DEF OxDrained, OxNoNews, OxBox, OxSent
  <2>2. \/ oxTick' = [oxTick EXCEPT !.at = "ping"] /\ oxTick.todo = {}
        \/ oxTick' = [oxTick EXCEPT !.at = "rest"] /\ oxTick.at = "ping"
    BY <1>6 DEF OxDrained, OxNoNews
  <2>3. OxToTry'
    BY <1>2, <2>2 DEF OxOpen, OxToTry, OxAtWork
  <2>4. QED
    BY <1>3, <1>s, <2>1, <2>3 DEF OxOpen
<1>7. ASSUME OxPings PROVE OxMailMoves /\ OxOpen'
  <2> DEFINE key == OxKindOf
  <2>1. /\ OxAppends(OxKey(key)) /\ oxNote' = OxEnqueued(key) /\ key \in OxKeys /\ oxReceipts' = oxReceipts
        /\ oxTick' = [at |-> "deliver", todo |-> {OxNoticeOf(key)}, tries |-> 2]
    BY <1>7 DEF OxPings, OxSent, OxKindOf, OxKinds, OxKeys
  <2> HIDE DEF key
  <2>2. /\ OxMailMoves /\ oxNote'[OxNoticeOf(key)].state # "dead_letter"
        /\ \A n \in OxIds : n \in OxIds' /\ oxNote'[n] = oxNote[n]
        /\ \A n \in OxIds' : OxDeadKey(n) \in oxEvents' => n \in OxIds /\ OxDeadKey(n) \in oxEvents
    BY <2>1, OxPosts
  <2>3. OxToTry'
    BY <2>1, <2>2 DEF OxToTry
  <2>4. OxAlertIsOfDead'
    BY <1>2, <2>2 DEF OxOpen, OxAlertIsOfDead, OxDeadKey
  <2>5. QED
    BY <2>2, <2>3, <2>4 DEF OxOpen
<1>8. ASSUME NEW o \in OxOutcomes, OxDrains(o) \/ OxPublishes(o) PROVE OxMailMoves /\ OxOpen'
  <2> DEFINE n == OxNext1
  <2>1. n \in oxTick.todo /\ n \in OxIds
    <3>1. oxTick.todo # {}
      BY <1>2, <1>8 DEF OxDrains, OxPublishes, OxAtWork
    <3>2. QED
      BY <1>2, <3>1, OxFirst DEF OxAtWork
  <2>2. OxDelivers(n, o) /\ oxEvents' = oxEvents /\ OxMark(n, o)
    BY <1>8 DEF OxDrains, OxPublishes, OxDelivers
  <2>3. oxNote[n].state # "dead_letter"
    BY <1>2, <1>8, <2>1 DEF OxOpen, OxToTry, OxAlertIsOfDead, OxDrains, OxPublishes
  <2>4. /\ OxIds' = OxIds /\ \A m \in OxIds : m # n => oxNote'[m] = oxNote[m]
        /\ oxNote'[n].state = IF o = "none" THEN "failed" ELSE "sent"
    BY <1>2, <2>1, <2>2, OxMarked
  <2>5. ASSUME OxDrains(o) PROVE OxToTry'
    <3>1. oxTick' = [oxTick EXCEPT !.todo = oxTick.todo \ {n}] /\ oxTick.at = "drain"
      BY <2>5 DEF OxDrains, OxDone1
    <3>2. oxTick'.at = "drain" /\ oxTick'.todo = oxTick.todo \ {n}
      BY <1>2, <3>1 DEF OxAtWork
    <3> HIDE DEF n
    <3>3. \A m \in oxTick'.todo : m # n /\ m \in OxIds /\ oxNote[m].state \in {"pending", "failed"}
      BY <1>2, <3>1, <3>2 DEF OxOpen, OxToTry, OxAlertIsOfDead, OxAtWork
    <3>4. QED
      BY <2>4, <3>2, <3>3 DEF OxToTry
  <2>6. ASSUME OxPublishes(o) PROVE OxToTry'
    <3>1. \/ oxTick' = [at |-> "rest", todo |-> {}, tries |-> 0]
          \/ oxTick' = [oxTick EXCEPT !.tries = 1] /\ oxTick.at = "deliver"
      BY <2>6 DEF OxPublishes
    <3>2. oxTick.at = "deliver" => oxTick.todo = {n}
      BY <1>2, <2>1 DEF OxAtWork
    <3> HIDE DEF n
    <3>3. CASE oxTick' = [at |-> "rest", todo |-> {}, tries |-> 0]
      BY <3>3 DEF OxToTry
    <3>4. CASE oxTick' = [oxTick EXCEPT !.tries = 1] /\ oxTick.at = "deliver"
      <4>1. oxTick'.at = "deliver" /\ oxTick'.todo = {n}
        BY <1>2, <3>2, <3>4 DEF OxAtWork
      <4>2. QED
        BY <2>4, <4>1 DEF OxToTry
    <3>5. QED
      BY <3>1, <3>3, <3>4
  <2> HIDE DEF n
  <2>7. OxMailMoves
    BY <2>1, <2>2, <2>3, OxTries
  <2>8. OxAlertIsOfDead'
    BY <1>2, <2>1, <2>2, <2>3, <2>4 DEF OxOpen, OxAlertIsOfDead, OxDeadKey
  <2>9. QED
    BY <1>8, <2>5, <2>6, <2>7, <2>8 DEF OxOpen
<1>9. ASSUME NEW lands \in BOOLEAN, OxStops(lands) PROVE OxMailMoves /\ OxOpen'
  <2>1. UNCHANGED <<oxNote, oxEvents>> /\ oxTick' = [at |-> "rest", todo |-> {}, tries |-> 0]
    BY <1>9 DEF OxStops, OxBox
  <2>2. UNCHANGED <<OxBoxOf, OxTold>>
    BY <2>1, OxMailRests
  <2>3. OxOpen'
    BY <1>s, <2>1 DEF OxOpen, OxToTry
  <2>4. CASE ~ lands
    BY <1>9, <2>2, <2>3, <2>4 DEF OxStops, OxMailMoves, OxMail!vars
  <2>5. CASE lands
    <3> DEFINE n == OxNext1
    <3>1. n \in oxTick.todo /\ oxReceipts' = oxReceipts \cup {n} /\ oxTick.at # "bury"
      BY <1>2, <1>9, <2>5, OxFirst DEF OxStops
    <3> HIDE DEF n
    <3>2. n \in OxIds /\ oxNote[n].state # "dead_letter"
      BY <1>2, <3>1 DEF OxOpen, OxToTry, OxAlertIsOfDead, OxAtWork
    <3>3. OxMail!Forget(n)
      BY <1>2, <2>2, <3>1, <3>2, OxBoxIs DEF OxMail!Forget, OxMail!GivenUp
    <3>4. QED
      BY <1>2, <2>3, <3>2, <3>3, OxBoxIs DEF OxMailMoves, OxMail!Next
  <2>6. QED
    BY <2>4, <2>5
<1>10. ASSUME OxAgentMoves \/ UNCHANGED OxVars PROVE OxMailMoves /\ OxOpen'
  <2>1. UNCHANGED <<oxNote, oxEvents, oxReceipts, oxTick>>
    BY <1>10 DEF OxAgentMoves, OxVars, OxBox, OxSent
  <2>2. OxIds' = OxIds
    BY <2>1 DEF OxIds
  <2>3. OxOpen'
    BY <2>1, <2>2, OxOpenStays
  <2>4. QED
    BY <1>3, <2>1, <2>3
<1>11. OxMailMoves /\ OxOpen'
  BY <1>4, <1>5, <1>6, <1>7, <1>8, <1>9, <1>10, OxBuriesMail, OxAlertsMail DEF OxNext, OxTickStep
<1>12. QED
  BY <1>1, <1>11 DEF OxMailInv

LEMMA OxMailStart == ASSUME OxInit PROVE OxMailInv /\ OxMail!Init
<1>1. OxIInv
  BY OxInitInv
<1>2. OxIds = {} /\ oxNote = <<>> /\ oxReceipts = {} /\ oxTick = [at |-> "rest", todo |-> {}, tries |-> 0]
  BY DEF OxInit, OxIds
<1>3. OxTables /\ OxAtWork
  BY OxAssumption DEF OxInit, OxTables, OxAtWork, OxLogKeys, OxIds
<1>4. OxBoxOf = <<>> /\ OxTold = {}
  BY <1>2 DEF OxBoxOf, OxTold
<1>5. QED
  BY <1>1, <1>2, <1>3, <1>4 DEF OxMailInv, OxOpen, OxToTry, OxAlertIsOfDead, OxMail!Init

\* The outbox implements Mailbox, for any alerts, any configured channels, any cap on the
\* attempts and any number of stops: no step of a tick, of an emission or of a stop loses
\* a notice, marks one sent that was not received, gives one up before its tries are used
\* up, or tries one that was given up; the inbox is told of none that was not given up.
THEOREM OutboxIsAMailbox == OxSpec => ImplementsMailbox
<1>1. OxInit => OxMailInv /\ OxMail!Init
  BY OxMailStart
<1>2. ASSUME OxMailInv, [OxNext]_OxVars PROVE OxMailInv' /\ OxMailMoves
  BY <1>2, OxMailStep
<1>3. QED
  BY <1>1, <1>2, PTL DEF OxSpec, OxMailMoves, ImplementsMailbox, OxMail!Spec

----------------------------------------------------------------------------
(* The alerts that never come *)

OxTellsAll == Cardinality(OxUntold) <= oxCount.stops + OxDying

LEMMA UntoldFinite == ASSUME OxBoxType PROVE IsFiniteSet(OxUntold) /\ Cardinality(OxUntold) \in Nat
<1>1. OxUntold \subseteq 1..Len(oxNote) /\ Len(oxNote) \in Nat
  BY OxIdsAre DEF OxUntold
<1>2. IsFiniteSet(1..Len(oxNote))
  BY <1>1, FS_Interval
<1>3. IsFiniteSet(OxUntold)
  BY <1>1, <1>2, FS_Subset
<1>4. QED
  BY <1>3, FS_CardinalityType

\* The untold notices stay while no notice is given up and no alert of one is written.
LEMMA UntoldStays ==
    ASSUME OxBoxType,
           \A n \in OxIds' : oxNote'[n].state = "dead_letter" => n \in OxIds /\ oxNote[n].state = "dead_letter",
           \A n \in OxIds : oxNote[n].state = "dead_letter" => n \in OxIds' /\ oxNote'[n].state = "dead_letter",
           \A n \in OxIds : OxDeadKey(n) \in oxEvents' <=> OxDeadKey(n) \in oxEvents
    PROVE  OxUntold' = OxUntold
BY DEF OxUntold, OxDeadKey

\* A notice that is given up is told of in the next step of the tick, and only a stop
\* can take that step away.
LEMMA TellsAllStep ==
    ASSUME OxMailInv, OxTellsAll, [OxNext]_OxVars PROVE OxTellsAll'
<1>1. /\ OxBoxType /\ OxAtWork /\ OxOpen /\ OxTables /\ oxNote \in Seq(OxNoteRow)
      /\ OxIds = 1..Len(oxNote) /\ Len(oxNote) \in Nat
  BY OxIdsAre DEF OxMailInv, OxIInv, OxBoxType
<1>2. IsFiniteSet(OxUntold) /\ Cardinality(OxUntold) \in Nat /\ oxCount.stops \in Nat
  BY <1>1, UntoldFinite, OxAssumption DEF OxTables, OxBoxType
<1>3. ASSUME OxUntold' = OxUntold, oxCount'.stops = oxCount.stops, OxDying = 0 \/ oxTick' = oxTick
      PROVE  OxTellsAll'
  BY <1>2, <1>3 DEF OxTellsAll, OxDying
<1>4. ASSUME oxNote' = oxNote, \A n \in OxIds : OxDeadKey(n) \in oxEvents' <=> OxDeadKey(n) \in oxEvents
      PROVE  OxUntold' = OxUntold
  BY <1>1, <1>4, UntoldStays DEF OxIds
<1>5. ASSUME NEW key \in OxKeys, oxNote' = OxEnqueued(key), OxAppends(OxKey(key)) PROVE OxUntold' = OxUntold
  <2>1. \A n \in OxIds : n \in OxIds' /\ oxNote'[n] = oxNote[n]
    <3>1. CASE OxKept(key) # {}
      BY <3>1, <1>5 DEF OxEnqueued, OxIds
    <3>2. CASE OxKept(key) = {}
      BY <3>2, <1>1, <1>5 DEF OxEnqueued, OxIds
    <3>3. QED
      BY <3>1, <3>2
  <2>2. \A n \in OxIds' :
            (n \in OxIds /\ oxNote'[n] = oxNote[n]) \/ oxNote'[n].state = "pending"
    BY <1>1, <1>5, OxQueued
  <2>3. \A n \in OxIds : OxDeadKey(n) \in oxEvents' <=> OxDeadKey(n) \in oxEvents
    BY <1>1, <1>5, OxAppendsKey
  <2>4. QED
    BY <1>1, <2>1, <2>2, <2>3, UntoldStays
<1>6. ASSUME NEW key \in oxCast.keys, NEW noted \in BOOLEAN, OxEmits(key, noted) PROVE OxTellsAll'
  <2>1. /\ key \in OxKeys /\ OxAppends(OxKey(key)) /\ oxTick' = oxTick
        /\ oxNote' = OxEnqueued(key) \/ oxNote' = oxNote
    BY <1>6 DEF OxEmits, OxKeys
  <2>2. oxCount'.stops = oxCount.stops
    BY <1>1, <1>6 DEF OxEmits, OxMoves, OxTables
  <2>3. \A n \in OxIds : OxDeadKey(n) \in oxEvents' <=> OxDeadKey(n) \in oxEvents
    BY <1>1, <2>1, OxAppendsKey
  <2>4. QED
    BY <1>3, <1>4, <1>5, <2>1, <2>2, <2>3
<1>7. ASSUME OxAgentMoves PROVE OxTellsAll'
  <2>1. oxNote' = oxNote /\ oxEvents' = oxEvents /\ oxTick' = oxTick /\ oxCount'.stops = oxCount.stops
    BY <1>1, <1>7 DEF OxAgentMoves, OxBox, OxMoves, OxTables
  <2>2. QED
    BY <1>3, <1>4, <2>1
<1>8. ASSUME OxRefreshes PROVE OxTellsAll'
  <2>1. /\ oxNote' = oxNote /\ oxCount' = oxCount /\ oxTick.at = "rest"
        /\ OxAppends(OxKey("red")) \/ oxEvents' = oxEvents
    BY <1>8 DEF OxRefreshes
  <2>2. \A n \in OxIds : OxDeadKey(n) \in oxEvents' <=> OxDeadKey(n) \in oxEvents
    BY <1>1, <2>1, OxAppendsKey
  <2>3. QED
    BY <1>3, <1>4, <2>1, <2>2 DEF OxDying
<1>9. ASSUME OxDrained \/ OxNoNews PROVE OxTellsAll'
  <2>1. oxNote' = oxNote /\ oxEvents' = oxEvents /\ oxCount' = oxCount /\ oxTick.at # "bury"
    BY <1>9 DEF OxDrained, OxNoNews, OxBox
  <2>2. QED
    BY <1>3, <1>4, <2>1 DEF OxDying
<1>10. ASSUME OxPings PROVE OxTellsAll'
  <2>1. /\ OxAppends(OxKey(OxKindOf)) /\ oxNote' = OxEnqueued(OxKindOf) /\ OxKindOf \in OxKeys
        /\ oxCount' = oxCount /\ oxTick.at = "ping"
    BY <1>10 DEF OxPings, OxKindOf, OxKinds, OxKeys
  <2>2. QED
    BY <1>3, <1>5, <2>1 DEF OxDying
<1>11. ASSUME NEW o \in OxOutcomes, OxDrains(o) \/ OxPublishes(o) PROVE OxTellsAll'
  <2> DEFINE n == OxNext1
  <2>1. n \in oxTick.todo /\ n \in OxIds
    <3>1. oxTick.todo # {}
      BY <1>1, <1>11 DEF OxDrains, OxPublishes, OxAtWork
    <3>2. QED
      BY <1>1, <3>1, OxFirst DEF OxAtWork
  <2>2. OxMark(n, o) /\ oxEvents' = oxEvents /\ oxCount' = oxCount /\ oxTick.at # "bury"
    BY <1>11 DEF OxDrains, OxPublishes, OxDelivers
  <2>3. oxNote[n].state # "dead_letter"
    BY <1>1, <1>11, <2>1 DEF OxOpen, OxToTry, OxDrains, OxPublishes
  <2>4. /\ OxIds' = OxIds /\ \A m \in OxIds : m # n => oxNote'[m] = oxNote[m]
        /\ oxNote'[n].state = IF o = "none" THEN "failed" ELSE "sent"
    BY <1>1, <2>1, <2>2, OxMarked
  <2> HIDE DEF n
  <2>5. OxUntold' = OxUntold
    BY <1>1, <2>2, <2>3, <2>4, UntoldStays
  <2>6. QED
    BY <1>3, <2>2, <2>5 DEF OxDying
<1>12. ASSUME OxBuries PROVE OxTellsAll'
  <2> DEFINE n == OxNext1
  <2>1. /\ oxNote' = [oxNote EXCEPT ![n].state = "dead_letter"] /\ oxEvents' = oxEvents /\ oxCount' = oxCount
        /\ oxTick.at = "drain" /\ oxTick' = [oxTick EXCEPT !.at = "bury"] /\ n \in oxTick.todo
    BY <1>1, <1>12, OxFirst DEF OxBuries
  <2> HIDE DEF n
  <2>2. n \in OxIds /\ oxNote[n].state # "dead_letter" /\ oxNote[n] \in OxNoteRow
    BY <1>1, <2>1 DEF OxOpen, OxToTry, OxAtWork
  <2>3. /\ oxNote'[n].state = "dead_letter" /\ OxIds' = OxIds
        /\ \A m \in OxIds \ {n} : oxNote'[m] = oxNote[m]
    BY <1>1, <2>1, <2>2 DEF OxIds, OxNoteRow
  <2>4. OxUntold' \subseteq OxUntold \cup {n} /\ n \notin OxUntold
    BY <2>1, <2>2, <2>3 DEF OxUntold, OxDeadKey
  <2>5. IsFiniteSet(OxUntold \cup {n}) /\ Cardinality(OxUntold \cup {n}) = Cardinality(OxUntold) + 1
    BY <1>2, <2>4, FS_AddElement
  <2>6. Cardinality(OxUntold') <= Cardinality(OxUntold) + 1 /\ Cardinality(OxUntold') \in Nat
    BY <2>4, <2>5, FS_Subset, FS_CardinalityType
  <2>7. OxDying = 0 /\ OxDying' = 1
    BY <1>1, <2>1 DEF OxDying, OxAtWork
  <2>8. QED
    BY <1>2, <2>1, <2>6, <2>7 DEF OxTellsAll
<1>13. ASSUME OxAlerts PROVE OxTellsAll'
  <2> DEFINE n == OxNext1
  <2>1. /\ oxNote' = oxNote /\ oxEvents' = oxEvents \cup {OxDeadKey(n)} /\ oxCount' = oxCount
        /\ oxTick.at = "bury" /\ oxTick' = [oxTick EXCEPT !.at = "drain", !.todo = oxTick.todo \ {n}]
        /\ n \in oxTick.todo /\ OxIds' = OxIds /\ n = OxNext1
    BY <1>1, <1>13, OxFirst DEF OxAlerts, OxAppends, OxAtWork, OxIds
  <2> HIDE DEF n
  <2>2. n \in OxIds /\ oxNote[n].state = "dead_letter" /\ OxDeadKey(n) \notin oxEvents
    BY <1>1, <2>1 DEF OxOpen, OxToTry, OxAtWork
  <2>3. n \in OxUntold /\ OxUntold' = OxUntold \ {n}
    BY <2>1, <2>2 DEF OxUntold, OxDeadKey
  <2>4. Cardinality(OxUntold') = Cardinality(OxUntold) - 1
    BY <1>2, <2>3, FS_RemoveElement
  <2>5. OxDying = 1 /\ OxDying' = 0
    BY <1>1, <2>1 DEF OxDying, OxAtWork
  <2>6. QED
    BY <1>2, <2>1, <2>4, <2>5 DEF OxTellsAll
<1>14. ASSUME NEW lands \in BOOLEAN, OxStops(lands) PROVE OxTellsAll'
  <2>1. oxNote' = oxNote /\ oxEvents' = oxEvents /\ oxTick' = [at |-> "rest", todo |-> {}, tries |-> 0]
    BY <1>14 DEF OxStops, OxBox
  <2>2. oxCount'.stops = oxCount.stops + 1
    BY <1>1, <1>14 DEF OxStops, OxTables
  <2>3. OxUntold' = OxUntold /\ OxDying' = 0 /\ OxDying \in {0, 1}
    BY <1>4, <2>1 DEF OxDying
  <2>4. QED
    BY <1>2, <2>2, <2>3 DEF OxTellsAll
<1>15. ASSUME UNCHANGED OxVars PROVE OxTellsAll'
  <2>1. oxNote' = oxNote /\ oxEvents' = oxEvents /\ oxTick' = oxTick /\ oxCount' = oxCount
    BY <1>15 DEF OxVars, OxBox
  <2>2. QED
    BY <1>3, <1>4, <2>1
<1>16. QED
  BY <1>6, <1>7, <1>8, <1>9, <1>10, <1>11, <1>12, <1>13, <1>14, <1>15 DEF OxNext, OxTickStep

\* A notice is marked sent only with a receipt of some channel; a dead letter has used up
\* its attempts, and the dead letters the inbox was not told of are at most one for each
\* time the process stopped, and the one whose alert is being written; the push channel is
\* healthy in a runtime only while its last send there was answered, and a refusal is not
\* forgotten.
THEOREM ReceiptsAreReal == OxSpec => []OxInv
<1>1. ASSUME OxInit PROVE OxMailInv /\ OxTellsAll
  <2>1. OxMailInv
    BY <1>1, OxMailStart
  <2>2. OxUntold = {} /\ oxCount.stops = 0 /\ OxDying = 0
    BY <1>1 DEF OxInit, OxUntold, OxIds, OxDying
  <2>3. Cardinality(OxUntold) = 0
    BY <2>2, FS_EmptySet
  <2>4. QED
    BY <2>1, <2>2, <2>3 DEF OxTellsAll
<1>2. ASSUME OxMailInv, OxTellsAll, [OxNext]_OxVars PROVE OxMailInv' /\ OxTellsAll'
  BY <1>2, OxMailStep, TellsAllStep
<1>3. OxMailInv /\ OxTellsAll => OxInv
  BY DEF OxMailInv, OxTellsAll, OxIInv, OxInv, SentHasReceipt, DeadIsExhausted, PushIsProven
<1>4. QED
  BY <1>1, <1>2, <1>3, PTL DEF OxSpec

----------------------------------------------------------------------------
(* The CTO bridge *)

CtDecision == [status : CtStatus, tries : Int, owner : BOOLEAN, emitted : BOOLEAN]
CtStepRow == [at : {"idle", "decide", "queue", "escalate", "ack"}, event : {0} \cup CtEvents,
         retry : BOOLEAN, owner : BOOLEAN, advice : BOOLEAN]

CtTypes ==
    /\ ctCast \in CtCasts /\ ctLog \in Seq({0} \cup CtEvents)
    /\ ctFirst \in Int /\ ctCursor \in -1..Len(ctLog)
    /\ ctRow \in [CtEvents -> CtDecision]
    /\ ctAnswers \in [CtEvents -> Nat]
    /\ ctOutbox \in [CtEvents -> {"none", "pending", "sent"}] /\ ctSaid \subseteq CtEvents
    /\ ctStep \in CtStepRow
    /\ ctCount.events \in 0..Len(ctCast.events)
    /\ ctCount \in [events : Nat, faults : Nat]

\* Where the tick is and what it holds: the event at the cursor, unless it retries;
\* undecided until its answer is recorded, decided while the answer is acted on, and on
\* record before the cursor passes it.
OnTheWay ==
    /\ ctStep.at \in {"decide", "queue", "escalate"} => ctStep.event \in CtEvents
    /\ ctStep.at = "decide" =>
          ctRow[ctStep.event].status \in {"latched", "waiting_provider", "provider_error"}
    /\ ctStep.at \in {"queue", "escalate"} => ctRow[ctStep.event].status = "decided"
    /\ ctStep.at # "idle" /\ ~ctStep.retry =>
          ctCursor \in 0..(Len(ctLog) - 1) /\ ctStep.event = ctLog[ctCursor + 1]
    /\ ctStep.at = "ack" =>
          ~ctStep.retry /\ (CtNeeds(ctStep.event) => ctRow[ctStep.event].status # "none")

\* The three parts of CtInv.
PassedIsRecorded ==
    \A p \in (ctFirst + 1)..ctCursor :
        p > 0 /\ CtNeeds(ctLog[p]) => ctRow[ctLog[p]].status # "none"
DecidedOnce ==
    \A e \in CtEvents : ctAnswers[e] <= 1 /\ (ctAnswers[e] = 1 <=> ctRow[e].status = "decided")
TellsTheDecided ==
    \A e \in ctSaid \cup {e \in CtEvents : ctOutbox[e] # "none"} :
        ctRow[e].status = "decided" /\ ~ctRow[e].owner /\ ctCast.events[e].agent = "agent"

CtIInv == CtTypes /\ OnTheWay /\ PassedIsRecorded /\ DecidedOnce /\ TellsTheDecided

----------------------------------------------------------------------------

EventType == [kind : CtKinds, agent : CtAgents]

LEMMA CastEvents ==
    ASSUME NEW c \in CtCasts
    PROVE  /\ c.events \in Seq(EventType)
           /\ DOMAIN c.events = 1..Len(c.events) /\ Len(c.events) \in Nat
<1>1. c.events \in Seq(EventType)
  BY CtAssumption, Zenon DEF EventType
<1>2. QED
  BY <1>1

LEMMA Events ==
    ASSUME CtTypes
    PROVE  /\ CtEvents = 1..Len(ctCast.events) /\ Len(ctCast.events) \in Nat
           /\ Len(ctLog) \in Nat /\ DOMAIN ctLog = 1..Len(ctLog)
BY CastEvents DEF CtTypes, CtEvents

LEMMA CtInitInv == CtInit => CtIInv
<1> SUFFICES ASSUME CtInit PROVE CtIInv
  OBVIOUS
<1>1. Len(ctCast.events) \in Nat
  BY CastEvents DEF CtInit
<1>2. CtTypes
  BY <1>1 DEF CtInit, CtTypes, CtDecision, CtStepRow, CtStatus, CtIdle
<1>3. OnTheWay /\ PassedIsRecorded
  BY DEF CtInit, OnTheWay, CtIdle, PassedIsRecorded
<1>4. DecidedOnce /\ TellsTheDecided
  BY DEF CtInit, DecidedOnce, TellsTheDecided
<1>5. QED
  BY <1>2, <1>3, <1>4 DEF CtIInv

\* What stays true of the passed events when records are only added or kept.
LEMMA StillRecorded ==
    ASSUME CtTypes, PassedIsRecorded, ctCast' = ctCast, ctLog' = ctLog,
           ctFirst' = ctFirst, ctCursor' = ctCursor,
           \A e \in CtEvents : ctRow[e].status # "none" => ctRow'[e].status # "none"
    PROVE  PassedIsRecorded'
<1> SUFFICES ASSUME NEW p \in (ctFirst + 1)..ctCursor, p > 0, CtNeeds(ctLog[p])
             PROVE  ctRow'[ctLog[p]].status # "none"
  BY DEF PassedIsRecorded, CtNeeds
<1>1. p \in 1..Len(ctLog)
  BY DEF CtTypes
<1>2. ctLog[p] \in {0} \cup CtEvents
  BY <1>1 DEF CtTypes
<1>3. ctLog[p] \in CtEvents
  BY <1>2 DEF CtNeeds
<1>4. QED
  BY <1>3 DEF PassedIsRecorded

----------------------------------------------------------------------------
(* The log grows *)

LEMMA Appended ==
    ASSUME CtIInv, NEW x \in {0} \cup CtEvents, ctLog' = Append(ctLog, x),
           UNCHANGED <<ctCast, CtStore, ctSaid>>,
           ctStep' = ctStep \/ CtReturns,
           ctStep' # ctStep => ctStep.at = "escalate",
           ctCount' \in [events : Nat, faults : Nat], ctCount'.events \in 0..Len(ctCast.events)
    PROVE  CtIInv'
<1> USE DEF CtIInv
<1>1. /\ CtEvents' = CtEvents /\ Len(ctLog') = Len(ctLog) + 1 /\ Len(ctLog) \in Nat
      /\ \A p \in 1..Len(ctLog) : ctLog'[p] = ctLog[p]
      /\ ctLog' \in Seq({0} \cup CtEvents)
      /\ UNCHANGED <<ctCast, ctFirst, ctCursor, ctRow, ctAnswers, ctOutbox, ctSaid>>
  BY Events DEF CtEvents, CtTypes, CtStore
<1>2. CtIdle \in CtStepRow /\ [CtIdle EXCEPT !.at = "ack", !.event = ctStep.event] \in CtStepRow
  BY DEF CtTypes, CtIdle, CtStepRow
<1>3. ctStep' \in CtStepRow
  BY <1>2 DEF CtReturns, CtTypes
<1>4. CtTypes'
  BY <1>1, <1>3 DEF CtTypes, CtStepRow
<1>5. OnTheWay'
  <2>1. CASE ctStep' = ctStep
    BY <1>1, <2>1 DEF OnTheWay, CtNeeds, CtTypes, CtStepRow
  <2>2. CASE CtReturns /\ ctStep.at = "escalate"
    BY <1>1, <2>2 DEF OnTheWay, CtReturns, CtIdle, CtNeeds, CtTypes, CtStepRow
  <2>3. QED
    BY <2>1, <2>2
<1>6. PassedIsRecorded'
  <2> SUFFICES ASSUME NEW p \in (ctFirst + 1)..ctCursor, p > 0, CtNeeds(ctLog'[p])
               PROVE  ctRow[ctLog'[p]].status # "none"
    BY <1>1 DEF PassedIsRecorded, CtNeeds
  <2>1. ctLog'[p] = ctLog[p]
    BY <1>1 DEF CtTypes
  <2>2. QED
    BY <2>1 DEF PassedIsRecorded
<1>7. DecidedOnce' /\ TellsTheDecided'
  BY <1>1 DEF DecidedOnce, TellsTheDecided
<1>8. QED
  BY <1>4, <1>5, <1>6, <1>7

LEMMA EmitsInv == ASSUME CtIInv, CtEmits PROVE CtIInv'
<1>1. /\ ctCount' = [ctCount EXCEPT !.events = @ + 1]
      /\ ctCount.events \in Nat /\ ctCount.events < Len(ctCast.events)
      /\ ctCount \in [events : Nat, faults : Nat]
  BY DEF CtEmits, CtIInv, CtTypes
<1>2. /\ ctCount'.events = ctCount.events + 1 /\ ctCount' \in [events : Nat, faults : Nat]
  BY <1>1
<1>3. ctCount'.events \in CtEvents /\ ctCount'.events \in 0..Len(ctCast.events)
  BY <1>1, <1>2, Events DEF CtIInv
<1>4. QED
  BY <1>2, <1>3, Appended DEF CtEmits

LEMMA EscalatesInv == ASSUME CtIInv, CtEscalates PROVE CtIInv'
<1>1. ctCount' = ctCount /\ ctLog' = Append(ctLog, 0) /\ CtReturns /\ ctStep.at = "escalate"
      /\ UNCHANGED <<ctCast, CtStore, ctSaid>>
  BY DEF CtEscalates
<1>2. ctCount' \in [events : Nat, faults : Nat] /\ ctCount'.events \in 0..Len(ctCast.events)
  BY <1>1 DEF CtIInv, CtTypes
<1>3. QED
  BY <1>1, <1>2, Appended

----------------------------------------------------------------------------
(* The cursor moves *)

LEMMA StartsInv == ASSUME CtIInv, CtStarts PROVE CtIInv'
<1> USE DEF CtIInv
<1>1. /\ CtEvents' = CtEvents /\ ctFirst' = Len(ctLog) /\ ctCursor' = Len(ctLog)
      /\ Len(ctLog) \in Nat /\ ctStep.at = "idle"
      /\ UNCHANGED <<ctCast, ctLog, ctRow, ctAnswers, ctOutbox, ctSaid, ctStep, ctCount>>
  BY Events DEF CtStarts, CtEvents
<1>2. CtTypes'
  BY <1>1 DEF CtTypes, CtStepRow
<1>3. OnTheWay' /\ PassedIsRecorded'
  BY <1>1 DEF OnTheWay, PassedIsRecorded
<1>4. DecidedOnce' /\ TellsTheDecided'
  BY <1>1 DEF DecidedOnce, TellsTheDecided
<1>5. QED
  BY <1>2, <1>3, <1>4

\* The event the cursor passes is on record when it needs to be.
LEMMA AcksInv == ASSUME CtIInv, CtAcks PROVE CtIInv'
<1> USE DEF CtIInv
<1>1. /\ CtEvents' = CtEvents /\ ctCursor' = ctCursor + 1 /\ ctStep' = CtIdle /\ ctStep.at = "ack"
      /\ UNCHANGED <<ctCast, ctLog, ctFirst, ctRow, ctAnswers, ctOutbox, ctSaid, ctCount>>
  BY DEF CtAcks, CtEvents
<1>2. /\ ctCursor \in 0..(Len(ctLog) - 1) /\ ctStep.event = ctLog[ctCursor + 1]
      /\ CtNeeds(ctStep.event) => ctRow[ctStep.event].status # "none"
  BY <1>1 DEF OnTheWay
<1>3. CtIdle \in CtStepRow /\ Len(ctLog) \in Nat
  BY Events DEF CtIdle, CtStepRow
<1>4. CtTypes'
  BY <1>1, <1>2, <1>3 DEF CtTypes, CtStepRow
<1>5. OnTheWay'
  BY <1>1 DEF OnTheWay, CtIdle
<1>6. PassedIsRecorded'
  <2> SUFFICES ASSUME NEW p \in (ctFirst + 1)..(ctCursor + 1), p > 0, CtNeeds(ctLog[p])
               PROVE  ctRow[ctLog[p]].status # "none"
    BY <1>1 DEF PassedIsRecorded, CtNeeds
  <2>1. CASE p = ctCursor + 1
    BY <1>2, <2>1
  <2>2. CASE p # ctCursor + 1
    <3>1. p \in (ctFirst + 1)..ctCursor
      BY <2>2 DEF CtTypes
    <3>2. QED
      BY <3>1 DEF PassedIsRecorded
  <2>3. QED
    BY <2>1, <2>2
<1>7. DecidedOnce' /\ TellsTheDecided'
  BY <1>1 DEF DecidedOnce, TellsTheDecided
<1>8. QED
  BY <1>4, <1>5, <1>6, <1>7

----------------------------------------------------------------------------
(* The tick takes an event, and acts on it *)

LEMMA TakesInv == ASSUME CtIInv, CtTakes PROVE CtIInv'
<1> USE DEF CtIInv
<1> DEFINE e == ctLog[ctCursor + 1]
           fresh == CtNeeds(e) /\ ctRow[e].status = "none"
<1>1. /\ CtEvents' = CtEvents /\ ctCursor \in 0..(Len(ctLog) - 1) /\ ctStep.at = "idle"
      /\ ctStep' = [CtIdle EXCEPT !.at = IF fresh THEN "decide" ELSE "ack", !.event = e]
      /\ ctRow' = IF fresh THEN [ctRow EXCEPT ![e].status = "latched"] ELSE ctRow
      /\ UNCHANGED <<ctCast, ctLog, ctFirst, ctCursor, ctAnswers, ctOutbox, ctSaid, ctCount>>
  BY DEF CtTakes, CtEvents
<1>2. e \in {0} \cup CtEvents /\ (CtNeeds(e) => e \in CtEvents)
  BY <1>1, Events DEF CtTypes, CtNeeds
<1> HIDE DEF e
<1>3. ctStep' = [at |-> IF fresh THEN "decide" ELSE "ack", event |-> e, retry |-> FALSE,
                 owner |-> FALSE, advice |-> FALSE]
  BY <1>1 DEF CtIdle
<1>4. ctRow' \in [CtEvents -> CtDecision]
      /\ \A x \in CtEvents : \/ ctRow'[x] = ctRow[x]
                             \/ /\ x = e /\ fresh
                                /\ ctRow'[x] = [ctRow[x] EXCEPT !.status = "latched"]
  <2>1. CASE fresh
    <3> DEFINE row == [ctRow[e] EXCEPT !.status = "latched"]
    <3>1. ctRow[e] \in CtDecision
      BY <1>2, <2>1 DEF CtTypes
    <3>2. row \in CtDecision
      BY <3>1 DEF CtDecision, CtStatus
    <3>3. ctRow' = [ctRow EXCEPT ![e] = row]
      BY <1>1, <2>1
    <3> HIDE DEF row
    <3>4. ctRow' \in [CtEvents -> CtDecision] /\ ctRow'[e] = row
          /\ \A x \in CtEvents : x # e => ctRow'[x] = ctRow[x]
      BY <1>2, <2>1, <3>2, <3>3 DEF CtTypes
    <3>5. QED
      BY <2>1, <3>4 DEF row
  <2>2. CASE ~fresh
    BY <1>1, <2>2 DEF CtTypes
  <2>3. QED
    BY <2>1, <2>2
<1>5. fresh => ctRow'[e].status = "latched" /\ e \in CtEvents
  BY <1>2, <1>1 DEF CtTypes, CtDecision
<1>6. CtTypes'
  <2>1. ctStep' \in CtStepRow
    BY <1>2, <1>3 DEF CtStepRow
  <2>2. QED
    BY <1>1, <1>4, <2>1 DEF CtTypes, CtStepRow
<1>7. OnTheWay'
  <2>1. CASE fresh
    BY <1>1, <1>3, <1>5, <2>1 DEF OnTheWay, e
  <2>2. CASE ~fresh
    <3>1. /\ ctStep' = [at |-> "ack", event |-> e, retry |-> FALSE, owner |-> FALSE, advice |-> FALSE]
          /\ ctRow' = ctRow
      BY <1>1, <1>3, <2>2
    <3>2. ~CtNeeds(e) \/ ctRow[e].status # "none"
      BY <2>2
    <3>3. CtNeeds(ctStep.event)' => CtNeeds(e)
      BY <1>1, <3>1 DEF CtNeeds
    <3>4. ctCursor' \in 0..(Len(ctLog') - 1) /\ e = ctLog'[ctCursor' + 1]
      BY <1>1 DEF e
    <3>5. CtNeeds(ctStep.event)' => ctRow'[ctStep'.event].status # "none"
      BY <3>1, <3>2, <3>3
    <3>6. QED
      BY <3>1, <3>4, <3>5 DEF OnTheWay
  <2>3. QED
    BY <2>1, <2>2
<1>8. \A x \in CtEvents : ctRow[x].status # "none" => ctRow'[x] = ctRow[x]
  BY <1>4
<1>9. PassedIsRecorded'
  BY <1>1, <1>8, StillRecorded
<1>10. \A x \in CtEvents : ctRow'[x].status = "decided" <=> ctRow[x].status = "decided"
  BY <1>4, <1>5, <1>8
<1>11. DecidedOnce'
  BY <1>1, <1>10 DEF DecidedOnce
<1>12. TellsTheDecided'
  BY <1>1, <1>8 DEF TellsTheDecided, CtTypes
<1>13. QED
  BY <1>6, <1>7, <1>9, <1>11, <1>12

\* A row that is waiting is given to the provider again.
LEMMA RetriesInv == ASSUME CtIInv, NEW e \in CtEvents, CtRetries(e) PROVE CtIInv'
<1> USE DEF CtIInv
<1>1. /\ CtEvents' = CtEvents /\ ctRow[e].status \in {"latched", "waiting_provider", "provider_error"}
      /\ ctStep' = [at |-> "decide", event |-> e, retry |-> TRUE, owner |-> FALSE, advice |-> FALSE]
      /\ UNCHANGED <<ctCast, ctLog, ctFirst, ctCursor, ctRow, ctAnswers, ctOutbox, ctSaid, ctCount>>
  BY DEF CtRetries, CtEvents, CtIdle, CtStore
<1>2. CtTypes'
  BY <1>1 DEF CtTypes, CtStepRow
<1>3. OnTheWay' /\ PassedIsRecorded'
  BY <1>1, StillRecorded DEF OnTheWay
<1>4. DecidedOnce' /\ TellsTheDecided'
  BY <1>1 DEF DecidedOnce, TellsTheDecided
<1>5. QED
  BY <1>2, <1>3, <1>4

\* An event whose handling is over is acknowledged, or a retry is.
LEMMA Returned ==
    ASSUME CtIInv, ctStep.at \in {"decide", "queue"}, CtReturns,
           UNCHANGED <<ctCast, ctLog, ctCursor>>, ctRow'[ctStep.event].status # "none"
    PROVE  OnTheWay' /\ ctStep' \in CtStepRow
<1> USE DEF CtIInv
<1>1. /\ ctStep.event \in CtEvents /\ ctStep.retry \in BOOLEAN
  BY DEF OnTheWay, CtTypes, CtStepRow
<1>2. CASE ctStep.retry
  <2>1. ctStep' = CtIdle
    BY <1>2 DEF CtReturns
  <2>2. QED
    BY <2>1 DEF OnTheWay, CtIdle, CtStepRow
<1>3. CASE ~ctStep.retry
  <2>1. ctStep' = [at |-> "ack", event |-> ctStep.event, retry |-> FALSE, owner |-> FALSE,
                   advice |-> FALSE]
    BY <1>3 DEF CtReturns, CtIdle
  <2>2. ctCursor \in 0..(Len(ctLog) - 1) /\ ctStep.event = ctLog[ctCursor + 1]
    BY <1>3 DEF OnTheWay
  <2>3. QED
    BY <1>1, <2>1, <2>2 DEF OnTheWay, CtStepRow
<1>4. QED
  BY <1>1, <1>2, <1>3

\* A step that writes the row of the event at hand leaves the others, and forgets none.
LEMMA RowWritten ==
    ASSUME CtIInv, NEW e \in CtEvents, NEW row \in CtDecision, row.status # "none",
           ctRow' = [ctRow EXCEPT ![e] = row],
           UNCHANGED <<ctCast, ctLog, ctFirst, ctCursor>>
    PROVE  /\ ctRow' \in [CtEvents -> CtDecision] /\ ctRow'[e] = row
           /\ \A x \in CtEvents : x # e => ctRow'[x] = ctRow[x]
           /\ PassedIsRecorded'
<1>1. /\ ctRow' \in [CtEvents -> CtDecision] /\ ctRow'[e] = row
      /\ \A x \in CtEvents : x # e => ctRow'[x] = ctRow[x]
  BY DEF CtIInv, CtTypes
<1>2. QED
  BY <1>1, StillRecorded DEF CtIInv

\* The writes of a row: an attempt, a wait and a decision.
Attempted(r, s, t, o) == [r EXCEPT !.tries = t, !.owner = o, !.status = s]
Awaiting(r, o) == [r EXCEPT !.status = "waiting_provider", !.owner = o]
Settled(r, t, o) == [r EXCEPT !.status = "decided", !.tries = t, !.owner = o]

LEMMA RowWrites ==
    ASSUME NEW r \in CtDecision, NEW s \in CtStatus, NEW t \in Int, NEW o \in BOOLEAN
    PROVE  /\ Attempted(r, s, t, o) \in CtDecision /\ Attempted(r, s, t, o).status = s
           /\ Awaiting(r, o) \in CtDecision /\ Awaiting(r, o).status = "waiting_provider"
           /\ Settled(r, t, o) \in CtDecision /\ Settled(r, t, o).status = "decided"
BY DEF CtDecision, CtStatus, Attempted, Awaiting, Settled

LEMMA RowEmitted ==
    ASSUME NEW r \in CtDecision
    PROVE  /\ [r EXCEPT !.emitted = TRUE] \in CtDecision
           /\ [r EXCEPT !.emitted = TRUE].status = r.status
           /\ [r EXCEPT !.emitted = TRUE].owner = r.owner
BY DEF CtDecision

LEMMA Faults ==
    ASSUME CtTypes, CtFault \/ ctCount' = ctCount
    PROVE  ctCount' \in [events : Nat, faults : Nat] /\ ctCount'.events = ctCount.events
<1>1. CASE CtFault
  <2>1. ctCount.faults + 1 \in Nat
    BY DEF CtTypes
  <2>2. ctCount' = [ctCount EXCEPT !.faults = ctCount.faults + 1]
    BY <1>1 DEF CtFault
  <2>3. QED
    BY <2>1, <2>2 DEF CtTypes
<1>2. CASE ctCount' = ctCount
  BY <1>2 DEF CtTypes
<1>3. QED
  BY <1>1, <1>2

\* A row that was not decided, and is not now, says nothing to an agent.
LEMMA StillUndecided ==
    ASSUME CtIInv, NEW e \in CtEvents, ctRow[e].status # "decided", ctRow'[e].status # "decided",
           \A x \in CtEvents : x # e => ctRow'[x] = ctRow[x],
           UNCHANGED <<ctCast, ctAnswers, ctOutbox, ctSaid>>
    PROVE  DecidedOnce' /\ TellsTheDecided'
<1>1. CtEvents' = CtEvents
  BY DEF CtEvents
<1>2. DecidedOnce'
  BY <1>1 DEF CtIInv, DecidedOnce
<1>3. TellsTheDecided'
  BY <1>1 DEF CtIInv, TellsTheDecided, CtTypes
<1>4. QED
  BY <1>2, <1>3

LEMMA UndecidedInv == ASSUME CtIInv, CtUndecided PROVE CtIInv'
<1> USE DEF CtIInv
<1> DEFINE e == ctStep.event
<1>1. /\ e \in CtEvents /\ CtEvents' = CtEvents /\ ctStep.at = "decide" /\ CtReturns
      /\ ctRow[e].status # "decided" /\ ctRow[e] \in CtDecision
      /\ UNCHANGED <<ctCast, ctLog, ctFirst, ctCursor, ctAnswers, ctOutbox, ctSaid>>
  BY DEF CtUndecided, OnTheWay, CtEvents, CtTypes
<1>2. PICK row \in CtDecision : /\ ctRow' = [ctRow EXCEPT ![e] = row]
                              /\ row.status \notin {"none", "decided"}
  <2> DEFINE owner == ctCast.events[e].kind = "owner"
             status == IF ctRow[e].tries + 1 >= CtMaxAttempts THEN "provider_failed"
                       ELSE "provider_error"
  <2>1. CASE ctProvider
    <3>1. ctRow' = [ctRow EXCEPT ![e] = Attempted(ctRow[e], status, ctRow[e].tries + 1, owner)]
      BY <2>1 DEF CtUndecided, Attempted
    <3>2. status \in CtStatus \ {"none", "decided"} /\ owner \in BOOLEAN /\ ctRow[e].tries + 1 \in Int
      BY <1>1 DEF CtStatus, CtDecision
    <3> HIDE DEF owner, status
    <3>3. /\ Attempted(ctRow[e], status, ctRow[e].tries + 1, owner) \in CtDecision
          /\ Attempted(ctRow[e], status, ctRow[e].tries + 1, owner).status = status
      BY <1>1, <3>2, RowWrites
    <3>4. QED
      BY <3>1, <3>2, <3>3
  <2>2. CASE ~ctProvider
    <3>1. ctRow' = [ctRow EXCEPT ![e] = Awaiting(ctRow[e], owner)]
      BY <2>2 DEF CtUndecided, Awaiting
    <3>2. "waiting_provider" \in CtStatus /\ owner \in BOOLEAN /\ ctRow[e].tries \in Int
      BY <1>1 DEF CtStatus, CtDecision
    <3> HIDE DEF owner
    <3>3. QED
      BY <1>1, <3>1, <3>2, RowWrites
  <2>3. QED
    BY <2>1, <2>2
<1>3. /\ ctRow' \in [CtEvents -> CtDecision] /\ ctRow'[e] = row /\ PassedIsRecorded'
      /\ \A x \in CtEvents : x # e => ctRow'[x] = ctRow[x]
  BY <1>1, <1>2, RowWritten
<1>4. OnTheWay' /\ ctStep' \in CtStepRow
  BY <1>1, <1>2, <1>3, Returned
<1>5. ctCount' \in [events : Nat, faults : Nat] /\ ctCount'.events = ctCount.events
  BY Faults DEF CtUndecided
<1>6. CtTypes'
  BY <1>1, <1>3, <1>4, <1>5 DEF CtTypes, CtStepRow
<1>7. DecidedOnce' /\ TellsTheDecided'
  BY <1>1, <1>2, <1>3, StillUndecided
<1>8. QED
  BY <1>3, <1>4, <1>6, <1>7

\* Only an event without an answer is answered.
LEMMA DecidesInv ==
    ASSUME CtIInv, NEW owner \in BOOLEAN, NEW advice \in BOOLEAN, CtDecides(owner, advice)
    PROVE  CtIInv'
<1> USE DEF CtIInv
<1> DEFINE e == ctStep.event
           owns == owner \/ ctCast.events[e].kind = "owner"
           row == Settled(ctRow[e], ctRow[e].tries + 1, owns)
<1>1. /\ e \in CtEvents /\ CtEvents' = CtEvents /\ ctStep.at = "decide"
      /\ ctRow[e].status # "decided" /\ ctRow[e] \in CtDecision
      /\ ctStep' = [ctStep EXCEPT !.at = "queue", !.owner = owner, !.advice = advice]
      /\ ctAnswers' = [ctAnswers EXCEPT ![e] = @ + 1]
      /\ UNCHANGED <<ctCast, ctLog, ctFirst, ctCursor, ctOutbox, ctSaid, ctCount>>
  BY DEF CtDecides, OnTheWay, CtEvents, CtTypes
<1>2. row \in CtDecision /\ row.status = "decided"
  <2>1. "decided" \in CtStatus /\ owns \in BOOLEAN /\ ctRow[e].tries + 1 \in Int
    BY <1>1 DEF CtStatus, CtDecision
  <2> HIDE DEF owns
  <2>2. QED
    BY <1>1, <2>1, RowWrites
<1>3. ctRow' = [ctRow EXCEPT ![e] = row]
  BY DEF CtDecides, Settled
<1> HIDE DEF row
<1>4. /\ ctRow' \in [CtEvents -> CtDecision] /\ ctRow'[e] = row /\ PassedIsRecorded'
      /\ \A x \in CtEvents : x # e => ctRow'[x] = ctRow[x]
  BY <1>1, <1>2, <1>3, RowWritten
<1>5. ctStep' = [at |-> "queue", event |-> e, retry |-> ctStep.retry, owner |-> owner,
                 advice |-> advice] /\ ctStep.retry \in BOOLEAN
  BY <1>1 DEF CtTypes, CtStepRow
<1>6. /\ ctAnswers' \in [CtEvents -> Nat] /\ ctAnswers'[e] = 1
      /\ \A x \in CtEvents : x # e => ctAnswers'[x] = ctAnswers[x]
  <2>1. ctAnswers[e] = 0
    BY <1>1 DEF DecidedOnce, CtTypes
  <2>2. QED
    BY <1>1, <2>1 DEF CtTypes
<1>7. CtTypes'
  <2>1. ctStep' \in CtStepRow
    BY <1>1, <1>5 DEF CtStepRow
  <2>2. QED
    BY <1>1, <1>4, <1>6, <2>1 DEF CtTypes, CtStepRow
<1>8. OnTheWay'
  BY <1>1, <1>2, <1>4, <1>5 DEF OnTheWay
<1>9. DecidedOnce'
  BY <1>1, <1>2, <1>4, <1>6 DEF DecidedOnce
<1>10. TellsTheDecided'
  <2>1. e \notin ctSaid /\ ctOutbox[e] = "none"
    BY <1>1 DEF TellsTheDecided
  <2>2. QED
    BY <1>1, <1>4, <2>1 DEF TellsTheDecided, CtTypes
<1>11. QED
  BY <1>4, <1>7, <1>8, <1>9, <1>10

LEMMA RaisesInv == ASSUME CtIInv, CtRaises PROVE CtIInv'
<1> USE DEF CtIInv
<1>1. /\ ctStep.event \in CtEvents /\ CtEvents' = CtEvents /\ ctStep.at = "decide" /\ CtReturns
      /\ ctRow[ctStep.event].status \notin {"none", "decided"} /\ ctRow' = ctRow
      /\ UNCHANGED <<ctCast, ctLog, ctFirst, ctCursor, ctAnswers, ctOutbox, ctSaid>>
  BY DEF CtRaises, OnTheWay, CtEvents
<1>2. OnTheWay' /\ ctStep' \in CtStepRow
  BY <1>1, Returned
<1>3. ctCount' \in [events : Nat, faults : Nat] /\ ctCount'.events = ctCount.events
  BY Faults DEF CtRaises
<1>4. CtTypes'
  BY <1>1, <1>2, <1>3 DEF CtTypes, CtStepRow
<1>5. PassedIsRecorded'
  BY <1>1, StillRecorded
<1>6. DecidedOnce' /\ TellsTheDecided'
  BY <1>1 DEF DecidedOnce, TellsTheDecided
<1>7. QED
  BY <1>2, <1>4, <1>5, <1>6

\* A failure before the latch puts the event on record and passes it.
LEMMA StumblesInv == ASSUME CtIInv, CtStumbles PROVE CtIInv'
<1> USE DEF CtIInv
<1> DEFINE e == ctLog[ctCursor + 1]
           row == [ctRow[e] EXCEPT !.status = "handler_error"]
<1>1. /\ CtEvents' = CtEvents /\ ctCursor \in 0..(Len(ctLog) - 1) /\ CtNeeds(e) /\ CtFault
      /\ ctStep' = [at |-> "ack", event |-> e, retry |-> FALSE, owner |-> FALSE, advice |-> FALSE]
      /\ ctRow' = IF ctRow[e].status = "none" THEN [ctRow EXCEPT ![e] = row] ELSE ctRow
      /\ UNCHANGED <<ctCast, ctLog, ctFirst, ctCursor, ctAnswers, ctOutbox, ctSaid>>
  BY DEF CtStumbles, CtEvents, CtIdle
<1>2. e \in CtEvents /\ ctRow[e] \in CtDecision
  BY <1>1, Events DEF CtTypes, CtNeeds
<1>3. row \in CtDecision /\ row.status = "handler_error"
  BY <1>2 DEF CtDecision, CtStatus
<1>4. ctCount' \in [events : Nat, faults : Nat] /\ ctCount'.events = ctCount.events
  BY <1>1, Faults
<1>5. CtNeeds(e)' /\ ctCursor' \in 0..(Len(ctLog') - 1) /\ e = ctLog'[ctCursor' + 1]
  BY <1>1 DEF CtNeeds
<1> HIDE DEF e, row
<1>6. /\ ctRow' \in [CtEvents -> CtDecision] /\ PassedIsRecorded' /\ ctRow'[e].status # "none"
      /\ \A x \in CtEvents : \/ ctRow'[x] = ctRow[x]
                             \/ ctRow[x].status = "none" /\ ctRow'[x].status = "handler_error"
  <2>1. CASE ctRow[e].status = "none"
    BY <1>1, <1>2, <1>3, <2>1, RowWritten
  <2>2. CASE ctRow[e].status # "none"
    <3>1. ctRow' = ctRow
      BY <1>1, <2>2
    <3>2. QED
      BY <1>1, <2>2, <3>1, StillRecorded DEF CtTypes
  <2>3. QED
    BY <2>1, <2>2
<1>7. CtTypes'
  <2>1. ctStep' \in CtStepRow
    BY <1>1, <1>2 DEF CtStepRow
  <2>2. QED
    BY <1>1, <1>4, <1>6, <2>1 DEF CtTypes, CtStepRow
<1>8. OnTheWay'
  BY <1>1, <1>5, <1>6 DEF OnTheWay
<1>9. DecidedOnce' /\ TellsTheDecided'
  BY <1>1, <1>6 DEF DecidedOnce, TellsTheDecided, CtTypes
<1>10. QED
  BY <1>6, <1>7, <1>8, <1>9

\* The outbox takes the advice for an agent when the decision leaves the owner out.
LEMMA QueuesInv == ASSUME CtIInv, CtQueues PROVE CtIInv'
<1> USE DEF CtIInv
<1> DEFINE e == ctStep.event
<1>1. /\ e \in CtEvents /\ CtEvents' = CtEvents /\ ctStep.at = "queue"
      /\ ctRow[e].status = "decided" /\ ctRow[e] \in CtDecision
      /\ ctOutbox' = IF CtForwards(e) /\ ctOutbox[e] = "none"
                     THEN [ctOutbox EXCEPT ![e] = "pending"] ELSE ctOutbox
      /\ UNCHANGED <<ctCast, ctLog, ctFirst, ctCursor, ctAnswers, ctSaid, ctCount>>
  BY DEF CtQueues, OnTheWay, CtEvents, CtTypes
<1>2. PICK row \in CtDecision : /\ ctRow' = [ctRow EXCEPT ![e] = row] /\ row.status = "decided"
                              /\ row.owner = ctRow[e].owner
  <2>1. CASE CtEscalated(e)
    <3>1. ctRow' = [ctRow EXCEPT ![e] = [ctRow[e] EXCEPT !.emitted = TRUE]]
      BY <2>1 DEF CtQueues
    <3>2. QED
      BY <1>1, <3>1, RowEmitted
  <2>2. CASE ~CtEscalated(e)
    <3>1. ctRow' = ctRow
      BY <2>2 DEF CtQueues
    <3>2. ctRow = [ctRow EXCEPT ![e] = ctRow[e]]
      BY <1>1 DEF CtTypes
    <3>3. QED
      BY <1>1, <3>1, <3>2
  <2>3. QED
    BY <2>1, <2>2
<1>3. /\ ctRow' \in [CtEvents -> CtDecision] /\ ctRow'[e] = row /\ PassedIsRecorded'
      /\ \A x \in CtEvents : x # e => ctRow'[x] = ctRow[x]
  BY <1>1, <1>2, RowWritten
<1>4. OnTheWay' /\ ctStep' \in CtStepRow
  <2>1. CASE CtEscalated(e)
    <3>1. ctStep' = [ctStep EXCEPT !.at = "escalate"]
      BY <2>1 DEF CtQueues
    <3>2. /\ ctStep' \in CtStepRow /\ ctStep'.at = "escalate" /\ ctStep'.event = e
          /\ ctStep'.retry = ctStep.retry
      BY <3>1 DEF CtTypes, CtStepRow
    <3>3. QED
      BY <1>1, <1>2, <1>3, <3>2 DEF OnTheWay
  <2>2. CASE ~CtEscalated(e)
    <3>1. CtReturns
      BY <2>2 DEF CtQueues
    <3>2. QED
      BY <1>1, <1>2, <1>3, <3>1, Returned
  <2>3. QED
    BY <2>1, <2>2
<1>5. ctOutbox' \in [CtEvents -> {"none", "pending", "sent"}]
  BY <1>1 DEF CtTypes
<1>6. CtTypes'
  BY <1>1, <1>3, <1>4, <1>5 DEF CtTypes, CtStepRow
<1>7. DecidedOnce'
  BY <1>1, <1>2, <1>3 DEF DecidedOnce
<1>8. TellsTheDecided'
  <2>1. \A x \in CtEvents : /\ ctRow'[x].status = ctRow[x].status
                            /\ ctRow'[x].owner = ctRow[x].owner
    BY <1>1, <1>2, <1>3
  <2>2. \A x \in CtEvents : ctOutbox'[x] # "none" => ctOutbox[x] # "none" \/ (x = e /\ CtForwards(e))
    BY <1>1 DEF CtTypes
  <2>3. CtForwards(e) => ctCast.events[e].agent = "agent" /\ ~ctRow[e].owner
    BY DEF CtForwards
  <2>4. QED
    BY <1>1, <2>1, <2>2, <2>3 DEF TellsTheDecided, CtTypes
<1>9. QED
  BY <1>3, <1>4, <1>6, <1>7, <1>8

----------------------------------------------------------------------------
(* Delivery and stops *)

LEMMA CtDeliversInv ==
    ASSUME CtIInv, NEW e \in CtEvents, NEW lands \in BOOLEAN, NEW proven \in BOOLEAN,
           CtDelivers(e, lands, proven)
    PROVE  CtIInv'
<1> USE DEF CtIInv
<1>1. /\ CtEvents' = CtEvents /\ ctOutbox[e] = "pending"
      /\ ctSaid' \subseteq ctSaid \cup {e}
      /\ ctOutbox' \in {ctOutbox, [ctOutbox EXCEPT ![e] = "sent"]}
      /\ UNCHANGED <<ctCast, ctLog, ctFirst, ctCursor, ctRow, ctAnswers, ctStep, ctCount>>
  BY DEF CtDelivers, CtEvents
<1>2. ctOutbox' \in [CtEvents -> {"none", "pending", "sent"}]
      /\ \A x \in CtEvents : ctOutbox'[x] # "none" => ctOutbox[x] # "none"
  BY <1>1 DEF CtTypes
<1>3. CtTypes'
  BY <1>1, <1>2 DEF CtTypes, CtStepRow
<1>4. OnTheWay' /\ PassedIsRecorded'
  BY <1>1, StillRecorded DEF OnTheWay, CtNeeds
<1>5. DecidedOnce'
  BY <1>1 DEF DecidedOnce
<1>6. TellsTheDecided'
  BY <1>1, <1>2 DEF TellsTheDecided
<1>7. QED
  BY <1>3, <1>4, <1>5, <1>6

LEMMA StopsInv == ASSUME CtIInv, CtStops PROVE CtIInv'
<1> USE DEF CtIInv
<1>1. /\ CtEvents' = CtEvents /\ ctStep' = CtIdle
      /\ UNCHANGED <<ctCast, ctLog, ctFirst, ctCursor, ctRow, ctAnswers, ctOutbox, ctSaid>>
  BY DEF CtStops, CtStore, CtEvents
<1>2. ctCount' \in [events : Nat, faults : Nat] /\ ctCount'.events = ctCount.events
  BY Faults DEF CtStops
<1>3. CtIdle \in CtStepRow
  BY DEF CtIdle, CtStepRow
<1>4. CtTypes'
  BY <1>1, <1>2, <1>3 DEF CtTypes, CtStepRow
<1>5. OnTheWay' /\ PassedIsRecorded'
  BY <1>1, StillRecorded DEF OnTheWay, CtIdle
<1>6. DecidedOnce' /\ TellsTheDecided'
  BY <1>1 DEF DecidedOnce, TellsTheDecided
<1>7. QED
  BY <1>4, <1>5, <1>6

LEMMA StutterInv == ASSUME CtIInv, UNCHANGED CtVars PROVE CtIInv'
BY StillRecorded
DEF CtVars, CtStore, CtIInv, CtTypes, CtEvents, CtStepRow, OnTheWay, CtNeeds, DecidedOnce, TellsTheDecided

LEMMA CtStepInv == CtIInv /\ [CtNext]_CtVars => CtIInv'
BY EmitsInv, EscalatesInv, StartsInv, AcksInv, TakesInv, RetriesInv, UndecidedInv, DecidesInv,
   StumblesInv, RaisesInv, QueuesInv, CtDeliversInv, StopsInv, StutterInv DEF CtNext

\* However often the loop stops and reads again, no event that needs reasoning is passed
\* without a record, none is decided twice, and an agent is told only what was decided
\* for it and does not await the owner.
THEOREM DecidedAndTold == CtSpec => []CtInv
<1>1. CtIInv => CtInv
  BY DEF CtIInv, CtInv, PassedIsRecorded, DecidedOnce, TellsTheDecided
<1>2. QED
  BY <1>1, CtStepInv, CtInitInv, PTL DEF CtSpec

----------------------------------------------------------------------------
(* The types of the CTO bridge *)

\* A row that may still be decided has an attempt left.
TriesLeft ==
    \A e \in CtEvents :
        /\ ctRow[e].tries \in 0..CtMaxAttempts
        /\ ctRow[e].status \in {"none", "latched", "waiting_provider", "provider_error"}
              => ctRow[e].tries < CtMaxAttempts
CtTables ==
    /\ ctFirst \in -1..Len(ctLog) /\ ctRaised \subseteq CtEvents /\ ctProvider \in BOOLEAN
    /\ ctCount.faults <= ctCast.faults

\* A step that writes at most one row, with an attempt left or none to come.
LEMMA TriesWritten ==
    ASSUME CtTypes, TriesLeft, ctCast' = ctCast, NEW e \in CtEvents,
           \A x \in CtEvents : x # e => ctRow'[x] = ctRow[x],
           ctRow'[e].tries \in 0..CtMaxAttempts,
           \/ ctRow'[e].tries < CtMaxAttempts
           \/ ctRow'[e].status \notin {"none", "latched", "waiting_provider", "provider_error"}
    PROVE  TriesLeft'
<1>1. CtEvents' = CtEvents
  BY DEF CtEvents
<1>2. QED
  BY <1>1 DEF TriesLeft

\* How each step that writes a row counts.
LEMMA TriesStep == ASSUME CtIInv, TriesLeft, [CtNext]_CtVars PROVE TriesLeft'
<1> USE DEF CtIInv
<1> DEFINE e == ctStep.event
<1>1. ASSUME UNCHANGED <<ctCast, ctRow>> PROVE TriesLeft'
  BY <1>1 DEF TriesLeft, CtEvents
<1>2. CASE CtTakes
  <2> DEFINE f == ctLog[ctCursor + 1]
  <2>1. UNCHANGED <<ctCast, ctRow>> \/ (/\ CtNeeds(f) /\ ctRow[f].status = "none" /\ ctCast' = ctCast
                                        /\ ctRow' = [ctRow EXCEPT ![f].status = "latched"]
                                        /\ ctCursor \in 0..(Len(ctLog) - 1))
    BY <1>2 DEF CtTakes
  <2>2. ASSUME CtNeeds(f), ctRow[f].status = "none", ctCast' = ctCast, ctCursor \in 0..(Len(ctLog) - 1),
               ctRow' = [ctRow EXCEPT ![f].status = "latched"]
        PROVE  TriesLeft'
    <3>1. f \in CtEvents
      BY <2>2, Events DEF CtTypes, CtNeeds
    <3> HIDE DEF f
    <3>2. ctRow[f] \in CtDecision /\ ctRow[f].tries \in 0..CtMaxAttempts /\ ctRow[f].tries < CtMaxAttempts
      BY <2>2, <3>1 DEF TriesLeft, CtTypes
    <3>3. ctRow'[f].tries = ctRow[f].tries /\ \A x \in CtEvents : x # f => ctRow'[x] = ctRow[x]
      BY <2>2, <3>1, <3>2 DEF CtTypes, CtDecision
    <3>4. QED
      BY <2>2, <3>1, <3>2, <3>3, TriesWritten
  <2>3. QED
    BY <1>1, <2>1, <2>2
<1>3. ASSUME ctStep.at = "decide"
      PROVE  /\ e \in CtEvents /\ ctRow[e] \in CtDecision
             /\ ctRow[e].tries \in 0..CtMaxAttempts /\ ctRow[e].tries < CtMaxAttempts
  BY <1>3 DEF OnTheWay, TriesLeft, CtTypes
<1>4. CASE CtUndecided
  <2> DEFINE owner == ctCast.events[e].kind = "owner"
             status == IF ctRow[e].tries + 1 >= CtMaxAttempts THEN "provider_failed" ELSE "provider_error"
  <2>1. ctStep.at = "decide" /\ ctCast' = ctCast
    BY <1>4 DEF CtUndecided
  <2>2. \/ ctRow' = [ctRow EXCEPT ![e] = Attempted(ctRow[e], status, ctRow[e].tries + 1, owner)]
        \/ ctRow' = [ctRow EXCEPT ![e] = Awaiting(ctRow[e], owner)]
    BY <1>4 DEF CtUndecided, Attempted, Awaiting
  <2> HIDE DEF owner
  <2>3. CASE ctRow' = [ctRow EXCEPT ![e] = Attempted(ctRow[e], status, ctRow[e].tries + 1, owner)]
    <3>1. ctRow'[e].tries = ctRow[e].tries + 1 /\ ctRow'[e].status = status
          /\ \A x \in CtEvents : x # e => ctRow'[x] = ctRow[x]
      BY <1>3, <2>1, <2>3 DEF CtTypes, CtDecision, Attempted
    <3>2. status = "provider_failed" \/ ctRow[e].tries + 1 < CtMaxAttempts
      BY <1>3, <2>1, CtAssumption
    <3>3. ctRow'[e].tries \in 0..CtMaxAttempts
      BY <1>3, <2>1, <3>1, CtAssumption
    <3> HIDE DEF status
    <3>4. QED
      BY <1>3, <2>1, <3>1, <3>2, <3>3, TriesWritten
  <2>4. CASE ctRow' = [ctRow EXCEPT ![e] = Awaiting(ctRow[e], owner)]
    <3>1. ctRow'[e].tries = ctRow[e].tries /\ \A x \in CtEvents : x # e => ctRow'[x] = ctRow[x]
      BY <1>3, <2>1, <2>4 DEF CtTypes, CtDecision, Awaiting
    <3>2. QED
      BY <1>3, <2>1, <3>1, TriesWritten
  <2>5. QED
    BY <2>2, <2>3, <2>4
<1>5. ASSUME NEW owner \in BOOLEAN, NEW advice \in BOOLEAN, CtDecides(owner, advice) PROVE TriesLeft'
  <2> DEFINE owns == owner \/ ctCast.events[e].kind = "owner"
  <2>1. /\ ctStep.at = "decide" /\ ctCast' = ctCast
        /\ ctRow' = [ctRow EXCEPT ![e] = Settled(ctRow[e], ctRow[e].tries + 1, owns)]
    BY <1>5 DEF CtDecides, Settled
  <2> HIDE DEF owns
  <2>2. ctRow'[e].tries = ctRow[e].tries + 1 /\ ctRow'[e].status = "decided"
        /\ \A x \in CtEvents : x # e => ctRow'[x] = ctRow[x]
    BY <1>3, <2>1 DEF CtTypes, CtDecision, Settled
  <2>3. ctRow'[e].tries \in 0..CtMaxAttempts
    BY <1>3, <2>1, <2>2, CtAssumption
  <2>4. QED
    BY <1>3, <2>1, <2>2, <2>3, TriesWritten
<1>6. CASE CtRaises
  <2>1. UNCHANGED <<ctCast, ctRow>>
    BY <1>6 DEF CtRaises, OnTheWay
  <2>2. QED
    BY <1>1, <2>1
<1>9. CASE CtStumbles
  <2> DEFINE f == ctLog[ctCursor + 1]
  <2>1. /\ ctCast' = ctCast /\ CtNeeds(f) /\ ctCursor \in 0..(Len(ctLog) - 1)
        /\ ctRow' = ctRow \/ (ctRow[f].status = "none" /\ ctRow' = [ctRow EXCEPT ![f].status = "handler_error"])
    BY <1>9 DEF CtStumbles
  <2>2. f \in CtEvents
    BY <2>1, Events DEF CtTypes, CtNeeds
  <2> HIDE DEF f
  <2>3. CASE ctRow' = [ctRow EXCEPT ![f].status = "handler_error"]
    <3>1. /\ ctRow[f] \in CtDecision /\ ctRow[f].tries \in 0..CtMaxAttempts
          /\ ctRow'[f].tries = ctRow[f].tries /\ ctRow'[f].status = "handler_error"
          /\ \A x \in CtEvents : x # f => ctRow'[x] = ctRow[x]
      BY <2>2, <2>3 DEF TriesLeft, CtTypes, CtDecision
    <3>2. QED
      BY <2>1, <2>2, <3>1, TriesWritten
  <2>4. QED
    BY <1>1, <2>1, <2>3
<1>7. CASE CtQueues
  <2>1. ctCast' = ctCast /\ (ctRow' = ctRow \/ ctRow' = [ctRow EXCEPT ![e] = [ctRow[e] EXCEPT !.emitted = TRUE]])
        /\ e \in CtEvents /\ ctRow[e] \in CtDecision /\ ctRow[e].status = "decided"
    BY <1>7 DEF CtQueues, OnTheWay, CtTypes
  <2>2. CASE ctRow' = [ctRow EXCEPT ![e] = [ctRow[e] EXCEPT !.emitted = TRUE]]
    <3>1. ctRow'[e].tries = ctRow[e].tries /\ ctRow'[e].status = "decided"
          /\ \A x \in CtEvents : x # e => ctRow'[x] = ctRow[x]
      BY <2>1, <2>2 DEF CtTypes, CtDecision
    <3>2. QED
      BY <2>1, <3>1, TriesWritten DEF TriesLeft
  <2>3. QED
    BY <1>1, <2>1, <2>2
<1>8. QED
  BY <1>1, <1>2, <1>4, <1>5, <1>6, <1>7, <1>9
     DEF CtNext, CtVars, CtStore, CtEmits, CtStarts, CtRetries, CtEscalates, CtAcks, CtDelivers, CtStops

LEMMA CtTablesStep == ASSUME CtIInv, CtTables, [CtNext]_CtVars PROVE CtTables'
<1> USE DEF CtIInv, CtTypes
<1>1. ctCast' = ctCast /\ CtEvents' = CtEvents
  BY DEF CtNext, CtVars, CtEmits, CtStarts, CtTakes, CtStumbles, CtUndecided, CtRaises, CtQueues,
         CtEscalates,
         CtAcks, CtStops, CtDecides, CtRetries, CtDelivers, CtEvents
<1>2. Len(ctLog') \in Nat /\ Len(ctLog) <= Len(ctLog')
  <2>1. ctLog' = ctLog \/ \E x : ctLog' = Append(ctLog, x)
    BY DEF CtNext, CtVars, CtEmits, CtStarts, CtTakes, CtStumbles, CtUndecided, CtRaises, CtQueues,
         CtEscalates,
           CtAcks, CtStops, CtDecides, CtRetries, CtDelivers
  <2>2. QED
    BY <2>1
<1>3. ctFirst' = ctFirst \/ ctFirst' = Len(ctLog)
  BY DEF CtNext, CtVars, CtStore, CtEmits, CtStarts, CtTakes, CtStumbles, CtUndecided, CtRaises, CtQueues,
         CtEscalates,
         CtAcks, CtStops, CtDecides, CtRetries, CtDelivers
<1>4. ctProvider' \in {ctProvider, TRUE}
  BY DEF CtNext, CtVars, CtEmits, CtStarts, CtTakes, CtStumbles, CtUndecided, CtRaises, CtQueues,
         CtEscalates,
         CtAcks, CtStops, CtDecides, CtRetries, CtDelivers
<1>5. \/ ctRaised' = ctRaised \/ (ctStep.at = "decide" /\ ctRaised' = ctRaised \cup {ctStep.event})
      \/ CtStumbles /\ ctRaised' = ctRaised \cup {ctLog[ctCursor + 1]}
  BY DEF CtNext, CtVars, CtStore, CtEmits, CtStarts, CtTakes, CtStumbles, CtUndecided, CtRaises, CtQueues,
         CtEscalates,
         CtAcks, CtStops, CtDecides, CtRetries, CtDelivers
<1>6. \/ ctCount' = ctCount \/ ctCount' = [ctCount EXCEPT !.events = @ + 1]
      \/ ctCount.faults < ctCast.faults /\ ctCount' = [ctCount EXCEPT !.faults = @ + 1]
  BY DEF CtNext, CtVars, CtFault, CtEmits, CtStarts, CtTakes, CtStumbles, CtUndecided, CtRaises, CtQueues,
         CtEscalates,
         CtAcks, CtStops, CtDecides, CtRetries, CtDelivers
<1>7. ctCount'.faults <= ctCast.faults
  BY <1>6, CtAssumption DEF CtTables
<1>11. ASSUME CtStumbles PROVE ctLog[ctCursor + 1] \in CtEvents
  BY <1>11, Events DEF CtStumbles, CtNeeds
<1>8. ctRaised' \subseteq CtEvents
  BY <1>5, <1>11 DEF CtTables, OnTheWay
<1>9. ctFirst' \in -1..Len(ctLog')
  BY <1>2, <1>3 DEF CtTables
<1>10. QED
  BY <1>1, <1>4, <1>7, <1>8, <1>9 DEF CtTables

\* No event is asked about more often than the cap, however often the provider fails and
\* the loop is stopped, and the tables keep their types.
THEOREM CtTypeCorrect == CtSpec => []CtTypeOK
<1>1. CtInit => TriesLeft /\ CtTables
  <2> SUFFICES ASSUME CtInit PROVE TriesLeft /\ CtTables
    OBVIOUS
  <2>1. TriesLeft
    BY CtAssumption DEF CtInit, TriesLeft
  <2>2. CtTables
    BY CtAssumption DEF CtInit, CtTables
  <2>3. QED
    BY <2>1, <2>2
<1>2. CtIInv /\ TriesLeft /\ CtTables => CtTypeOK
  <2> SUFFICES ASSUME CtIInv, TriesLeft, CtTables PROVE CtTypeOK
    OBVIOUS
  <2>1. ctRow \in [CtEvents -> [status : CtStatus, tries : 0..CtMaxAttempts, owner : BOOLEAN, emitted : BOOLEAN]]
    BY DEF CtIInv, CtTypes, CtDecision, TriesLeft
  <2>2. ctCount \in [events : 0..Len(ctCast.events), faults : 0..ctCast.faults]
    BY CtAssumption DEF CtIInv, CtTypes, CtTables
  <2>3. QED
    BY <2>1, <2>2 DEF CtIInv, CtTypes, CtStepRow, CtTables, CtTypeOK
<1>3. CtIInv /\ [CtNext]_CtVars => CtIInv'
  BY CtStepInv
<1>4. QED
  BY <1>1, <1>2, <1>3, TriesStep, CtTablesStep, CtInitInv, PTL DEF CtSpec
=============================================================================
