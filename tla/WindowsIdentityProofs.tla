----------------------- MODULE WindowsIdentityProofs -----------------------
(***************************************************************************)
(* Proofs about WindowsIdentity for every number of codes, devices,        *)
(* machines and nonces, and every value of the time constants allowed by   *)
(* ClockAssumption: requests are not replayed, a code makes one device,    *)
(* and a machine knows the secret of its device.                           *)
(***************************************************************************)
EXTENDS WindowsIdentity, FiniteSetTheorems, TLAPS

\* A served request is remembered until it is no longer fresh.
Remembered ==
    \A r \in served :
        \/ now > r.ts + ClockSkew
        \/ \E row \in nonces : /\ row.device = r.device /\ row.nonce = r.nonce
                               /\ row.ts >= r.ts - ClockSkew

ReplayInv == TypeOK /\ Remembered /\ NoReplay

\* The state of WindowsIdentity always has its declared types.
THEOREM TypeCorrect == Spec => []TypeOK
<1>1. Init => TypeOK
  BY ClockAssumption, BoundAssumption
  DEF Init, TypeOK, CodeRow, DeviceRow, Identity, NoId
<1>2. TypeOK /\ [Next]_vars => TypeOK'
  <2> SUFFICES ASSUME TypeOK, [Next]_vars PROVE TypeOK'
    OBVIOUS
  <2> USE ClockAssumption, BoundAssumption
  <2>1. ASSUME NEW k \in Codes, CreateEnrollmentCode(k) PROVE TypeOK'
    BY <2>1 DEF TypeOK, CreateEnrollmentCode, agentVars, CodeRow
  <2>2. ASSUME NEW m \in Machines, NEW k \in Codes, NEW d \in Devices, Enroll(m, k, d)
        PROVE  TypeOK'
    <3>1. code' \in [Codes -> CodeRow]
      BY <2>2 DEF TypeOK, Enroll, EnrollDevice, CodeRow
    <3>2. device' \in [Devices -> DeviceRow]
      BY <2>2 DEF TypeOK, Enroll, EnrollDevice, DeviceRow
    <3>3. file' \in [Machines -> Identity] /\ lost' \subseteq Devices
      <4>1. [device |-> d, secret |-> secrets + 1] \in Identity
        BY <2>2 DEF TypeOK, Enroll, EnrollDevice, Identity
      <4>2. QED
        BY <2>2, <4>1 DEF TypeOK, Enroll
    <3>4. QED
      BY <2>2, <3>1, <3>2, <3>3 DEF TypeOK, Enroll, EnrollDevice
  <2>3. ASSUME NEW m \in Machines, AgentStart(m) PROVE TypeOK'
    BY <2>3 DEF TypeOK, AgentStart, serverVars
  <2>4. ASSUME NEW m \in Machines, NEW id \in Identity, NEW t \in Int,
               NEW n \in Nonces, NEW route \in Routes, Sign(m, id, route, t, n)
        PROVE  TypeOK'
    <3>1. [machine |-> m, device |-> id.device, secret |-> id.secret,
           ts |-> t, nonce |-> n, route |-> route] \in Request
      BY <2>4 DEF Sign, Identity, Request
    <3>2. QED
      BY <2>4, <3>1 DEF TypeOK, Sign, serverVars
  <2>5. ASSUME NEW m \in Machines, Poll(m) \/ Rotate(m) PROVE TypeOK'
    <3>1. mem[m] \in Identity /\ file[m] \in Identity
      BY DEF TypeOK
    <3>2. \A t \in (now - Drift)..(now + Drift) : t \in Int
      BY DEF TypeOK
    <3>3. QED
      BY <2>4, <2>5, <3>1, <3>2 DEF Poll, Rotate, Routes
  <2>6. ASSUME NEW m \in Machines, SaveRotated(m) PROVE TypeOK'
    BY <2>6 DEF TypeOK, SaveRotated, serverVars, Identity
  <2>7. ASSUME NEW r \in sent, Verify(r)
        PROVE  nonces' \subseteq NonceRow /\ served' \subseteq Request
               /\ replayed' \subseteq Request
    BY <2>7 DEF TypeOK, Verify, Kept, NonceRow, Request
  <2>8. ASSUME NEW r \in sent, ServePoll(r) PROVE TypeOK'
    BY <2>7, <2>8 DEF TypeOK, ServePoll, agentVars
  <2>9. ASSUME NEW r \in sent, ServeRotate(r) PROVE TypeOK'
    <3>1. r \in Request /\ secrets + 1 \in 1..MaxSecret
      BY <2>9 DEF TypeOK, ServeRotate
    <3>2. device' \in [Devices -> DeviceRow]
      BY <2>9, <3>1 DEF TypeOK, ServeRotate, DeviceRow, Request
    <3>3. reply' \in [Machines -> Identity] /\ lost' \subseteq Devices
      <4>1. [device |-> r.device, secret |-> secrets + 1] \in Identity
        BY <3>1 DEF Identity, Request
      <4>2. QED
        BY <2>9, <3>1, <4>1 DEF TypeOK, ServeRotate, Request
    <3>4. QED
      BY <2>7, <2>9, <3>1, <3>2, <3>3 DEF TypeOK, ServeRotate
  <2>10. ASSUME NEW d \in Devices, RevokeDevice(d) PROVE TypeOK'
    BY <2>10 DEF TypeOK, RevokeDevice, DeviceRow, agentVars
  <2>11. CASE Tick
    BY <2>11 DEF TypeOK, Tick, agentVars, serverVars
  <2>12. CASE UNCHANGED vars
    BY <2>12 DEF TypeOK, vars, agentVars, serverVars
  <2>13. QED
    BY <2>1, <2>2, <2>3, <2>5, <2>6, <2>8, <2>9, <2>10, <2>11, <2>12 DEF Next
<1>3. QED
  BY <1>1, <1>2, PTL DEF Spec

\* What an accepted request leaves behind: nothing served is forgotten while
\* it is fresh, and it was not served before.
LEMMA VerifyRemembers ==
    ASSUME TypeOK, Remembered, NoReplay, NEW r \in sent, Verify(r), now' = now
    PROVE  Remembered' /\ NoReplay'
<1> USE ClockAssumption
<1>1. r \in Request /\ now \in Nat /\ r.ts \in Int
  BY DEF TypeOK, Request
<1>2. now <= r.ts + ClockSkew /\ now >= r.ts - ClockSkew
  BY <1>1 DEF Verify, Fresh, Abs
<1>3. ASSUME NEW q \in served, ~(now > q.ts + ClockSkew)
      PROVE  \E row \in Kept : /\ row.device = q.device /\ row.nonce = q.nonce
                               /\ row.ts >= q.ts - ClockSkew
  <2>1. q.ts \in Int
    BY DEF TypeOK, Request
  <2>2. PICK row \in nonces : /\ row.device = q.device /\ row.nonce = q.nonce
                              /\ row.ts >= q.ts - ClockSkew
    BY <1>3 DEF Remembered
  <2>3. row.ts \in Nat
    BY <2>2 DEF TypeOK, NonceRow
  <2>4. row.ts >= now - NonceTTL
    BY <1>1, <1>3, <2>1, <2>2, <2>3
  <2>5. QED
    BY <2>2, <2>4 DEF Kept
<1>4. r \notin served
  BY <1>1, <1>2, <1>3 DEF Verify, Burned
<1>5. NoReplay'
  BY <1>4 DEF NoReplay, Verify
<1>6. ASSUME NEW q \in served' PROVE
        \/ now' > q.ts + ClockSkew
        \/ \E row \in nonces' : /\ row.device = q.device /\ row.nonce = q.nonce
                                /\ row.ts >= q.ts - ClockSkew
  <2>1. CASE q = r
    <3> DEFINE new == [device |-> r.device, nonce |-> r.nonce, ts |-> now]
    <3>1. new \in nonces' /\ new.device = q.device /\ new.nonce = q.nonce
          /\ new.ts >= q.ts - ClockSkew
      BY <1>2, <2>1 DEF Verify
    <3>2. QED
      BY <3>1
  <2>2. CASE q \in served
    BY <1>3, <2>2 DEF Verify
  <2>3. QED
    BY <1>6, <2>1, <2>2 DEF Verify
<1>7. QED
  BY <1>5, <1>6 DEF Remembered

\* No signed request is acted on twice, for every clock skew and every nonce
\* lifetime of at least twice the skew.
THEOREM NeverReplayed == Spec => []NoReplay
<1>1. Init => Remembered /\ NoReplay
  BY DEF Init, Remembered, NoReplay
<1>2. TypeOK /\ Remembered /\ NoReplay /\ [Next]_vars => Remembered' /\ NoReplay'
  <2> SUFFICES ASSUME TypeOK, Remembered, NoReplay, [Next]_vars
               PROVE  Remembered' /\ NoReplay'
    OBVIOUS
  <2>1. ASSUME now' = now, nonces' = nonces, served' = served, replayed' = replayed
        PROVE  Remembered' /\ NoReplay'
    BY <2>1 DEF Remembered, NoReplay
  <2>2. ASSUME NEW k \in Codes, CreateEnrollmentCode(k) PROVE Remembered' /\ NoReplay'
    BY <2>1, <2>2 DEF CreateEnrollmentCode
  <2>3. ASSUME NEW m \in Machines, NEW k \in Codes, NEW d \in Devices, Enroll(m, k, d)
        PROVE  Remembered' /\ NoReplay'
    BY <2>1, <2>3 DEF Enroll, EnrollDevice
  <2>4. ASSUME NEW m \in Machines, AgentStart(m) \/ Poll(m) \/ Rotate(m) \/ SaveRotated(m)
        PROVE  Remembered' /\ NoReplay'
    BY <2>1, <2>4 DEF AgentStart, Poll, Rotate, Sign, SaveRotated, serverVars
  <2>5. ASSUME NEW r \in sent, ServePoll(r) \/ ServeRotate(r)
        PROVE  Remembered' /\ NoReplay'
    BY <2>5, VerifyRemembers DEF ServePoll, ServeRotate
  <2>6. ASSUME NEW d \in Devices, RevokeDevice(d) PROVE Remembered' /\ NoReplay'
    BY <2>1, <2>6 DEF RevokeDevice
  <2>7. CASE Tick
    <3>1. NoReplay'
      BY <2>7 DEF Tick, NoReplay, serverVars
    <3>2. \A r \in served : r.ts \in Int
      BY DEF TypeOK, Request
    <3>3. Remembered'
      BY <2>7, <3>2, ClockAssumption DEF Tick, Remembered, TypeOK, serverVars
    <3>4. QED
      BY <3>1, <3>3
  <2>8. CASE UNCHANGED vars
    BY <2>1, <2>8 DEF vars, serverVars
  <2>9. QED
    BY <2>2, <2>3, <2>4, <2>5, <2>6, <2>7, <2>8 DEF Next
<1>3. QED
  BY <1>1, <1>2, TypeCorrect, PTL DEF Spec

----------------------------------------------------------------------------
(* A code makes one device *)

\* The codes that made a device.
CodesOf(d) == {k \in Codes : code[k].device = d}

\* A code that was not used made nothing; a device is made by one code, and a device
\* that is not there by none.
Issued ==
    /\ \A k \in Codes : code[k].state # "used" => code[k].device = "none"
    /\ \A d \in Devices : IF device[d].status = "none" THEN CodesOf(d) = {}
                                                   ELSE \E k \in Codes : CodesOf(d) = {k}

LEMMA IssuedStep ==
    ASSUME TypeOK, Issued, [Next]_vars PROVE Issued'
<1> USE DeviceAssumption
<1>1. ASSUME UNCHANGED code, \A d \in Devices : device'[d].status = "none" <=> device[d].status = "none"
      PROVE  Issued'
  BY <1>1 DEF Issued, CodesOf
<1>2. ASSUME NEW k \in Codes, CreateEnrollmentCode(k) PROVE Issued'
  <2>1. /\ code'[k].device = "none" /\ code[k].device = "none"
        /\ \A j \in Codes \ {k} : code'[j] = code[j]
        /\ UNCHANGED device
    BY <1>2 DEF CreateEnrollmentCode, Issued, TypeOK
  <2>2. \A d \in Devices : CodesOf(d)' = CodesOf(d)
    BY <2>1 DEF CodesOf
  <2>3. QED
    BY <2>1, <2>2 DEF Issued
<1>3. ASSUME NEW m \in Machines, NEW k \in Codes, NEW d \in Devices, Enroll(m, k, d)
      PROVE  Issued'
  <2>1. /\ code[k].device = "none" /\ code'[k].device = d /\ code'[k].state = "used"
        /\ \A j \in Codes \ {k} : code'[j] = code[j]
        /\ device[d].status = "none" /\ device'[d].status # "none"
        /\ \A e \in Devices \ {d} : device'[e] = device[e]
    BY <1>3 DEF Enroll, EnrollDevice, Issued, TypeOK, CodeRow
  <2>2. CodesOf(d)' = {k}
    BY <2>1 DEF CodesOf, Issued
  <2>3. \A e \in Devices \ {d} : CodesOf(e)' = CodesOf(e)
    BY <2>1 DEF CodesOf
  <2>4. QED
    BY <2>1, <2>2, <2>3 DEF Issued
<1>4. ASSUME NEW m \in Machines, AgentStart(m) \/ Poll(m) \/ Rotate(m) \/ SaveRotated(m)
      PROVE  Issued'
  BY <1>1, <1>4 DEF AgentStart, Poll, Rotate, Sign, SaveRotated, serverVars
<1>5. ASSUME NEW r \in sent, ServePoll(r) \/ ServeRotate(r) PROVE Issued'
  <2>1. r.device \in Devices
    BY DEF TypeOK, Request
  <2>2. QED
    BY <1>1, <1>5, <2>1 DEF ServePoll, ServeRotate, TypeOK, DeviceRow
<1>6. ASSUME NEW d \in Devices, RevokeDevice(d) PROVE Issued'
  BY <1>1, <1>6 DEF RevokeDevice, TypeOK, DeviceRow
<1>7. CASE Tick \/ UNCHANGED vars
  BY <1>1, <1>7 DEF Tick, vars, serverVars
<1>8. QED
  BY <1>2, <1>3, <1>4, <1>5, <1>6, <1>7 DEF Next

\* Every device in the table was made by exactly one code (enroll consumes the code in
\* the transaction that creates the device), for any codes, devices and machines.
THEOREM CodeMakesOneDevice == Spec => []CodeIsSingleUse
<1>1. Init => Issued
  BY DeviceAssumption DEF Init, Issued, CodesOf
<1>2. Issued => CodeIsSingleUse
  <2> SUFFICES ASSUME Issued, NEW d \in Devices, device[d].status # "none"
               PROVE  Cardinality(CodesOf(d)) = 1
    BY DEF CodeIsSingleUse, CodesOf
  <2>1. PICK k \in Codes : CodesOf(d) = {k}
    BY DEF Issued
  <2>2. QED
    BY <2>1, FS_Singleton
<1>3. QED
  BY <1>1, <1>2, IssuedStep, TypeCorrect, PTL DEF Spec

----------------------------------------------------------------------------
(* A machine knows the secret of its device *)

\* What a machine knows of a device: in its file, its process, an answer on its way, or
\* a request it has signed.
Knows(m, d) ==
    \/ file[m].device = d \/ mem[m].device = d \/ reply[m].device = d
    \/ \E r \in sent : r.machine = m /\ r.device = d
Held(m) == IF reply[m] # NoId THEN reply[m] ELSE file[m]

\* A device that is known is in the table, and one machine knows it.
OneMachine ==
    \A m \in Machines, d \in Devices : Knows(m, d) =>
        /\ device[d].status # "none"
        /\ \A n \in Machines : Knows(n, d) => n = m
Current ==
    \A m \in Machines : Held(m) # NoId /\ Held(m).device \notin lost
                            => Held(m).secret = device[Held(m).device].secret

HeldInv == OneMachine /\ Current

LEMMA HeldIsKnown ==
    ASSUME TypeOK, NEW m \in Machines, Held(m) # NoId
    PROVE  /\ Held(m).device \in Devices /\ Knows(m, Held(m).device)
           /\ Held(m) \in [device : Devices, secret : 1..MaxSecret]
BY DEF TypeOK, Held, Knows, Identity

\* A step that teaches no machine a device, and keeps what is held and verified.
LEMMA HeldKept ==
    ASSUME TypeOK, HeldInv, UNCHANGED device, lost \subseteq lost',
           \A m \in Machines : Held(m)' = Held(m),
           \A m \in Machines, d \in Devices : Knows(m, d)' => Knows(m, d)
    PROVE  HeldInv'
BY DEF HeldInv, OneMachine, Current

\* An enrolled device was known to nobody.
LEMMA HeldEnroll ==
    ASSUME TypeOK, HeldInv, NEW m \in Machines, NEW k \in Codes, NEW d \in Devices,
           Enroll(m, k, d)
    PROVE  HeldInv'
<1>1. /\ UNCHANGED <<mem, sent, reply>> /\ lost \subseteq lost'
      /\ device[d].status = "none"
      /\ device' = [device EXCEPT ![d] = [status |-> "active", secret |-> secrets + 1]]
      /\ \/ file' = file
         \/ file' = [file EXCEPT ![m] = [device |-> d, secret |-> secrets + 1]]
  BY DEF Enroll, EnrollDevice
<1>2. \A n \in Machines : ~Knows(n, d)
  BY <1>1 DEF HeldInv, OneMachine
<1>3. \A e \in Devices \ {d} : device'[e] = device[e]
  BY <1>1 DEF TypeOK
<1>4. device'[d].status # "none" /\ device'[d].secret = secrets + 1
  BY <1>1 DEF TypeOK
<1>5. \A n \in Machines, e \in Devices : Knows(n, e)' => Knows(n, e) \/ (n = m /\ e = d)
  BY <1>1 DEF Knows, TypeOK
<1>6. OneMachine'
  BY <1>2, <1>3, <1>4, <1>5 DEF HeldInv, OneMachine
<1>7. ASSUME NEW n \in Machines, Held(n)' # NoId, Held(n)'.device \notin lost'
      PROVE  Held(n)'.secret = device'[Held(n)'.device].secret
  <2>1. CASE Held(n)' = Held(n)
    <3>1. Held(n).device \in Devices \ {d}
      BY <1>2, <1>7, <2>1, HeldIsKnown
    <3>2. Held(n).secret = device[Held(n).device].secret
      BY <1>1, <1>7, <2>1 DEF HeldInv, Current
    <3>3. QED
      BY <1>3, <2>1, <3>1, <3>2
  <2>2. CASE Held(n)' # Held(n)
    <3>1. Held(n)' = [device |-> d, secret |-> secrets + 1]
      BY <1>1, <2>2 DEF Held, TypeOK
    <3>2. QED
      BY <1>4, <3>1
  <2>3. QED
    BY <2>1, <2>2
<1>8. QED
  BY <1>6, <1>7 DEF HeldInv, Current

\* The answer to a rotation goes to the machine that asked, the only one that knows the
\* device.
LEMMA HeldRotate ==
    ASSUME TypeOK, HeldInv, NEW r \in sent, ServeRotate(r) PROVE HeldInv'
<1> DEFINE d == r.device
           m == r.machine
<1>1. d \in Devices /\ m \in Machines /\ Knows(m, d)
  BY DEF TypeOK, Request, Knows
<1>2. /\ UNCHANGED <<file, mem, sent>> /\ device[d].status # "none"
      /\ device' = [device EXCEPT ![d].secret = secrets + 1]
      /\ \/ lost' = lost /\ reply' = [reply EXCEPT ![m] = [device |-> d, secret |-> secrets + 1]]
         \/ lost' = lost \cup {d} /\ reply' = reply
  BY <1>1 DEF ServeRotate, HeldInv, OneMachine
<1> HIDE DEF d, m
<1>3. \A e \in Devices \ {d} : device'[e] = device[e]
  BY <1>1, <1>2 DEF TypeOK
<1>4. device'[d].status # "none" /\ device'[d].secret = secrets + 1
  BY <1>1, <1>2 DEF TypeOK, DeviceRow
<1>5. \A n \in Machines, e \in Devices : Knows(n, e)' => Knows(n, e)
  BY <1>1, <1>2 DEF Knows, TypeOK
<1>6. OneMachine'
  BY <1>3, <1>4, <1>5 DEF HeldInv, OneMachine
<1>7. ASSUME NEW n \in Machines, Held(n)' # NoId, Held(n)'.device \notin lost'
      PROVE  Held(n)'.secret = device'[Held(n)'.device].secret
  <2>1. CASE Held(n)' = Held(n)
    <3>1. Held(n).device \in Devices /\ Knows(n, Held(n).device)
      BY <1>7, <2>1, HeldIsKnown
    <3>2. Held(n).secret = device[Held(n).device].secret
      BY <1>2, <1>7, <2>1 DEF HeldInv, Current
    <3>3. CASE Held(n).device # d
      BY <1>3, <2>1, <3>1, <3>2, <3>3
    <3>4. CASE Held(n).device = d
      <4>1. n = m
        BY <1>1, <3>1, <3>4 DEF HeldInv, OneMachine
      <4>2. d \notin lost'
        BY <1>7, <2>1, <3>4
      <4>3. reply' = [reply EXCEPT ![m] = [device |-> d, secret |-> secrets + 1]]
        BY <1>2, <4>2
      <4>4. reply'[n] = [device |-> d, secret |-> secrets + 1]
        BY <1>1, <4>1, <4>3 DEF TypeOK
      <4>5. Held(n)' = [device |-> d, secret |-> secrets + 1]
        BY <1>1, <4>4, DeviceAssumption DEF Held, NoId
      <4>6. QED
        BY <1>4, <4>5
    <3>5. QED
      BY <3>3, <3>4
  <2>2. CASE Held(n)' # Held(n)
    <3>1. Held(n)' = [device |-> d, secret |-> secrets + 1]
      <4>1. file' = file /\ reply'[n] # reply[n]
        BY <1>2, <2>2 DEF Held
      <4>2. reply' = [reply EXCEPT ![m] = [device |-> d, secret |-> secrets + 1]]
        BY <1>2, <4>1
      <4>3. n = m /\ reply'[n] = [device |-> d, secret |-> secrets + 1]
        BY <1>1, <4>1, <4>2 DEF TypeOK
      <4>4. reply'[n] # NoId
        BY <1>1, <4>3, DeviceAssumption DEF NoId
      <4>5. QED
        BY <4>3, <4>4 DEF Held
    <3>2. QED
      BY <1>4, <3>1
  <2>3. QED
    BY <2>1, <2>2
<1>8. QED
  BY <1>6, <1>7 DEF HeldInv, Current

LEMMA HeldStep ==
    ASSUME TypeOK, HeldInv, [Next]_vars PROVE HeldInv'
<1>1. ASSUME NEW k \in Codes, CreateEnrollmentCode(k) PROVE HeldInv'
  BY <1>1, HeldKept DEF CreateEnrollmentCode, agentVars, Held, Knows
<1>2. ASSUME NEW m \in Machines, AgentStart(m) PROVE HeldInv'
  BY <1>2, HeldKept DEF AgentStart, serverVars, Held, Knows, TypeOK
<1>3. ASSUME NEW m \in Machines, Poll(m) \/ Rotate(m) PROVE HeldInv'
  <2>1. PICK id \in {file[m], mem[m]}, t \in (now - Drift)..(now + Drift), n \in Nonces,
             route \in {"poll", "rotate"} : Sign(m, id, route, t, n)
    BY <1>3 DEF Poll, Rotate
  <2>2. \A e \in Machines, d \in Devices : Knows(e, d)' => Knows(e, d)
    BY <2>1 DEF Sign, Knows
  <2>3. QED
    BY <2>1, <2>2, HeldKept DEF Sign, serverVars, Held
<1>4. ASSUME NEW m \in Machines, SaveRotated(m) PROVE HeldInv'
  <2>1. \A e \in Machines : Held(e)' = Held(e)
    BY <1>4 DEF SaveRotated, Held, TypeOK
  <2>2. \A e \in Machines, d \in Devices : Knows(e, d)' => Knows(e, d)
    BY <1>4, DeviceAssumption DEF SaveRotated, Knows, TypeOK, NoId
  <2>3. QED
    BY <1>4, <2>1, <2>2, HeldKept DEF SaveRotated, serverVars
<1>5. ASSUME NEW r \in sent, ServePoll(r) PROVE HeldInv'
  BY <1>5, HeldKept DEF ServePoll, agentVars, Held, Knows
<1>6. ASSUME NEW d \in Devices, RevokeDevice(d) PROVE HeldInv'
  <2>1. /\ \A e \in Devices : device'[e].secret = device[e].secret
        /\ \A e \in Devices : device[e].status # "none" => device'[e].status # "none"
    BY <1>6 DEF RevokeDevice, TypeOK, DeviceRow
  <2>2. OneMachine'
    BY <1>6, <2>1 DEF RevokeDevice, agentVars, HeldInv, OneMachine, Knows
  <2>3. Current'
    BY <1>6, <2>1, HeldIsKnown DEF RevokeDevice, agentVars, HeldInv, Current, Held
  <2>4. QED
    BY <2>2, <2>3 DEF HeldInv
<1>7. CASE Tick \/ UNCHANGED vars
  BY <1>7, HeldKept DEF Tick, vars, agentVars, serverVars, Held, Knows
<1>8. QED
  BY <1>1, <1>2, <1>3, <1>4, <1>5, <1>6, <1>7, HeldEnroll, HeldRotate DEF Next

\* A machine loses its own device only with an answer that was lost: otherwise the newest
\* secret is in its file or on its way to it, for any number of machines and devices and
\* whatever rotations, re-enrollments and repeated deliveries happened.
THEOREM SecretIsHeld == Spec => []SecretHeld
<1>1. Init => HeldInv
  BY DeviceAssumption DEF Init, HeldInv, OneMachine, Current, Knows, Held, NoId
<1>2. HeldInv => SecretHeld
  BY DEF HeldInv, Current, SecretHeld, Held
<1>3. QED
  BY <1>1, <1>2, HeldStep, TypeCorrect, PTL DEF Spec
=============================================================================
