-------------------------- MODULE WindowsIdentity --------------------------
(***************************************************************************)
(* Device identity of the Windows bridge: single-use enrollment codes, the *)
(* device secret, signed requests, the nonce table that refuses replays,   *)
(* rotation and revocation (core/windows_bridge.py), together with the     *)
(* agent half that holds the secret in a file and in the memory of a       *)
(* running process (clients/windows/owner_os_agent.py).                    *)
(*                                                                         *)
(* Every server handler here runs on the one event loop without an await,  *)
(* so it is one step.  The network keeps every signed request for ever and *)
(* may deliver it late, out of order and any number of times.  A signature *)
(* is the pair (device, secret) it was made with.                          *)
(***************************************************************************)
EXTENDS Integers, FiniteSets

CONSTANTS
    Codes,        \* enrollment codes that may be minted
    Devices,      \* device ids that may be generated
    Machines,     \* Windows PCs, each with one config file
    Nonces,       \* values a request nonce may take
    ClockSkew,    \* CLOCK_SKEW_SECS
    NonceTTL,     \* NONCE_TTL_SECS
    CodeTTL,      \* ENROLL_CODE_TTL_SECS
    Drift,        \* how far a machine's clock may be from the server's
    MaxTime,      \* bound on the clock
    MaxSecret     \* bound on the number of secrets ever generated

\* The source's values are 900 and 300: a burned nonce outlives every
\* signature that could still be fresh.
ASSUME ClockAssumption ==
    /\ ClockSkew \in Nat /\ NonceTTL \in Nat /\ CodeTTL \in Nat
    /\ NonceTTL >= 2 * ClockSkew
ASSUME BoundAssumption == MaxTime \in Nat /\ MaxSecret \in Nat /\ Drift \in Nat
\* A device id is a prefix and random hex digits.
ASSUME DeviceAssumption == "none" \notin Devices

VARIABLES
    now,       \* server clock
    code,      \* win_enrollment
    device,    \* win_device
    nonces,    \* win_nonce
    secrets,   \* how many secrets were generated so far (all are distinct)
    file,      \* agent.json of each machine
    mem,       \* identity loaded by the agent process of each machine
    sent,      \* every signed request ever put on the wire
    reply,     \* rotation reply on its way back to a machine
    lost,      \* devices whose newest secret was lost with the answer
    served,    \* requests the server has acted on
    replayed   \* requests the server has acted on twice

agentVars == <<file, mem, sent, reply, lost>>
serverVars == <<code, device, nonces, secrets, served, replayed>>
vars == <<now, agentVars, serverVars>>

NoId == [device |-> "none", secret |-> 0]
Routes == {"poll", "rotate"}
Identity == {NoId} \cup [device : Devices, secret : 1..MaxSecret]
Request == [machine : Machines, device : Devices, secret : 1..MaxSecret,
            ts : Int, nonce : Nonces, route : Routes]
CodeRow == [state : {"none", "unused", "used"}, expires : Nat,
            device : Devices \cup {"none"}]
DeviceRow == [status : {"none", "active", "revoked"}, secret : 0..MaxSecret]
NonceRow == [device : Devices, nonce : Nonces, ts : Nat]

TypeOK ==
    /\ now \in Nat
    /\ code \in [Codes -> CodeRow]
    /\ device \in [Devices -> DeviceRow]
    /\ nonces \subseteq NonceRow
    /\ secrets \in 0..MaxSecret
    /\ file \in [Machines -> Identity]
    /\ mem \in [Machines -> Identity]
    /\ sent \subseteq Request
    /\ reply \in [Machines -> Identity]
    /\ lost \subseteq Devices
    /\ served \subseteq Request
    /\ replayed \subseteq Request

Init ==
    /\ now = 0
    /\ code = [k \in Codes |-> [state |-> "none", expires |-> 0,
                               device |-> "none"]]
    /\ device = [d \in Devices |-> [status |-> "none", secret |-> 0]]
    /\ nonces = {} /\ secrets = 0
    /\ file = [m \in Machines |-> NoId]
    /\ mem = [m \in Machines |-> NoId]
    /\ reply = [m \in Machines |-> NoId]
    /\ sent = {} /\ lost = {} /\ served = {} /\ replayed = {}

----------------------------------------------------------------------------
(* Enrollment *)

CreateEnrollmentCode(k) ==
    /\ code[k].state = "none"
    /\ code' = [code EXCEPT ![k] = [state |-> "unused", expires |-> now + CodeTTL,
                                    device |-> "none"]]
    /\ UNCHANGED <<now, device, nonces, secrets, served, replayed, agentVars>>

\* Mutant: the code is not marked used.
EnrollDeviceReusable(k, d) ==
    /\ code[k].state = "unused"
    /\ code[k].expires >= now
    /\ device[d].status = "none"
    /\ secrets < MaxSecret
    /\ secrets' = secrets + 1
    /\ device' = [device EXCEPT ![d] = [status |-> "active", secret |-> secrets + 1]]
    /\ code' = [code EXCEPT ![k].device = d]
    /\ UNCHANGED <<now, nonces, served, replayed>>

\* The code is consumed in the transaction that creates the device.
EnrollDevice(k, d) ==
    /\ code[k].state = "unused"
    /\ code[k].expires >= now
    /\ device[d].status = "none"
    /\ secrets < MaxSecret
    /\ secrets' = secrets + 1
    /\ device' = [device EXCEPT ![d] = [status |-> "active", secret |-> secrets + 1]]
    /\ code' = [code EXCEPT ![k].state = "used", ![k].device = d]
    /\ UNCHANGED <<now, nonces, served, replayed>>

\* The answer, the only copy of the secret, may be lost before the machine
\* saves it.
Enroll(m, k, d) ==
    /\ EnrollDevice(k, d)
    /\ \/ /\ file' = [file EXCEPT ![m] = [device |-> d, secret |-> secrets + 1]]
          /\ lost' = lost
       \/ /\ lost' = lost \cup {d}
          /\ file' = file
    /\ UNCHANGED <<mem, sent, reply>>

(* The agent *)

\* `owner_os_agent run`: the process reads the config once, at its start.
AgentStart(m) ==
    /\ file[m] # NoId
    /\ mem[m] # file[m]
    /\ mem' = [mem EXCEPT ![m] = file[m]]
    /\ UNCHANGED <<now, file, sent, reply, lost, serverVars>>

\* Nonces are 128 random bits: no two requests are given the same one.
Sign(m, id, route, t, n) ==
    /\ id # NoId
    /\ \A r \in sent : r.nonce # n
    /\ sent' = sent \cup {[machine |-> m, device |-> id.device,
                           secret |-> id.secret, ts |-> t, nonce |-> n,
                           route |-> route]}
    /\ UNCHANGED <<now, file, mem, reply, lost, serverVars>>

Poll(m) == \E t \in (now - Drift)..(now + Drift), n \in Nonces :
               Sign(m, mem[m], "poll", t, n)

\* `owner_os_agent rotate` is a process of its own: it signs with the file.
Rotate(m) == \E t \in (now - Drift)..(now + Drift), n \in Nonces :
               Sign(m, file[m], "rotate", t, n)

\* Mutant: cmd_rotate saves a blank config with the new secret.
SaveRotatedBlank(m) ==
    /\ reply[m] # NoId
    /\ file' = [file EXCEPT ![m] = [NoId EXCEPT !.secret = reply[m].secret]]
    /\ reply' = [reply EXCEPT ![m] = NoId]
    /\ UNCHANGED <<now, mem, sent, lost, serverVars>>

\* Mutant: cmd_rotate does not save the config.
SaveRotatedForgotten(m) ==
    /\ reply[m] # NoId
    /\ reply' = [reply EXCEPT ![m] = NoId]
    /\ UNCHANGED <<now, file, mem, sent, lost, serverVars>>

\* The process writes back the whole config it loaded, with the new secret.
SaveRotated(m) ==
    /\ reply[m] # NoId
    /\ file' = [file EXCEPT ![m] = reply[m]]
    /\ reply' = [reply EXCEPT ![m] = NoId]
    /\ UNCHANGED <<now, mem, sent, lost, serverVars>>

----------------------------------------------------------------------------
(* The server *)

Abs(x) == IF x < 0 THEN -x ELSE x

Fresh(r) == Abs(now - r.ts) <= ClockSkew

Signed(r) == device[r.device].status = "active" /\ device[r.device].secret = r.secret

\* Mutant: the purge uses the freshness window.
KeptTooShort == {row \in nonces : row.ts >= now - ClockSkew}

\* Rows left after `DELETE FROM win_nonce WHERE ts < now - NONCE_TTL`.
Kept == {row \in nonces : row.ts >= now - NonceTTL}

Burned(r) == \E row \in Kept : row.device = r.device /\ row.nonce = r.nonce

\* verify_request: a collision rolls the purge back with it.
Verify(r) ==
    /\ Fresh(r) /\ Signed(r) /\ ~Burned(r)
    /\ nonces' = Kept \cup {[device |-> r.device, nonce |-> r.nonce, ts |-> now]}
    /\ served' = served \cup {r}
    /\ replayed' = replayed \cup ({r} \cap served)

ServePoll(r) ==
    /\ r.route = "poll"
    /\ Verify(r)
    /\ UNCHANGED <<now, code, device, secrets, agentVars>>

\* rotate_secret: the old secret stops working at once; the answer with the
\* new one may be lost.
ServeRotate(r) ==
    /\ r.route = "rotate"
    /\ secrets < MaxSecret
    /\ Verify(r)
    /\ secrets' = secrets + 1
    /\ device' = [device EXCEPT ![r.device].secret = secrets + 1]
    /\ \/ /\ reply' = [reply EXCEPT ![r.machine] =
                            [device |-> r.device, secret |-> secrets + 1]]
          /\ lost' = lost
       \/ /\ lost' = lost \cup {r.device}
          /\ reply' = reply
    /\ UNCHANGED <<now, code, file, mem, sent>>

RevokeDevice(d) ==
    /\ device[d].status = "active"
    /\ device' = [device EXCEPT ![d].status = "revoked"]
    /\ UNCHANGED <<now, code, nonces, secrets, served, replayed, agentVars>>

Tick ==
    /\ now < MaxTime
    /\ now' = now + 1
    /\ UNCHANGED <<agentVars, serverVars>>

Next ==
    \/ \E k \in Codes : CreateEnrollmentCode(k)
    \/ \E m \in Machines, k \in Codes, d \in Devices : Enroll(m, k, d)
    \/ \E m \in Machines : AgentStart(m) \/ Poll(m) \/ Rotate(m) \/ SaveRotated(m)
    \/ \E r \in sent : ServePoll(r) \/ ServeRotate(r)
    \/ \E d \in Devices : RevokeDevice(d)
    \/ Tick

Spec == Init /\ [][Next]_vars

----------------------------------------------------------------------------
(* Properties *)

\* A signature acts at most once, however often and however late the request
\* is delivered: the nonce row of a served request outlives its freshness
\* (verify_request purges the table before it looks a nonce up).
NoReplay == replayed = {}

\* An enrollment code makes one device: every device in the table is named by
\* exactly one used code (enroll's single-use promise).
CodeIsSingleUse ==
    \A d \in Devices : device[d].status # "none" =>
        Cardinality({k \in Codes : code[k].device = d}) = 1

\* A machine is locked out of its own device only by an answer that was lost:
\* otherwise the secret in its file, or the one on its way to it, is the
\* secret the server verifies with, whatever rotations and replays happened.
SecretHeld ==
    \A m \in Machines :
        LET held == IF reply[m] # NoId THEN reply[m] ELSE file[m]
        IN  held # NoId /\ held.device \notin lost
                => held.secret = device[held.device].secret

=============================================================================
