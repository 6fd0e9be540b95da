------------------------------ MODULE AuthDoors ------------------------------
(***************************************************************************)
(* The device and the recovery doors (routes/device.go, routes/recovery.go)*)
(* over the store of AuthStore, with the two operations on the device      *)
(* table that only the gateway calls, registering and signing out.         *)
(*                                                                         *)
(* A request is one HTTP call.  Its handler runs beside the others and     *)
(* holds no lock between two statements, so each of its statements is an   *)
(* action of its own, and what it read earlier travels in local variables. *)
(* Only the sweep's two statements share a transaction; at READ COMMITTED  *)
(* the second one sees what others committed after the first.              *)
(***************************************************************************)
EXTENDS AuthStore, FiniteSets

CONSTANTS
    Requests,           \* HTTP calls the process may receive
    AllowUnsignedProof  \* DeviceVerify's development bypass

ASSUME AllowUnsignedProofAssumption == AllowUnsignedProof \in BOOLEAN

VARIABLES
    req,      \* each call's handler: where it is and its local variables
    session,  \* what the external SessionMinter minted for each call
    arrived   \* history: the clock and the device table as the call came in

vars == <<now, device, challenge, req, session, arrived>>

-----------------------------------------------------------------------------
(* A handler's local variables.  "since" is the clock at its latest step:  *)
(* a time.Now() evaluated between two statements reads some instant from   *)
(* there on.  "held" is the challenge ConsumeChallenge read; "sweptAt" is    *)
(* the date SignOutOtherDevices was called with and "found" what its SELECT*)
(* returned.                                                               *)

\* The signature or the secret a caller sends, judged against the challenge.
Answers == {"right", "wrong", "missing"}

Points == {"idle", "challengeDevice", "insertDeviceChallenge",
           "verifyDevice", "readForDevice", "takeForDevice",
           "insertRecoveryChallenge", "readForRecovery", "takeForRecovery",
           "sweepSelect", "sweepUpdate", "mint",
           "signOut", "signOutReread", "done"}

Request == [pc : Points,
            dev : Devices \cup {None},
            chal : Challenges \cup {None},
            subject : Members \cup {None},
            answer : Answers,
            since : Nat,
            held : Challenge,
            sweptAt : Nat,
            found : SUBSET Devices]

Idle == [pc |-> "idle", dev |-> None, chal |-> None, subject |-> None,
         answer |-> "missing", since |-> 0, held |-> NoChallenge,
         sweptAt |-> 0, found |-> {}]

Session == [challenge : Challenges \cup {None},
            device : Devices \cup {None},
            subject : Members \cup {None}]

NoSession == [challenge |-> None, device |-> None, subject |-> None]

Arrival == [at : Nat, out : SUBSET Devices, had : SUBSET Devices]

\* The points at which a handler works on a device, and on a challenge, its
\* caller named.
DevicePoints == {"challengeDevice", "insertDeviceChallenge", "verifyDevice",
                 "readForDevice", "takeForDevice", "signOut", "signOutReread"}
ChallengePoints == {"verifyDevice", "readForDevice", "takeForDevice",
                    "readForRecovery", "takeForRecovery",
                    "sweepSelect", "sweepUpdate", "mint"}

TypeOK ==
    /\ StoreTypeOK
    /\ req \in [Requests -> Request]
    /\ \A r \in Requests :
         /\ req[r].pc \in DevicePoints => req[r].dev \in Devices
         /\ req[r].pc \in ChallengePoints => req[r].chal \in Challenges
    /\ session \in [Requests -> Session]
    /\ arrived \in [Requests -> Arrival]

Init ==
    /\ StoreInit
    /\ req = [r \in Requests |-> Idle]
    /\ session = [r \in Requests |-> NoSession]
    /\ arrived = [r \in Requests |-> [at |-> 0, out |-> {}, had |-> {}]]

-----------------------------------------------------------------------------
\* The handler of r is at p.
At(r, p) == req[r].pc = p

\* The handler of r goes on to p; the caller adds what it has learnt.
Goto(r, p) == [req[r] EXCEPT !.pc = p, !.since = now]

\* The handler of r has answered and its local variables are gone.
Done == [Idle EXCEPT !.pc = "done"]
Finish(r) == req' = [req EXCEPT ![r] = Done]

\* A time.Now() the handler of r evaluates before its next statement.
Reading(r) == req[r].since .. now

-----------------------------------------------------------------------------
(* A call comes in.  The values it carries are the caller's.               *)

Arrive(r, p, d, c, m, a) ==
    /\ At(r, "idle")
    /\ req' = [req EXCEPT ![r] = [Idle EXCEPT !.pc = p, !.dev = d, !.chal = c,
                                    !.subject = m, !.answer = a, !.since = now]]
    /\ arrived' = [arrived EXCEPT ![r] =
                     [at |-> now,
                      out |-> {x \in Devices : IsSignedOut(x)},
                      had |-> {x \in Devices : HasDevice(x)}]]
    /\ UNCHANGED <<now, device, challenge, session>>

CallDeviceChallenge(r) ==
    \E d \in Devices : Arrive(r, "challengeDevice", d, None, None, "missing")

CallDeviceVerify(r) ==
    \E d \in Devices, c \in Challenges, a \in Answers :
        Arrive(r, "verifyDevice", d, c, None, a)

CallRecoveryRequest(r) ==
    \E m \in Members :
        Arrive(r, "insertRecoveryChallenge", None, None, m, "missing")

CallRecoveryVerify(r) ==
    \E c \in Challenges, a \in Answers \ {"missing"} :
        Arrive(r, "readForRecovery", None, c, None, a)

\* The gateway's signOutDevice: only ever the presenting device, "self".
CallSignOut(r) ==
    \E d \in Devices : Arrive(r, "signOut", d, None, None, "missing")

-----------------------------------------------------------------------------
(* DeviceChallenge.                                                        *)

ChallengeGetDevice(r) ==
    /\ At(r, "challengeDevice")
    /\ IF MayAuthenticate(req[r].dev)
       THEN req' = [req EXCEPT ![r] = [Goto(r, "insertDeviceChallenge")
                      EXCEPT !.subject = device[req[r].dev].subject]]
       ELSE Finish(r)
    /\ UNCHANGED <<now, device, challenge, session, arrived>>

CreateDeviceChallenge(r) ==
    /\ At(r, "insertDeviceChallenge")
    /\ \E c \in Challenges, at \in Reading(r) :
         InsertChallenge(c, "device", req[r].dev, req[r].subject, at)
    /\ Finish(r)
    /\ UNCHANGED <<now, device, session, arrived>>

-----------------------------------------------------------------------------
(* ConsumeChallenge, as both verify handlers call it: the read, judged     *)
(* against a clock read before it, then the conditional update.            *)

\* Mutant: a challenge that cannot be consumed is waited for.
ReadChallengeAgain(r, from, to) ==
    /\ At(r, from)
    /\ \E at \in Reading(r) :
         IF Consumable(challenge[req[r].chal], at)
         THEN req' = [req EXCEPT ![r] =
                        [Goto(r, to) EXCEPT !.held = challenge[req[r].chal]]]
         ELSE UNCHANGED req
    /\ UNCHANGED <<now, device, challenge, session, arrived>>

ReadChallenge(r, from, to) ==
    /\ At(r, from)
    /\ \E at \in Reading(r) :
         IF Consumable(challenge[req[r].chal], at)
         THEN req' = [req EXCEPT ![r] =
                        [Goto(r, to) EXCEPT !.held = challenge[req[r].chal]]]
         ELSE Finish(r)
    /\ UNCHANGED <<now, device, challenge, session, arrived>>

\* The update; "accepted" is what the handler asks of the answer once the
\* challenge is its own, so a refusal here has already spent the challenge.
TakeChallenge(r, from, to, accepted) ==
    /\ At(r, from)
    /\ IF UpdatesConsumed(req[r].chal)
       THEN /\ MarkConsumed(req[r].chal)
            /\ IF accepted
               THEN req' = [req EXCEPT ![r] = Goto(r, to)]
               ELSE Finish(r)
       ELSE /\ Finish(r)
            /\ UNCHANGED challenge
    /\ UNCHANGED <<now, device, session, arrived>>

-----------------------------------------------------------------------------
(* DeviceVerify.                                                           *)

VerifyGetDevice(r) ==
    /\ At(r, "verifyDevice")
    /\ IF MayAuthenticate(req[r].dev)
       THEN req' = [req EXCEPT ![r] = Goto(r, "readForDevice")]
       ELSE Finish(r)
    /\ UNCHANGED <<now, device, challenge, session, arrived>>

\* Mutant: any device may answer any device's challenge.
AnyDeviceAnswerAccepted(r) ==
    /\ req[r].held.kind = "device"
    /\ req[r].answer # "missing"
    /\ AllowUnsignedProof \/ req[r].answer = "right"

DeviceAnswerAccepted(r) ==
    /\ req[r].held.device = req[r].dev
    /\ req[r].held.kind = "device"
    /\ req[r].answer # "missing"
    /\ AllowUnsignedProof \/ req[r].answer = "right"

VerifyReadChallenge(r) == ReadChallenge(r, "readForDevice", "takeForDevice")

VerifyTakeChallenge(r) ==
    TakeChallenge(r, "takeForDevice", "mint", DeviceAnswerAccepted(r))

-----------------------------------------------------------------------------
(* RecoveryRequest and RecoveryVerify.                                     *)

CreateRecoveryChallenge(r) ==
    /\ At(r, "insertRecoveryChallenge")
    /\ \E c \in Challenges, at \in Reading(r) :
         InsertChallenge(c, "recovery", None, req[r].subject, at)
    /\ Finish(r)
    /\ UNCHANGED <<now, device, session, arrived>>

RecoveryAnswerAccepted(r) ==
    req[r].held.kind = "recovery" /\ req[r].answer = "right"

RecoveryReadChallenge(r) ==
    ReadChallenge(r, "readForRecovery", "takeForRecovery")

\* Mutant: the session is minted without the sweep before it.
RecoveryTakeChallengeUnswept(r) ==
    TakeChallenge(r, "takeForRecovery", "mint", RecoveryAnswerAccepted(r))

RecoveryTakeChallenge(r) ==
    TakeChallenge(r, "takeForRecovery", "sweepSelect", RecoveryAnswerAccepted(r))

\* SignOutOtherDevices: the transaction's SELECT, then its UPDATE by id, with
\* a date read before the first.  A SELECT that finds nothing ends the
\* transaction, and the mint is next.
SweepSelect(r) ==
    /\ At(r, "sweepSelect")
    /\ \E at \in Reading(r) :
         LET ids == LiveDevices(req[r].held.subject, None)
         IN  req' = [req EXCEPT ![r] =
                       [Goto(r, IF ids = {} THEN "mint" ELSE "sweepUpdate")
                          EXCEPT !.found = ids, !.sweptAt = at]]
    /\ UNCHANGED <<now, device, challenge, session, arrived>>

SweepUpdate(r) ==
    /\ At(r, "sweepUpdate")
    /\ SweepRows(req[r].found, req[r].sweptAt)
    /\ req' = [req EXCEPT ![r] = Goto(r, "mint")]
    /\ UNCHANGED <<now, challenge, session, arrived>>

\* Minter.Mint, the last call of both verify handlers.
Mint(r) ==
    /\ At(r, "mint")
    /\ session' = [session EXCEPT ![r] =
                     [challenge |-> req[r].chal, device |-> req[r].dev,
                      subject |-> req[r].held.subject]]
    /\ Finish(r)
    /\ UNCHANGED <<now, device, challenge, arrived>>

-----------------------------------------------------------------------------
(* SignOutDevice, and RegisterDevice, whose one statement is one action.   *)

SignOutUpdate(r) ==
    /\ At(r, "signOut")
    /\ IF HasDevice(req[r].dev)
       THEN /\ \E at \in Reading(r) :
                 device' = [device EXCEPT ![req[r].dev] =
                              SignOutRow(@, at, "self")]
            /\ req' = [req EXCEPT ![r] = Goto(r, "signOutReread")]
       ELSE /\ Finish(r)
            /\ UNCHANGED device
    /\ UNCHANGED <<now, challenge, session, arrived>>

SignOutReread(r) ==
    /\ At(r, "signOutReread")
    /\ Finish(r)
    /\ UNCHANGED <<now, device, challenge, session, arrived>>

RegisterDevice ==
    /\ \E d \in Devices, m \in Members : InsertDevice(d, m)
    /\ UNCHANGED <<now, challenge, req, session, arrived>>

-----------------------------------------------------------------------------
\* A statement or the minter fails, the caller goes away or the process dies:
\* the handler writes nothing more.  An open sweep is rolled back.
Abandon(r) ==
    /\ req[r].pc \notin {"idle", "done"}
    /\ Finish(r)
    /\ UNCHANGED <<now, device, challenge, session, arrived>>

Tick ==
    /\ now < MaxTime
    /\ now' = now + 1
    /\ UNCHANGED <<device, challenge, req, session, arrived>>

Call(r) ==
    \/ CallDeviceChallenge(r)
    \/ CallDeviceVerify(r)
    \/ CallRecoveryRequest(r)
    \/ CallRecoveryVerify(r)
    \/ CallSignOut(r)

\* The next statement of r's handler.
Step(r) ==
    \/ ChallengeGetDevice(r)
    \/ CreateDeviceChallenge(r)
    \/ VerifyGetDevice(r)
    \/ VerifyReadChallenge(r)
    \/ VerifyTakeChallenge(r)
    \/ CreateRecoveryChallenge(r)
    \/ RecoveryReadChallenge(r)
    \/ RecoveryTakeChallenge(r)
    \/ SweepSelect(r)
    \/ SweepUpdate(r)
    \/ Mint(r)
    \/ SignOutUpdate(r)
    \/ SignOutReread(r)

Next ==
    \/ \E r \in Requests : Call(r) \/ Step(r) \/ Abandon(r)
    \/ RegisterDevice
    \/ Tick

Spec == Init /\ [][Next]_vars

\* The scheduler runs every handler and every statement returns, so a handler
\* that can take its next step does.  No call has to come in, nothing has to
\* fail and the clock need not move.
Fairness == \A r \in Requests : WF_vars(Step(r))

FairSpec == Spec /\ Fairness

-----------------------------------------------------------------------------
(* What the doors promise.                                                 *)

\* Challenge: "One use only: consuming it is what stops the same answer being
\* replayed" (auth.blueprint.json).  However many calls answer one challenge,
\* at once or one after another, at most one of them is minted a session.
OneSessionPerChallenge ==
    \A r, s \in Requests :
        /\ session[r] # NoSession
        /\ session[s] # NoSession
        /\ session[r].challenge = session[s].challenge
        => r = s

\* A session answers to a spent challenge of its own door: the device door's
\* names the device the challenge was issued to and the member who holds that
\* device, the recovery door's names the member who asked and no device.
SessionMatchesChallenge ==
    \A r \in Requests : session[r] # NoSession =>
        LET s == session[r]
            c == challenge[s.challenge]
        IN  /\ c.consumed = 1
            /\ c.subject = s.subject
            /\ c.device = s.device
            /\ IF s.device = None
               THEN c.kind = "recovery"
               ELSE c.kind = "device" /\ device[s.device].subject = s.subject

\* A call that came in when the challenge it answers had expired is minted
\* nothing, however the clock reading and the two statements interleave.
ExpiredChallengeMintsNothing ==
    \A r \in Requests : session[r] # NoSession =>
        arrived[r].at < challenge[session[r].challenge].expiresAt

\* RecoveryVerify: "Before the session is minted, deliberately".  Beside a
\* recovered session no device the member held when the recovery call came in
\* is still live.
SweptBeforeRecovered ==
    \A r \in Requests : session[r] # NoSession /\ session[r].device = None =>
        \A d \in arrived[r].had :
            device[d].subject = session[r].subject => IsSignedOut(d)

\* Device: SignedOutBy is "Empty exactly when SignedOutAt is nil", also where
\* a sign-out and a sweep write the two columns of one row.
SignOutIsWhole ==
    \A d \in Devices : IsSignedOut(d) <=> device[d].signedOutBy # ""

\* A sign-out is never undone, and a recovery's is never rewritten as the
\* member's own.
SignOutIsFinal ==
    [][\A d \in Devices : IsSignedOut(d) =>
          /\ device'[d].signedOutAt # 0
          /\ device'[d].subject = device[d].subject
          /\ device[d].signedOutBy = "recovery" =>
                device'[d].signedOutBy = "recovery"]_vars

\* How far a signed-out row can still move: only the UPDATE of a sweep whose
\* SELECT saw it live rewrites it.  SignOutDevice alone keeps the first date
\* and the first reason.
OnlyStaleSweepRewrites ==
    [][\A d \in Devices : IsSignedOut(d) /\ device'[d] # device[d] =>
          \E r \in Requests : At(r, "sweepUpdate") /\ d \in req[r].found]_vars

\* "A signed-out device may never challenge or verify again": a call that
\* comes in naming a device already signed out writes nothing - no challenge
\* issued or spent, no session, no new date.
LateCallWritesNothing ==
    [][\A r \in Requests :
          req[r].dev \in arrived[r].out /\ req'[r] # req[r] =>
             UNCHANGED <<device, challenge, session>>]_vars

\* No handler waits for another: every call is answered or given up.
EveryCallEnds == \A r \in Requests : ~At(r, "idle") ~> At(r, "done")

\* The doors implement grants of one use each (OneUseGrant).
Grants == INSTANCE OneUseGrant WITH
    Tickets <- Challenges,
    Holders <- Requests,
    issued <- {c \in Challenges : HasChallenge(c)},
    spent <- {c \in Challenges : IsConsumed(c)},
    granted <- [r \in Requests |-> session[r].challenge]

GrantSpec == Grants!Spec

-----------------------------------------------------------------------------
(* What a comment of the code says and its interleavings refute.           *)

\* routes/device.go, DeviceVerify: "a challenge minted a moment before the
\* sign-out must not still be spendable".
SignedOutDeviceMintsNothing ==
    [][\A r \in Requests : session'[r] # session[r] =>
          session'[r].device = None \/ ~IsSignedOut(session'[r].device)]_vars

=============================================================================
