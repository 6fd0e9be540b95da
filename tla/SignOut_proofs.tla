---------------------------- MODULE SignOut_proofs ----------------------------
(***************************************************************************)
(* Theorems about the device table of AuthDoors, what a sign-out is and    *)
(* what can still happen to it, and about the sessions minted beside it.   *)
(***************************************************************************)
EXTENDS AuthDoors_proofs

-----------------------------------------------------------------------------
(* All that a step does to one handler and to one row.                     *)

\* The handler of s goes on from one of the points "from", its caller's device
\* and challenge kept.
Moves(s, from) ==
    /\ req[s].pc \in from
    /\ req'[s].since = now
    /\ req'[s].dev = req[s].dev
    /\ req'[s].chal = req[s].chal
    /\ arrived'[s] = arrived[s]

\* The arrival is as the call of s came in.
Arrived(s) ==
    arrived'[s] = [at |-> now,
                   out |-> {x \in Devices : IsSignedOut(x)},
                   had |-> {x \in Devices : HasDevice(x)}]

HandlerStep(s) ==
    \/ req'[s] = req[s] /\ arrived'[s] = arrived[s]
    \/ req'[s] = Done /\ arrived'[s] = arrived[s]
    \/ /\ req[s].pc = "idle"
       /\ req'[s].since = now
       /\ Arrived(s)
       /\ \/ req'[s].pc \in {"challengeDevice", "verifyDevice", "signOut"}
          \/ req'[s].pc = "readForRecovery" /\ req'[s].dev = None
          \/ /\ req'[s].pc = "insertRecoveryChallenge"
             /\ req'[s].subject \in Members /\ req'[s].dev = None
    \/ /\ Moves(s, {"challengeDevice"})
       /\ req'[s].pc = "insertDeviceChallenge"
       /\ MayAuthenticate(req[s].dev)
       /\ req'[s].subject = device[req[s].dev].subject
    \/ /\ Moves(s, {"verifyDevice"})
       /\ req'[s].pc = "readForDevice"
       /\ MayAuthenticate(req[s].dev)
    \/ /\ Moves(s, {"signOut"})
       /\ req'[s].pc = "signOutReread"
    \/ /\ \/ Moves(s, {"readForDevice"}) /\ req'[s].pc = "takeForDevice"
          \/ Moves(s, {"readForRecovery"}) /\ req'[s].pc = "takeForRecovery"
       /\ HasChallenge(req[s].chal)
       /\ \E at \in Reading(s) : at < challenge[req[s].chal].expiresAt
       /\ req'[s].held = challenge[req[s].chal]
    \/ /\ \/ /\ Moves(s, {"takeForDevice"}) /\ req'[s].pc = "mint"
             /\ DeviceAnswerAccepted(s)
          \/ /\ Moves(s, {"takeForRecovery"}) /\ req'[s].pc = "sweepSelect"
             /\ RecoveryAnswerAccepted(s)
          \/ /\ Moves(s, {"sweepUpdate"}) /\ req'[s].pc = "mint"
             /\ SweepRows(req[s].found, req[s].sweptAt)
       /\ req'[s].held = req[s].held
    \/ /\ Moves(s, {"sweepSelect"})
       /\ req'[s].held = req[s].held
       /\ req'[s].found = LiveDevices(req[s].held.subject, None)
       /\ \/ req'[s].pc = "mint" /\ req'[s].found = {}
          \/ req'[s].pc = "sweepUpdate"
       /\ req'[s].sweptAt \in Reading(s)

LEMMA HandlerSteps ==
    ASSUME TypeOK, [Next]_vars, NEW s \in Requests
    PROVE  HandlerStep(s)
<1> USE DEF TypeOK
<1>1. ASSUME NEW r \in Requests, NEW q, req' = [req EXCEPT ![r] = q], r # s,
             arrived' = arrived
      PROVE  HandlerStep(s)
  BY <1>1 DEF HandlerStep
<1>2. ASSUME NEW r \in Requests, Finish(r), arrived' = arrived
      PROVE  HandlerStep(s)
  BY <1>2 DEF HandlerStep, Finish
<1>3. ASSUME NEW r \in Requests, Call(r)
      PROVE  HandlerStep(s)
  <2>1. ASSUME NEW p \in Points, NEW d \in Devices \cup {None},
               NEW c \in Challenges \cup {None}, NEW m \in Members \cup {None},
               NEW a \in Answers, Arrive(r, p, d, c, m, a),
               \/ p \in {"challengeDevice", "verifyDevice", "signOut"}
               \/ p = "readForRecovery" /\ d = None
               \/ p = "insertRecoveryChallenge" /\ m \in Members /\ d = None
        PROVE  HandlerStep(s)
    <3> DEFINE q == [Idle EXCEPT !.pc = p, !.dev = d, !.chal = c,
                       !.subject = m, !.answer = a, !.since = now]
    <3>1. req' = [req EXCEPT ![r] = q] /\ req[r].pc = "idle"
      BY <2>1 DEF Arrive, At
    <3>2. q.pc = p /\ q.since = now /\ q.subject = m /\ q.dev = d
      BY DEF Idle
    <3> HIDE DEF q
    <3>3. IF r = s THEN Arrived(s) ELSE arrived'[s] = arrived[s]
      BY <2>1 DEF Arrive, Arrived
    <3>4. CASE r = s
      BY <2>1, <3>1, <3>2, <3>3, <3>4 DEF HandlerStep
    <3>5. CASE r # s
      BY <3>1, <3>3, <3>5 DEF HandlerStep
    <3> QED
      BY <3>4, <3>5
  <2>2. CASE CallDeviceChallenge(r)
    BY <2>1, <2>2 DEF CallDeviceChallenge, Points, Answers
  <2>3. CASE CallDeviceVerify(r)
    BY <2>1, <2>3 DEF CallDeviceVerify, Points, Answers
  <2>4. CASE CallRecoveryRequest(r)
    BY <2>1, <2>4 DEF CallRecoveryRequest, Points, Answers
  <2>5. CASE CallRecoveryVerify(r)
    BY <2>1, <2>5 DEF CallRecoveryVerify, Points, Answers
  <2>6. CASE CallSignOut(r)
    BY <2>1, <2>6 DEF CallSignOut, Points, Answers
  <2> QED
    BY <1>3, <2>2, <2>3, <2>4, <2>5, <2>6 DEF Call
<1>4. ASSUME NEW r \in Requests, NEW p \in Points
      PROVE  /\ Goto(r, p) \in Request
             /\ Goto(r, p).pc = p /\ Goto(r, p).since = now
             /\ Goto(r, p).dev = req[r].dev /\ Goto(r, p).chal = req[r].chal
             /\ Goto(r, p).held = req[r].held
  BY DEF StoreTypeOK, Goto, Request
<1>5. ASSUME NEW r \in Requests, ChallengeGetDevice(r)
      PROVE  HandlerStep(s)
  <2>0. arrived' = arrived
    BY <1>5 DEF ChallengeGetDevice
  <2>1. CASE Finish(r)
    BY <1>2, <2>0, <2>1
  <2>2. CASE ~Finish(r)
    <3> DEFINE q == [Goto(r, "insertDeviceChallenge")
                       EXCEPT !.subject = device[req[r].dev].subject]
    <3>1. req' = [req EXCEPT ![r] = q] /\ MayAuthenticate(req[r].dev)
          /\ req[r].pc = "challengeDevice"
      BY <1>5, <2>2 DEF ChallengeGetDevice, At
    <3>2. /\ q.pc = "insertDeviceChallenge" /\ q.since = now
          /\ q.dev = req[r].dev /\ q.chal = req[r].chal
          /\ q.subject = device[req[r].dev].subject
      BY <1>4 DEF Request, Points
    <3> HIDE DEF q
    <3> QED
      BY <1>1, <2>0, <3>1, <3>2 DEF HandlerStep, Moves
  <2> QED
    BY <2>1, <2>2
<1>6. ASSUME NEW r \in Requests, VerifyGetDevice(r) \/ SignOutUpdate(r)
      PROVE  HandlerStep(s)
  <2>0. arrived' = arrived
    BY <1>6 DEF VerifyGetDevice, SignOutUpdate
  <2>1. CASE Finish(r)
    BY <1>2, <2>0, <2>1
  <2>2. CASE ~Finish(r)
    <3>1. PICK p \in {"readForDevice", "signOutReread"} :
            /\ req' = [req EXCEPT ![r] = Goto(r, p)]
            /\ \/ /\ req[r].pc = "verifyDevice" /\ p = "readForDevice"
                  /\ MayAuthenticate(req[r].dev)
               \/ req[r].pc = "signOut" /\ p = "signOutReread"
      BY <1>6, <2>2 DEF VerifyGetDevice, SignOutUpdate, At
    <3>2. p \in Points
      BY DEF Points
    <3> QED
      BY <1>1, <1>4, <2>0, <3>1, <3>2 DEF HandlerStep, Moves
  <2> QED
    BY <2>1, <2>2
<1>7. ASSUME NEW r \in Requests,
             VerifyReadChallenge(r) \/ RecoveryReadChallenge(r)
      PROVE  HandlerStep(s)
  <2>0. arrived' = arrived
    BY <1>7 DEF VerifyReadChallenge, RecoveryReadChallenge, ReadChallenge
  <2>1. CASE Finish(r)
    BY <1>2, <2>0, <2>1
  <2>2. CASE ~Finish(r)
    <3>1. PICK p \in {"takeForDevice", "takeForRecovery"}, at \in Reading(r) :
            /\ req' = [req EXCEPT ![r] =
                         [Goto(r, p) EXCEPT !.held = challenge[req[r].chal]]]
            /\ HasChallenge(req[r].chal)
            /\ at < challenge[req[r].chal].expiresAt
            /\ \/ req[r].pc = "readForDevice" /\ p = "takeForDevice"
               \/ req[r].pc = "readForRecovery" /\ p = "takeForRecovery"
      BY <1>7, <2>2 DEF VerifyReadChallenge, RecoveryReadChallenge,
                        ReadChallenge, Consumable, HasChallenge, At
    <3> DEFINE q == [Goto(r, p) EXCEPT !.held = challenge[req[r].chal]]
    <3>2. p \in Points
      BY DEF Points
    <3>3. /\ q.pc = p /\ q.since = now
          /\ q.dev = req[r].dev /\ q.chal = req[r].chal
          /\ q.held = challenge[req[r].chal]
      BY <1>4, <3>2 DEF Request
    <3>4. req' = [req EXCEPT ![r] = q]
      BY <3>1
    <3> HIDE DEF q
    <3>5. CASE r = s
      <4>1. req'[s] = q
        BY <3>4, <3>5
      <4> QED
        BY <2>0, <3>1, <3>3, <3>5, <4>1 DEF HandlerStep, Moves
    <3> QED
      BY <1>1, <2>0, <3>4, <3>5
  <2> QED
    BY <2>1, <2>2
<1>8. ASSUME NEW r \in Requests,
             \/ VerifyTakeChallenge(r) \/ RecoveryTakeChallenge(r)
             \/ SweepUpdate(r)
      PROVE  HandlerStep(s)
  <2>0. arrived' = arrived
    BY <1>8 DEF VerifyTakeChallenge, RecoveryTakeChallenge, TakeChallenge,
                SweepUpdate
  <2>1. CASE Finish(r)
    BY <1>2, <2>0, <2>1
  <2>2. CASE ~Finish(r)
    <3>1. PICK p \in {"mint", "sweepSelect"} :
            /\ req' = [req EXCEPT ![r] = Goto(r, p)]
            /\ \/ /\ req[r].pc = "takeForDevice" /\ p = "mint"
                  /\ DeviceAnswerAccepted(r)
               \/ /\ req[r].pc = "takeForRecovery" /\ p = "sweepSelect"
                  /\ RecoveryAnswerAccepted(r)
               \/ /\ req[r].pc = "sweepUpdate" /\ p = "mint"
                  /\ SweepRows(req[r].found, req[r].sweptAt)
      BY <1>8, <2>2 DEF VerifyTakeChallenge, RecoveryTakeChallenge,
                        TakeChallenge, SweepUpdate, At
    <3>2. p \in Points
      BY DEF Points
    <3>3. CASE r = s
      <4>1. req'[s] = Goto(s, p)
        BY <3>1, <3>3
      <4> QED
        BY <1>4, <2>0, <3>1, <3>2, <3>3, <4>1 DEF HandlerStep, Moves
    <3> QED
      BY <1>1, <2>0, <3>1, <3>3
  <2> QED
    BY <2>1, <2>2
<1>9. ASSUME NEW r \in Requests, SweepSelect(r)
      PROVE  HandlerStep(s)
  <2> DEFINE ids == LiveDevices(req[r].held.subject, None)
  <2>1. PICK p \in {"mint", "sweepUpdate"}, at \in Reading(r) :
          /\ req' = [req EXCEPT ![r] =
                       [Goto(r, p) EXCEPT !.found = ids, !.sweptAt = at]]
          /\ req[r].pc = "sweepSelect"
          /\ p = "mint" => ids = {}
          /\ arrived' = arrived
    BY <1>9 DEF SweepSelect, At
  <2> DEFINE q == [Goto(r, p) EXCEPT !.found = ids, !.sweptAt = at]
  <2>2. p \in Points
    BY DEF Points
  <2>3. /\ q.pc = p /\ q.since = now
        /\ q.dev = req[r].dev /\ q.chal = req[r].chal
        /\ q.held = req[r].held /\ q.found = ids /\ q.sweptAt = at
    <3> HIDE DEF ids
    <3> QED
      BY <1>4, <2>2 DEF Request
  <2>4. req' = [req EXCEPT ![r] = q]
    BY <2>1
  <2> HIDE DEF q
  <2>5. CASE r = s
    <3>1. req'[s] = q
      BY <2>4, <2>5
    <3> QED
      BY <2>1, <2>3, <2>5, <3>1 DEF HandlerStep, Moves
  <2> QED
    BY <1>1, <2>1, <2>4, <2>5
<1>10. ASSUME NEW r \in Requests,
              \/ CreateDeviceChallenge(r) \/ CreateRecoveryChallenge(r)
              \/ Mint(r) \/ SignOutReread(r) \/ Abandon(r)
       PROVE  HandlerStep(s)
  BY <1>2, <1>10 DEF CreateDeviceChallenge, CreateRecoveryChallenge, Mint,
                     SignOutReread, Abandon
<1>11. CASE RegisterDevice \/ Tick \/ UNCHANGED vars
  BY <1>11 DEF RegisterDevice, Tick, vars, HandlerStep
<1> QED
  BY <1>3, <1>5, <1>6, <1>7, <1>8, <1>9, <1>10, <1>11 DEF Next, Step

RowStep(d) ==
    \/ device'[d] = device[d]
    \/ /\ ~HasDevice(d)
       /\ \E m \in Members : device'[d] = [device[d] EXCEPT !.subject = m]
    \/ \E r \in Requests : \E at \in Reading(r) :
         /\ At(r, "signOut") /\ HasDevice(d) /\ req[r].dev = d
         /\ device'[d] = SignOutRow(device[d], at, "self")
    \/ \E r \in Requests :
         /\ At(r, "sweepUpdate") /\ d \in req[r].found
         /\ device'[d] = [device[d] EXCEPT !.signedOutAt = req[r].sweptAt,
                                           !.signedOutBy = "recovery"]

LEMMA RowSteps ==
    ASSUME TypeOK, [Next]_vars, NEW d \in Devices
    PROVE  RowStep(d)
<1>0. device \in [Devices -> Device]
  BY DEF TypeOK, StoreTypeOK
<1>1. CASE UNCHANGED device
  BY <1>1 DEF RowStep
<1>2. CASE RegisterDevice
  <2>1. PICK x \in Devices, m \in Members : InsertDevice(x, m)
    BY <1>2 DEF RegisterDevice
  <2>2. CASE x = d
    <3>1. ~HasDevice(d)
      BY <2>1, <2>2 DEF InsertDevice
    <3>2. device'[d] = [device[d] EXCEPT !.subject = m]
      BY <1>0, <2>1, <2>2 DEF InsertDevice
    <3> QED
      BY <3>1, <3>2, Zenon DEF RowStep
  <2>3. CASE x # d
    BY <1>0, <2>1, <2>3 DEF InsertDevice, RowStep
  <2> QED
    BY <2>2, <2>3
<1>3. ASSUME NEW r \in Requests, SignOutUpdate(r) PROVE RowStep(d)
  <2>1. CASE device' = device
    BY <2>1 DEF RowStep
  <2>2. CASE device' # device
    <3>1. PICK at \in Reading(r) :
            /\ At(r, "signOut") /\ HasDevice(req[r].dev)
            /\ device' = [device EXCEPT ![req[r].dev] =
                            SignOutRow(device[req[r].dev], at, "self")]
      BY <1>3, <2>2, Zenon DEF SignOutUpdate
    <3>2. CASE req[r].dev = d
      <4>1. device'[d] = SignOutRow(device[d], at, "self")
        BY <1>0, <3>1, <3>2
      <4> QED
        BY <3>1, <3>2, <4>1 DEF RowStep
    <3>3. CASE req[r].dev # d
      BY <1>0, <3>1, <3>3 DEF RowStep
    <3> QED
      BY <3>2, <3>3
  <2> QED
    BY <2>1, <2>2
<1>4. ASSUME NEW r \in Requests, SweepUpdate(r) PROVE RowStep(d)
  BY <1>0, <1>4 DEF SweepUpdate, SweepRows, RowStep
<1>5. ASSUME NEW r \in Requests, Call(r) \/ Abandon(r) PROVE UNCHANGED device
  BY <1>5 DEF Call, CallDeviceChallenge, CallDeviceVerify,
       CallRecoveryRequest, CallRecoveryVerify, CallSignOut, Arrive, Abandon
<1>6. ASSUME NEW r \in Requests,
             \/ ChallengeGetDevice(r) \/ CreateDeviceChallenge(r)
             \/ VerifyGetDevice(r) \/ VerifyReadChallenge(r)
             \/ VerifyTakeChallenge(r) \/ CreateRecoveryChallenge(r)
             \/ RecoveryReadChallenge(r) \/ RecoveryTakeChallenge(r)
             \/ SweepSelect(r) \/ Mint(r) \/ SignOutReread(r)
      PROVE  UNCHANGED device
  BY <1>6 DEF ChallengeGetDevice, CreateDeviceChallenge, VerifyGetDevice,
       VerifyReadChallenge, ReadChallenge, VerifyTakeChallenge, TakeChallenge,
       CreateRecoveryChallenge, RecoveryReadChallenge, RecoveryTakeChallenge,
       SweepSelect, Mint, SignOutReread
<1>7. CASE Tick \/ UNCHANGED vars
  BY <1>1, <1>7 DEF Tick, vars
<1> QED
  BY <1>1, <1>2, <1>3, <1>4, <1>5, <1>6, <1>7 DEF Next, Step

\* A challenge comes from a handler that stands at one of the two INSERTs.
LEMMA ChallengeOrigin ==
    ASSUME TypeOK, [Next]_vars, NEW c \in Challenges,
           ~HasChallenge(c), HasChallenge(c)'
    PROVE  \E r \in Requests :
              /\ challenge'[c].subject = req[r].subject
              /\ \/ /\ req[r].pc = "insertDeviceChallenge"
                    /\ challenge'[c].kind = "device"
                    /\ challenge'[c].device = req[r].dev
                 \/ /\ req[r].pc = "insertRecoveryChallenge"
                    /\ challenge'[c].kind = "recovery"
                    /\ challenge'[c].device = None
<1>0. challenge \in [Challenges -> Challenge]
  BY DEF TypeOK, StoreTypeOK
<1>1. challenge' # challenge
  BY DEF HasChallenge
<1>2. ASSUME NEW r \in Requests,
             CreateDeviceChallenge(r) \/ CreateRecoveryChallenge(r)
      PROVE  /\ challenge'[c].subject = req[r].subject
             /\ \/ /\ req[r].pc = "insertDeviceChallenge"
                   /\ challenge'[c].kind = "device"
                   /\ challenge'[c].device = req[r].dev
                \/ /\ req[r].pc = "insertRecoveryChallenge"
                   /\ challenge'[c].kind = "recovery"
                   /\ challenge'[c].device = None
  <2>1. PICK x \in Challenges, k \in {"device", "recovery"},
             d \in Devices \cup {None}, at \in Reading(r) :
               /\ InsertChallenge(x, k, d, req[r].subject, at)
               /\ \/ /\ req[r].pc = "insertDeviceChallenge"
                     /\ k = "device" /\ d = req[r].dev
                  \/ /\ req[r].pc = "insertRecoveryChallenge"
                     /\ k = "recovery" /\ d = None
    BY <1>2 DEF CreateDeviceChallenge, CreateRecoveryChallenge, TypeOK, Request,
                At
  <2>2. x = c
    BY <1>0, <2>1 DEF InsertChallenge, HasChallenge
  <2>3. /\ challenge'[c].kind = k /\ challenge'[c].device = d
        /\ challenge'[c].subject = req[r].subject
    BY <1>0, <2>1, <2>2 DEF InsertChallenge
  <2> QED
    BY <2>1, <2>3
<1>3. ASSUME NEW r \in Requests,
             VerifyTakeChallenge(r) \/ RecoveryTakeChallenge(r)
      PROVE  FALSE
  <2>1. PICK x \in Challenges : UpdatesConsumed(x) /\ MarkConsumed(x)
    <3>1. req[r].chal \in Challenges
      BY <1>3 DEF VerifyTakeChallenge, RecoveryTakeChallenge, TakeChallenge,
                  At, TypeOK, ChallengePoints
    <3> QED
      BY <1>1, <1>3, <3>1
         DEF VerifyTakeChallenge, RecoveryTakeChallenge, TakeChallenge
  <2>2. challenge'[c].kind = challenge[c].kind
    BY <1>0, <2>1 DEF MarkConsumed, Challenge
  <2> QED
    BY <2>2 DEF HasChallenge
<1>4. ASSUME NEW r \in Requests, Call(r) \/ Abandon(r)
      PROVE  FALSE
  BY <1>1, <1>4 DEF Call, CallDeviceChallenge, CallDeviceVerify,
       CallRecoveryRequest, CallRecoveryVerify, CallSignOut, Arrive, Abandon
<1>5. ASSUME NEW r \in Requests,
             \/ ChallengeGetDevice(r) \/ VerifyGetDevice(r)
             \/ VerifyReadChallenge(r) \/ RecoveryReadChallenge(r)
             \/ SweepSelect(r) \/ SweepUpdate(r) \/ Mint(r)
             \/ SignOutUpdate(r) \/ SignOutReread(r)
      PROVE  FALSE
  BY <1>1, <1>5 DEF ChallengeGetDevice, VerifyGetDevice, VerifyReadChallenge,
       RecoveryReadChallenge, ReadChallenge, SweepSelect, SweepUpdate, Mint,
       SignOutUpdate, SignOutReread
<1>6. CASE RegisterDevice \/ Tick \/ UNCHANGED vars
  BY <1>1, <1>6 DEF RegisterDevice, Tick, vars
<1> QED
  BY <1>2, <1>3, <1>4, <1>5, <1>6 DEF Next, Step

-----------------------------------------------------------------------------
(* The invariant.  A sign-out is a date and a reason on a device that      *)
(* exists; for that no handler may hold a date of 0, and a sweep may hold  *)
(* only devices that exist, which takes every challenge to name a member.  *)

ClockInv ==
    /\ now > 0
    /\ \A r \in Requests :
         /\ req[r].pc \notin {"idle", "done"} => req[r].since > 0
         /\ req[r].pc = "sweepUpdate" => req[r].sweptAt > 0

SubjectInv ==
    /\ \A c \in Challenges : HasChallenge(c) => challenge[c].subject \in Members
    /\ \A r \in Requests :
         /\ req[r].pc \in {"insertDeviceChallenge", "insertRecoveryChallenge"}
              => req[r].subject \in Members
         /\ req[r].pc \in {"takeForDevice", "takeForRecovery"} \cup HoldingPoints
              => req[r].held.subject \in Members

RowInv ==
    /\ \A d \in Devices : IsSignedOut(d) => HasDevice(d)
    /\ \A r \in Requests :
         req[r].pc = "sweepUpdate" => \A d \in req[r].found : HasDevice(d)

SignOutInv == ClockInv /\ SubjectInv /\ RowInv /\ SignOutIsWhole

LEMMA ClockMoves ==
    ASSUME TypeOK, [Next]_vars PROVE now' \in Nat /\ now' >= now
<1>1. now' = now \/ now' = now + 1
  BY DEF Next, Tick, RegisterDevice, vars, Call, Step, Abandon,
       CallDeviceChallenge, CallDeviceVerify, CallRecoveryRequest,
       CallRecoveryVerify, CallSignOut, Arrive, ChallengeGetDevice,
       CreateDeviceChallenge, VerifyGetDevice, VerifyReadChallenge,
       ReadChallenge, VerifyTakeChallenge, TakeChallenge,
       CreateRecoveryChallenge, RecoveryReadChallenge,
       RecoveryTakeChallenge, SweepSelect, SweepUpdate, Mint,
       SignOutUpdate, SignOutReread
<1> QED
  BY <1>1 DEF TypeOK, StoreTypeOK

LEMMA ClockStep ==
    ASSUME TypeOK, ClockInv, [Next]_vars PROVE ClockInv'
<1>1. now' > 0
  BY ClockMoves DEF ClockInv, TypeOK, StoreTypeOK
<1>2. ASSUME NEW s \in Requests
      PROVE  /\ req'[s].pc \notin {"idle", "done"} => req'[s].since > 0
             /\ req'[s].pc = "sweepUpdate" => req'[s].sweptAt > 0
  <2>1. \A at \in Reading(s) : req[s].since > 0 => at > 0
    BY DEF Reading, TypeOK, StoreTypeOK, Request
  <2> QED
    BY <2>1, HandlerSteps, IdleType DEF HandlerStep, Moves, ClockInv
<1> QED
  BY <1>1, <1>2 DEF ClockInv

LEMMA SubjectStep ==
    ASSUME TypeOK, SubjectInv, [Next]_vars PROVE SubjectInv'
<1>1. ASSUME NEW c \in Challenges, HasChallenge(c)'
      PROVE  challenge'[c].subject \in Members
  <2>1. CASE HasChallenge(c)
    BY <2>1, StepKeepsChallenges DEF ChallengesKept, SubjectInv
  <2>2. CASE ~HasChallenge(c)
    BY <1>1, <2>2, ChallengeOrigin DEF SubjectInv
  <2> QED
    BY <2>1, <2>2
<1>2. ASSUME NEW s \in Requests
      PROVE  /\ req'[s].pc \in {"insertDeviceChallenge", "insertRecoveryChallenge"}
                  => req'[s].subject \in Members
             /\ req'[s].pc \in {"takeForDevice", "takeForRecovery"} \cup HoldingPoints
                  => req'[s].held.subject \in Members
  <2>1. req[s].pc = "challengeDevice" /\ MayAuthenticate(req[s].dev)
          => device[req[s].dev].subject \in Members
    BY DEF TypeOK, StoreTypeOK, DevicePoints, MayAuthenticate, HasDevice, Device
  <2>2. req[s].pc \in {"readForDevice", "readForRecovery"}
          /\ HasChallenge(req[s].chal)
          => challenge[req[s].chal].subject \in Members
    BY DEF TypeOK, ChallengePoints, SubjectInv
  <2> QED
    BY <2>1, <2>2, HandlerSteps, IdleType
       DEF HandlerStep, Moves, SubjectInv, HoldingPoints
<1> QED
  BY <1>1, <1>2 DEF SubjectInv

LEMMA SignOutColumns ==
    ASSUME NEW row \in Device, NEW at \in Nat \ {0}, NEW new,
           new = SignOutRow(row, at, "self")
    PROVE  /\ new.subject = row.subject
           /\ new.signedOutAt # 0
           /\ new.signedOutBy # ""
  BY DEF Device, SignOutRow

LEMMA RowInvStep ==
    ASSUME TypeOK, ClockInv, SubjectInv, RowInv, SignOutIsWhole, [Next]_vars
    PROVE  RowInv' /\ SignOutIsWhole'
<1>0. device \in [Devices -> Device]
  BY DEF TypeOK, StoreTypeOK
<1>1. ASSUME NEW d \in Devices
      PROVE  /\ HasDevice(d) => HasDevice(d)'
             /\ IsSignedOut(d)' => HasDevice(d)'
             /\ IsSignedOut(d)' <=> device'[d].signedOutBy # ""
  <2> USE <1>0 DEF HasDevice, IsSignedOut
  <2>1. CASE device'[d] = device[d]
    BY <2>1 DEF RowInv, SignOutIsWhole
  <2>2. ASSUME NEW m \in Members, ~HasDevice(d),
               device'[d] = [device[d] EXCEPT !.subject = m]
        PROVE  /\ HasDevice(d) => HasDevice(d)'
               /\ IsSignedOut(d)' => HasDevice(d)'
               /\ IsSignedOut(d)' <=> device'[d].signedOutBy # ""
    <3>1. /\ device'[d].subject = m
          /\ device'[d].signedOutAt = device[d].signedOutAt
          /\ device'[d].signedOutBy = device[d].signedOutBy
      BY <1>0, <2>2 DEF Device
    <3> QED
      BY <2>2, <3>1, NoneIsNoId DEF RowInv, SignOutIsWhole
  <2>3. ASSUME NEW r \in Requests, NEW at \in Reading(r), At(r, "signOut"),
               HasDevice(d),
               device'[d] = SignOutRow(device[d], at, "self")
        PROVE  HasDevice(d)' /\ IsSignedOut(d)' /\ device'[d].signedOutBy # ""
    <3>1. at \in Nat \ {0}
      BY <2>3 DEF ClockInv, Reading, At, TypeOK, StoreTypeOK, Request
    <3>2. PICK row \in Device : row = device[d]
      BY <1>0
    <3>3. PICK new : new = device'[d]
      OBVIOUS
    <3>4. new.subject = row.subject /\ new.signedOutAt # 0 /\ new.signedOutBy # ""
      <4>1. new = SignOutRow(row, at, "self")
        BY <2>3, <3>2, <3>3, Zenon
      <4> QED
        BY <3>1, <4>1, SignOutColumns, Zenon
    <3> QED
      BY <2>3, <3>2, <3>3, <3>4
  <2>4. ASSUME NEW r \in Requests, At(r, "sweepUpdate"), d \in req[r].found,
               device'[d] = [device[d] EXCEPT !.signedOutAt = req[r].sweptAt,
                                              !.signedOutBy = "recovery"]
        PROVE  HasDevice(d)' /\ IsSignedOut(d)' /\ device'[d].signedOutBy # ""
    <3>1. req[r].sweptAt > 0 /\ req[r].sweptAt \in Nat /\ HasDevice(d)
      BY <2>4 DEF ClockInv, At, TypeOK, Request, RowInv
    <3>2. /\ device'[d].subject = device[d].subject
          /\ device'[d].signedOutAt = req[r].sweptAt
          /\ device'[d].signedOutBy = "recovery"
      BY <1>0, <2>4 DEF Device
    <3> QED
      BY <3>1, <3>2
  <2> QED
    BY <2>1, <2>2, <2>3, <2>4, RowSteps DEF RowStep
<1>2. ASSUME NEW s \in Requests, req'[s].pc = "sweepUpdate",
             NEW d \in req'[s].found
      PROVE  HasDevice(d)'
  <2>1. CASE req'[s] = req[s]
    BY <1>1, <1>2, <2>1 DEF RowInv, TypeOK, Request
  <2>2. CASE /\ req[s].pc = "sweepSelect"
             /\ req'[s].found = LiveDevices(req[s].held.subject, None)
    <3>1. d \in Devices /\ HasDevice(d)
      BY <1>2, <2>2, NoneIsNoId
         DEF LiveDevices, SubjectInv, HoldingPoints, HasDevice
    <3> QED
      BY <1>1, <3>1
  <2> QED
    BY <1>2, <2>1, <2>2, HandlerSteps, IdleType DEF HandlerStep, Moves
<1> QED
  BY <1>1, <1>2 DEF RowInv, SignOutIsWhole

LEMMA SignOutInvariant == Spec => []SignOutInv
<1>1. Init => SignOutInv
  <2> SUFFICES ASSUME Init PROVE SignOutInv
    OBVIOUS
  <2>1. \A r \in Requests : req[r].pc = "idle"
    BY IdleType DEF Init
  <2>2. now = 1
    BY DEF Init, StoreInit
  <2>3. ClockInv
    BY <2>1, <2>2 DEF ClockInv
  <2>4. SubjectInv
    BY <2>1, NothingGranted DEF SubjectInv, HoldingPoints
  <2>5. \A d \in Devices : device[d] = NoDevice
    BY DEF Init, StoreInit
  <2>6. NoDevice.signedOutAt = 0 /\ NoDevice.signedOutBy = ""
    BY DEF NoDevice
  <2>7. \A d \in Devices : ~IsSignedOut(d) /\ device[d].signedOutBy = ""
    BY <2>5, <2>6, Zenon DEF IsSignedOut
  <2>8. RowInv /\ SignOutIsWhole
    BY <2>1, <2>7 DEF RowInv, SignOutIsWhole
  <2> QED
    BY <2>3, <2>4, <2>8 DEF SignOutInv
<1>2. TypeOK /\ SignOutInv /\ [Next]_vars => SignOutInv'
  BY ClockStep, SubjectStep, RowInvStep DEF SignOutInv
<1> QED
  BY <1>1, <1>2, TypeCorrect, PTL DEF Spec

-----------------------------------------------------------------------------
\* SignOutDevice and the sweep each write a date and a reason: no row ever has
\* one of the two without the other.
THEOREM SignOutWhole == Spec => []SignOutIsWhole
<1>1. SignOutInv => SignOutIsWhole
  BY DEF SignOutInv
<1> QED
  BY <1>1, SignOutInvariant, PTL

\* A device keeps its holder, and its sign-out once it has one.
LEMMA DevicesKept ==
    ASSUME TypeOK, SignOutInv, [Next]_vars, NEW d \in Devices
    PROVE  /\ HasDevice(d) => device'[d].subject = device[d].subject
           /\ IsSignedOut(d) =>
                /\ HasDevice(d)
                /\ device'[d].signedOutAt # 0
                /\ device[d].signedOutBy = "recovery" =>
                      device'[d].signedOutBy = "recovery"
<1> USE DEF IsSignedOut
<1>0. device[d] \in Device
  BY DEF TypeOK, StoreTypeOK
<1>1. IsSignedOut(d) => HasDevice(d)
  BY DEF SignOutInv, RowInv
<1>2. ASSUME NEW at, device'[d] = SignOutRow(device[d], at, "self")
      PROVE  /\ device'[d].subject = device[d].subject
             /\ IsSignedOut(d) => device'[d].signedOutAt # 0
             /\ device[d].signedOutBy = "recovery" =>
                   device'[d].signedOutBy = "recovery"
  BY <1>0, <1>2 DEF SignOutRow, Device
<1>3. ASSUME NEW r \in Requests, At(r, "sweepUpdate"),
             device'[d] = [device[d] EXCEPT !.signedOutAt = req[r].sweptAt,
                                            !.signedOutBy = "recovery"]
      PROVE  /\ device'[d].subject = device[d].subject
             /\ device'[d].signedOutAt # 0
             /\ device'[d].signedOutBy = "recovery"
  <2>1. req[r].sweptAt > 0 /\ req[r].sweptAt \in Nat
    BY <1>3 DEF SignOutInv, ClockInv, At, TypeOK, Request
  <2>2. /\ device'[d].subject = device[d].subject
        /\ device'[d].signedOutAt = req[r].sweptAt
        /\ device'[d].signedOutBy = "recovery"
    BY <1>0, <1>3 DEF Device
  <2> QED
    BY <2>1, <2>2
<1> QED
  BY <1>1, <1>2, <1>3, RowSteps DEF RowStep

\* No step undoes a sign-out, gives a signed-out device to someone else, or
\* rewrites a recovery's sign-out as the member's own.
THEOREM SignOutFinal == Spec => SignOutIsFinal
<1>1. TypeOK /\ SignOutInv /\ [Next]_vars
        => [\A d \in Devices : IsSignedOut(d) =>
              /\ device'[d].signedOutAt # 0
              /\ device'[d].subject = device[d].subject
              /\ device[d].signedOutBy = "recovery" =>
                    device'[d].signedOutBy = "recovery"]_vars
  BY DevicesKept
<1> QED
  BY <1>1, TypeCorrect, SignOutInvariant, PTL DEF Spec, SignOutIsFinal

\* SignOutDevice alone keeps the first date and the first reason: a signed-out
\* row moves only by the UPDATE of a sweep whose SELECT saw it live.
THEOREM SignOutKept == Spec => OnlyStaleSweepRewrites
<1>1. TypeOK /\ SignOutInv /\ [Next]_vars
        => [\A d \in Devices : IsSignedOut(d) /\ device'[d] # device[d] =>
              \E r \in Requests : At(r, "sweepUpdate") /\ d \in req[r].found]_vars
  <2> SUFFICES ASSUME TypeOK, SignOutInv, [Next]_vars, NEW d \in Devices,
                      IsSignedOut(d), device'[d] # device[d]
               PROVE  \E r \in Requests :
                        At(r, "sweepUpdate") /\ d \in req[r].found
    OBVIOUS
  <2>0. device[d] \in Device
    BY DEF TypeOK, StoreTypeOK
  <2>1. HasDevice(d) /\ device[d].signedOutBy # ""
    BY DEF SignOutInv, RowInv, SignOutIsWhole
  <2>2. ASSUME NEW at PROVE SignOutRow(device[d], at, "self") = device[d]
    BY <2>0, <2>1 DEF SignOutRow, Device, IsSignedOut
  <2> QED
    BY <2>1, <2>2, RowSteps DEF RowStep
<1> QED
  BY <1>1, TypeCorrect, SignOutInvariant, PTL DEF Spec, OnlyStaleSweepRewrites

-----------------------------------------------------------------------------
(* What a session stands for.  The invariant carries to the mint what the  *)
(* handler was told on its way: when its call came in, what the challenge  *)
(* says, whose device it is and what the sweep has left.                   *)

\* What was seen as a call came in is no later than its handler's clock, and
\* still holds: a device is never taken away, a sign-out never undone.
ArrivalInv ==
    \A s \in Requests :
       /\ arrived[s].at <= now
       /\ req[s].pc \notin {"idle", "done"} => arrived[s].at <= req[s].since
       /\ \A d \in arrived[s].had : HasDevice(d)
       /\ \A d \in arrived[s].out : IsSignedOut(d)

\* A challenge is a recovery's and names no device, or is a device's and names
\* the member who holds it.
ChallengeInv ==
    \A c \in Challenges : HasChallenge(c) =>
       \/ challenge[c].kind = "recovery" /\ challenge[c].device = None
       \/ /\ challenge[c].kind = "device"
          /\ challenge[c].device \in Devices
          /\ device[challenge[c].device].subject = challenge[c].subject

\* The row a handler has read is still what the challenge says, but for
\* consumed, and had not expired when the call came in.
HeldCall(s) ==
    req[s].pc \in {"takeForDevice", "takeForRecovery"} \cup HoldingPoints =>
       /\ HasChallenge(req[s].chal)
       /\ req[s].held.kind = challenge[req[s].chal].kind
       /\ req[s].held.device = challenge[req[s].chal].device
       /\ req[s].held.subject = challenge[req[s].chal].subject
       /\ req[s].held.expiresAt = challenge[req[s].chal].expiresAt
       /\ arrived[s].at < req[s].held.expiresAt

\* The recovery door's handlers name no device; the device door's mint for the
\* device the challenge names.
DoorCall(s) ==
    /\ req[s].pc \in {"insertRecoveryChallenge", "readForRecovery",
                     "takeForRecovery", "sweepSelect", "sweepUpdate"}
         => req[s].dev = None
    /\ req[s].pc = "insertDeviceChallenge" =>
         HasDevice(req[s].dev) /\ device[req[s].dev].subject = req[s].subject
    /\ req[s].pc \in {"sweepSelect", "sweepUpdate"} =>
         req[s].held.kind = "recovery"
    /\ req[s].pc = "mint" =>
         \/ req[s].held.kind = "recovery" /\ req[s].dev = None
         \/ /\ req[s].held.kind = "device" /\ req[s].dev \in Devices
            /\ req[s].held.device = req[s].dev

\* The devices the member held as the call came in are signed out or found by
\* the sweep, and past the sweep signed out.
SweptCall(s) ==
    \A d \in arrived[s].had : device[d].subject = req[s].held.subject =>
       /\ req[s].pc = "sweepUpdate" => IsSignedOut(d) \/ d \in req[s].found
       /\ req[s].pc = "mint" /\ req[s].dev = None => IsSignedOut(d)

\* A handler whose device had signed out by then gets no further than a lookup.
LateCall(s) ==
    req[s].dev \in arrived[s].out =>
       req[s].pc \in {"challengeDevice", "verifyDevice", "signOut",
                     "signOutReread"}

CallInv ==
    \A s \in Requests : HeldCall(s) /\ DoorCall(s) /\ SweptCall(s) /\ LateCall(s)

SessionInv ==
    /\ ArrivalInv /\ ChallengeInv /\ CallInv
    /\ SessionMatchesChallenge
    /\ ExpiredChallengeMintsNothing
    /\ SweptBeforeRecovered

\* All that the earlier sections prove.
KnownInv == TypeOK /\ HolderInv /\ GrantInv /\ SignOutInv

\* A session is only ever minted by its own handler.
LEMMA MintSteps ==
    ASSUME TypeOK, [Next]_vars, NEW s \in Requests
    PROVE  session'[s] = session[s] \/ Mint(s)
<1>1. ASSUME NEW r \in Requests, r # s, Mint(r)
      PROVE  session'[s] = session[s]
  BY <1>1 DEF Mint, TypeOK
<1> QED
  BY <1>1, GrantSteps

LEMMA ArrivalStep ==
    ASSUME KnownInv, ArrivalInv, [Next]_vars PROVE ArrivalInv'
<1> SUFFICES ASSUME NEW s \in Requests
             PROVE  /\ arrived'[s].at <= now'
                    /\ req'[s].pc \notin {"idle", "done"} =>
                          arrived'[s].at <= req'[s].since
                    /\ \A d \in arrived'[s].had : HasDevice(d)'
                    /\ \A d \in arrived'[s].out : IsSignedOut(d)'
  BY DEF ArrivalInv
<1>1. \A d \in Devices : /\ HasDevice(d) => HasDevice(d)'
                         /\ IsSignedOut(d) => IsSignedOut(d)'
  BY DevicesKept DEF KnownInv, HasDevice, IsSignedOut
<1>2. now \in Nat /\ now' \in Nat /\ now' >= now
  BY ClockMoves DEF KnownInv, TypeOK, StoreTypeOK
<1>3. CASE Arrived(s) /\ req'[s].since = now
  <2>1. /\ arrived'[s].at = now
        /\ \A d \in arrived'[s].had : d \in Devices /\ HasDevice(d)
        /\ \A d \in arrived'[s].out : d \in Devices /\ IsSignedOut(d)
    BY <1>3 DEF Arrived
  <2> QED
    BY <1>1, <1>2, <1>3, <2>1
<1>4. CASE arrived'[s] = arrived[s]
  <2>1. /\ arrived[s].at \in Nat /\ req[s].since \in Nat
        /\ arrived[s].had \subseteq Devices /\ arrived[s].out \subseteq Devices
    BY DEF KnownInv, TypeOK, Arrival, Request
  <2>2. /\ arrived[s].at <= now
        /\ req[s].pc \notin {"idle", "done"} => arrived[s].at <= req[s].since
        /\ \A d \in arrived[s].had : HasDevice(d)
        /\ \A d \in arrived[s].out : IsSignedOut(d)
    BY DEF ArrivalInv
  <2>3. \/ req'[s] = req[s] \/ req'[s].pc = "done" \/ req'[s].since = now
    BY HandlerSteps, IdleType DEF KnownInv, HandlerStep, Moves
  <2>4. /\ arrived'[s].at <= now'
        /\ req'[s].pc \notin {"idle", "done"} => arrived'[s].at <= req'[s].since
    BY <1>2, <1>4, <2>1, <2>2, <2>3
  <2> QED
    BY <1>1, <1>4, <2>1, <2>2, <2>4
<1> QED
  BY <1>3, <1>4, HandlerSteps DEF KnownInv, HandlerStep, Moves

LEMMA ChallengeStep ==
    ASSUME KnownInv, SessionInv, [Next]_vars PROVE ChallengeInv'
<1> SUFFICES ASSUME NEW c \in Challenges, HasChallenge(c)'
             PROVE  \/ challenge'[c].kind = "recovery" /\ challenge'[c].device = None
                    \/ /\ challenge'[c].kind = "device"
                       /\ challenge'[c].device \in Devices
                       /\ device'[challenge'[c].device].subject
                             = challenge'[c].subject
  BY DEF ChallengeInv
<1>1. \A d \in Devices : HasDevice(d) => device'[d].subject = device[d].subject
  BY DevicesKept DEF KnownInv
<1>2. CASE HasChallenge(c)
  <2>1. /\ challenge'[c].kind = challenge[c].kind
        /\ challenge'[c].device = challenge[c].device
        /\ challenge'[c].subject = challenge[c].subject
        /\ challenge[c].subject \in Members
    BY <1>2, StepKeepsChallenges
       DEF KnownInv, ChallengesKept, SignOutInv, SubjectInv
  <2> QED
    BY <1>1, <1>2, <2>1, NoneIsNoId DEF SessionInv, ChallengeInv, HasDevice
<1>3. CASE ~HasChallenge(c)
  <2>1. PICK r \in Requests :
           /\ challenge'[c].subject = req[r].subject
           /\ \/ /\ req[r].pc = "insertDeviceChallenge"
                 /\ challenge'[c].kind = "device"
                 /\ challenge'[c].device = req[r].dev
              \/ /\ req[r].pc = "insertRecoveryChallenge"
                 /\ challenge'[c].kind = "recovery"
                 /\ challenge'[c].device = None
    BY <1>3, ChallengeOrigin DEF KnownInv
  <2>2. req[r].pc = "insertDeviceChallenge" => req[r].dev \in Devices
    BY DEF KnownInv, TypeOK, DevicePoints
  <2> QED
    BY <1>1, <2>1, <2>2 DEF SessionInv, CallInv, DoorCall
<1> QED
  BY <1>2, <1>3

LEMMA HeldStep ==
    ASSUME KnownInv, SessionInv, [Next]_vars, NEW s \in Requests
    PROVE  HeldCall(s)'
<1>1. req[s].pc \in {"readForDevice", "readForRecovery", "takeForDevice",
                    "takeForRecovery"} \cup HoldingPoints
        => req[s].chal \in Challenges
  BY DEF KnownInv, TypeOK, ChallengePoints, HoldingPoints
<1>2. ChallengesKept /\ HeldCall(s)
  BY StepKeepsChallenges DEF KnownInv, SessionInv, CallInv
<1>3. \A c \in Challenges : HasChallenge(c) => HasChallenge(c)'
  BY <1>2 DEF ChallengesKept, HasChallenge
<1>4. CASE /\ arrived'[s] = arrived[s]
           /\ req'[s].chal = req[s].chal
           /\ req'[s].held = req[s].held
           /\ req[s].pc \in {"takeForDevice", "takeForRecovery"} \cup HoldingPoints
  BY <1>1, <1>2, <1>3, <1>4 DEF HeldCall, ChallengesKept
<1>5. CASE /\ arrived'[s] = arrived[s]
           /\ req'[s].chal = req[s].chal
           /\ req[s].pc \in {"readForDevice", "readForRecovery"}
           /\ HasChallenge(req[s].chal)
           /\ req'[s].held = challenge[req[s].chal]
           /\ \E at \in Reading(s) : at < challenge[req[s].chal].expiresAt
  <2>1. arrived[s].at < challenge[req[s].chal].expiresAt
    <3>1. /\ arrived[s].at \in Nat /\ req[s].since \in Nat /\ now \in Nat
          /\ arrived[s].at <= req[s].since
          /\ challenge[req[s].chal].expiresAt \in Nat
      BY <1>1, <1>5 DEF KnownInv, TypeOK, StoreTypeOK, Arrival, Request,
                        Challenge, SessionInv, ArrivalInv
    <3> QED
      BY <1>5, <3>1 DEF Reading
  <2> QED
    BY <1>1, <1>2, <1>3, <1>5, <2>1 DEF HeldCall, ChallengesKept
<1>6. CASE req'[s].pc \notin {"takeForDevice", "takeForRecovery"} \cup HoldingPoints
  BY <1>6 DEF HeldCall
<1> QED
  BY <1>4, <1>5, <1>6, HandlerSteps, IdleType
     DEF KnownInv, HandlerStep, Moves, HoldingPoints

LEMMA DoorStep ==
    ASSUME KnownInv, SessionInv, [Next]_vars, NEW s \in Requests
    PROVE  DoorCall(s)'
<1>1. DoorCall(s) /\ HandlerStep(s)
  BY HandlerSteps DEF KnownInv, SessionInv, CallInv
<1>2. req[s].pc \in DevicePoints => req[s].dev \in Devices
  BY DEF KnownInv, TypeOK
<1>3. \A d \in Devices : HasDevice(d) => HasDevice(d)' /\
                             device'[d].subject = device[d].subject
  BY DevicesKept DEF KnownInv, HasDevice
<1>4. CASE req'[s] = req[s]
  <2>1. req[s].pc = "insertDeviceChallenge" => req[s].dev \in Devices
    BY <1>2 DEF DevicePoints
  <2> QED
    BY <1>1, <1>3, <1>4, <2>1 DEF DoorCall
<1>5. CASE req'[s].pc = "insertDeviceChallenge" /\ Moves(s, {"challengeDevice"})
           /\ MayAuthenticate(req[s].dev)
           /\ req'[s].subject = device[req[s].dev].subject
  <2>1. req[s].dev \in Devices
    BY <1>2, <1>5 DEF DevicePoints, Moves
  <2> QED
    BY <1>3, <1>5, <2>1 DEF DoorCall, MayAuthenticate, Moves
<1>6. CASE Moves(s, {"takeForDevice"}) /\ req'[s].pc = "mint"
           /\ DeviceAnswerAccepted(s) /\ req'[s].held = req[s].held
  BY <1>2, <1>6 DEF DoorCall, DevicePoints, Moves, DeviceAnswerAccepted
<1>7. CASE /\ req'[s].pc \notin {"insertDeviceChallenge", "mint"}
           /\ req'[s] # req[s]
  BY <1>1, <1>7, IdleType
     DEF HandlerStep, Moves, DoorCall, RecoveryAnswerAccepted
<1>8. CASE req'[s].pc = "mint" /\ Moves(s, {"sweepSelect", "sweepUpdate"})
           /\ req'[s].held = req[s].held
  BY <1>1, <1>8 DEF DoorCall, Moves
<1> QED
  BY <1>1, <1>4, <1>5, <1>6, <1>7, <1>8, IdleType DEF HandlerStep, Moves

LEMMA SweptStep ==
    ASSUME KnownInv, SessionInv, [Next]_vars, NEW s \in Requests
    PROVE  SweptCall(s)'
<1> SUFFICES ASSUME NEW d \in arrived'[s].had,
                    device'[d].subject = req'[s].held.subject,
                    \/ req'[s].pc = "sweepUpdate"
                    \/ req'[s].pc = "mint" /\ req'[s].dev = None
             PROVE  \/ IsSignedOut(d)'
                    \/ req'[s].pc = "sweepUpdate" /\ d \in req'[s].found
  BY DEF SweptCall
<1>1. HandlerStep(s) /\ SweptCall(s)
  BY HandlerSteps DEF KnownInv, SessionInv, CallInv
<1>2. arrived'[s] = arrived[s]
  BY <1>1, IdleType DEF HandlerStep, Moves
<1>3. d \in Devices /\ HasDevice(d)
  BY <1>2 DEF KnownInv, TypeOK, Arrival, SessionInv, ArrivalInv
<1>4. /\ device'[d].subject = device[d].subject
      /\ IsSignedOut(d) => IsSignedOut(d)'
  BY <1>3, DevicesKept DEF KnownInv, IsSignedOut
<1>5. CASE req'[s] = req[s]
  BY <1>1, <1>2, <1>4, <1>5 DEF SweptCall
<1>6. CASE /\ Moves(s, {"sweepUpdate"}) /\ req'[s].pc = "mint"
           /\ SweepRows(req[s].found, req[s].sweptAt)
           /\ req'[s].held = req[s].held
  <2>1. IsSignedOut(d) \/ d \in req[s].found
    BY <1>1, <1>2, <1>4, <1>6 DEF SweptCall, Moves
  <2>2. CASE d \in req[s].found
    <3>1. req[s].sweptAt # 0
      BY <1>6 DEF Moves, KnownInv, SignOutInv, ClockInv, TypeOK, Request
    <3>2. device'[d] = [device[d] EXCEPT !.signedOutAt = req[s].sweptAt,
                                         !.signedOutBy = "recovery"]
      BY <1>3, <1>6, <2>2 DEF SweepRows
    <3>3. device[d] \in Device
      BY <1>3 DEF KnownInv, TypeOK, StoreTypeOK
    <3> QED
      BY <3>1, <3>2, <3>3 DEF Device, IsSignedOut
  <2> QED
    BY <1>4, <2>1, <2>2
<1>7. CASE /\ Moves(s, {"sweepSelect"})
           /\ req'[s].held = req[s].held
           /\ req'[s].found = LiveDevices(req[s].held.subject, None)
           /\ \/ req'[s].pc = "mint" /\ req'[s].found = {}
              \/ req'[s].pc = "sweepUpdate"
  <2>1. IsSignedOut(d) \/ d \in req'[s].found
    BY <1>3, <1>4, <1>7, NoneIsNoId DEF LiveDevices
  <2> QED
    BY <1>4, <1>7, <2>1
<1>8. CASE Moves(s, {"takeForDevice"}) /\ req'[s].pc = "mint"
  <2>1. req[s].dev \in Devices /\ req'[s].dev = req[s].dev
    BY <1>8 DEF Moves, KnownInv, TypeOK, DevicePoints
  <2> QED
    BY <1>8, <2>1, NoneIsNoId
<1> QED
  BY <1>1, <1>5, <1>6, <1>7, <1>8, IdleType DEF HandlerStep, Moves

LEMMA LateStep ==
    ASSUME KnownInv, SessionInv, [Next]_vars, NEW s \in Requests
    PROVE  LateCall(s)'
<1> SUFFICES ASSUME req'[s].dev \in arrived'[s].out
             PROVE  req'[s].pc \in {"challengeDevice", "verifyDevice",
                                   "signOut", "signOutReread"}
  BY DEF LateCall
<1>1. HandlerStep(s) /\ LateCall(s)
  BY HandlerSteps DEF KnownInv, SessionInv, CallInv
<1>2. /\ None \notin arrived[s].out
      /\ Arrived(s) => None \notin arrived'[s].out
  BY NoneIsNoId DEF KnownInv, TypeOK, Arrival, Arrived
<1>3. Done.dev = None
  BY DEF Done, Idle
<1>4. \A d \in arrived[s].out : ~MayAuthenticate(d)
  BY DEF SessionInv, ArrivalInv, MayAuthenticate
<1> QED
  BY <1>1, <1>2, <1>3, <1>4 DEF HandlerStep, Moves, LateCall

\* A session that was there stands for what it stood for; one that is minted
\* stands for what its handler was told.
LEMMA SessionStep ==
    ASSUME KnownInv, SessionInv, [Next]_vars
    PROVE  /\ SessionMatchesChallenge'
           /\ ExpiredChallengeMintsNothing'
           /\ SweptBeforeRecovered'
<1> SUFFICES ASSUME NEW s \in Requests, session'[s] # NoSession
             PROVE  /\ challenge'[session'[s].challenge].consumed = 1
                    /\ challenge'[session'[s].challenge].subject
                          = session'[s].subject
                    /\ challenge'[session'[s].challenge].device
                          = session'[s].device
                    /\ IF session'[s].device = None
                       THEN challenge'[session'[s].challenge].kind = "recovery"
                       ELSE /\ challenge'[session'[s].challenge].kind = "device"
                            /\ device'[session'[s].device].subject
                                  = session'[s].subject
                    /\ arrived'[s].at
                          < challenge'[session'[s].challenge].expiresAt
                    /\ session'[s].device = None =>
                         \A d \in arrived'[s].had :
                            device'[d].subject = session'[s].subject
                              => IsSignedOut(d)'
  BY DEF SessionMatchesChallenge, ExpiredChallengeMintsNothing,
         SweptBeforeRecovered
<1>1. PICK c, n, m : /\ c = session'[s].challenge
                     /\ n = session'[s].device
                     /\ m = session'[s].subject
  OBVIOUS
<1>2. /\ c \in Challenges /\ HasChallenge(c)
      /\ challenge[c].consumed = 1
      /\ challenge[c].subject = m /\ m \in Members
      /\ challenge[c].device = n
      /\ \/ n = None /\ challenge[c].kind = "recovery"
         \/ /\ n \in Devices /\ challenge[c].kind = "device"
            /\ device[n].subject = m
      /\ arrived'[s] = arrived[s]
      /\ arrived[s].at < challenge[c].expiresAt
      /\ n = None => \A d \in arrived[s].had :
                       device[d].subject = m => IsSignedOut(d)
  <2>1. CASE session'[s] = session[s]
    <3>1. req[s].pc = "done"
      BY <2>1 DEF KnownInv, GrantInv
    <3>2. arrived'[s] = arrived[s]
      BY <3>1, HandlerSteps DEF KnownInv, HandlerStep, Moves
    <3>3. /\ session[s] # NoSession
          /\ c = session[s].challenge /\ n = session[s].device
          /\ m = session[s].subject
      BY <1>1, <2>1
    <3>4. c \in Challenges /\ n \in Devices \cup {None}
      BY <3>3 DEF KnownInv, HolderInv, TypeOK, Session
    <3>5. /\ challenge[c].consumed = 1
          /\ challenge[c].subject = m
          /\ challenge[c].device = n
          /\ IF n = None
             THEN challenge[c].kind = "recovery"
             ELSE challenge[c].kind = "device" /\ device[n].subject = m
      BY <3>3 DEF SessionInv, SessionMatchesChallenge
    <3>6. HasChallenge(c) /\ m \in Members
      BY <3>4, <3>5 DEF KnownInv, GrantInv, IsConsumed, SignOutInv, SubjectInv
    <3>7. arrived[s].at < challenge[c].expiresAt
      BY <3>3 DEF SessionInv, ExpiredChallengeMintsNothing
    <3>8. n = None => \A d \in arrived[s].had :
                        device[d].subject = m => IsSignedOut(d)
      BY <3>3 DEF SessionInv, SweptBeforeRecovered
    <3> QED
      BY <3>2, <3>4, <3>5, <3>6, <3>7, <3>8
  <2>2. CASE Mint(s)
    <3>1. /\ session'[s].challenge = req[s].chal
          /\ session'[s].device = req[s].dev
          /\ session'[s].subject = req[s].held.subject
      BY <2>2 DEF Mint, KnownInv, TypeOK
    <3>2. /\ req[s].pc = "mint" /\ arrived'[s] = arrived[s]
          /\ c = req[s].chal /\ n = req[s].dev /\ m = req[s].held.subject
      BY <1>1, <2>2, <3>1 DEF Mint, At
    <3>3. HeldCall(s) /\ DoorCall(s) /\ SweptCall(s)
      BY DEF SessionInv, CallInv
    <3>4. c \in Challenges /\ Holds(s, c)
      BY <3>2 DEF KnownInv, TypeOK, ChallengePoints, Holds, HoldingPoints
    <3>5. HasChallenge(c) /\ challenge[c].consumed = 1
      BY <3>4 DEF KnownInv, HolderInv, IsConsumed
    <3>6. /\ challenge[c].kind = req[s].held.kind
          /\ challenge[c].device = req[s].held.device
          /\ challenge[c].subject = m
          /\ arrived[s].at < challenge[c].expiresAt
      BY <3>2, <3>3 DEF HeldCall, HoldingPoints
    <3>7. \/ n = None /\ challenge[c].kind = "recovery"
          \/ n \in Devices /\ challenge[c].kind = "device"
             /\ challenge[c].device = n
      BY <3>2, <3>3, <3>6 DEF DoorCall
    <3>8. /\ challenge[c].device = n
          /\ n # None => device[n].subject = m
      BY <3>4, <3>5, <3>6, <3>7, NoneIsNoId DEF SessionInv, ChallengeInv
    <3>9. m \in Members
      BY <3>4, <3>5, <3>6 DEF KnownInv, SignOutInv, SubjectInv
    <3>10. n = None => \A d \in arrived[s].had :
                         device[d].subject = m => IsSignedOut(d)
      BY <3>2, <3>3 DEF SweptCall
    <3> QED
      BY <3>2, <3>4, <3>5, <3>6, <3>7, <3>8, <3>9, <3>10, NoneIsNoId
  <2> QED
    BY <2>1, <2>2, MintSteps DEF KnownInv
<1>3. /\ challenge'[c].kind = challenge[c].kind
      /\ challenge'[c].device = challenge[c].device
      /\ challenge'[c].subject = challenge[c].subject
      /\ challenge'[c].expiresAt = challenge[c].expiresAt
      /\ challenge'[c].consumed = 1
  BY <1>2, StepKeepsChallenges DEF KnownInv, ChallengesKept, IsConsumed
<1>4. n \in Devices => HasDevice(n) /\ device'[n].subject = device[n].subject
  BY <1>2, NoneIsNoId, DevicesKept DEF KnownInv, HasDevice
<1>5. \A d \in arrived[s].had : /\ device'[d].subject = device[d].subject
                                /\ IsSignedOut(d) => IsSignedOut(d)'
  <2>1. \A d \in arrived[s].had : d \in Devices /\ HasDevice(d)
    BY DEF KnownInv, TypeOK, Arrival, SessionInv, ArrivalInv
  <2> QED
    BY <2>1, DevicesKept DEF KnownInv, IsSignedOut
<1> QED
  BY <1>1, <1>2, <1>3, <1>4, <1>5, NoneIsNoId

LEMMA SessionInvariant == Spec => [](KnownInv /\ SessionInv)
<1>1. Init => SessionInv
  <2> SUFFICES ASSUME Init PROVE SessionInv
    OBVIOUS
  <2>1. /\ now = 1
        /\ \A s \in Requests :
             /\ req[s].pc = "idle"
             /\ session[s] = NoSession
             /\ arrived[s].at = 0 /\ arrived[s].had = {} /\ arrived[s].out = {}
    BY IdleType DEF Init, StoreInit
  <2>2. \A c \in Challenges : ~HasChallenge(c)
    BY NothingGranted
  <2>3. ArrivalInv /\ ChallengeInv
    BY <2>1, <2>2 DEF ArrivalInv, ChallengeInv
  <2>4. CallInv
    BY <2>1 DEF CallInv, HeldCall, DoorCall, SweptCall, LateCall, HoldingPoints
  <2> QED
    BY <2>1, <2>3, <2>4
       DEF SessionInv, SessionMatchesChallenge, ExpiredChallengeMintsNothing,
           SweptBeforeRecovered
<1>2. KnownInv /\ SessionInv /\ [Next]_vars => SessionInv'
  <2> SUFFICES ASSUME KnownInv, SessionInv, [Next]_vars PROVE SessionInv'
    OBVIOUS
  <2>1. ArrivalInv'
    BY ArrivalStep DEF SessionInv
  <2>2. CallInv'
    BY HeldStep, DoorStep, SweptStep, LateStep DEF CallInv
  <2> QED
    BY <2>1, <2>2, ChallengeStep, SessionStep DEF SessionInv
<1>3. Spec => []KnownInv
  BY TypeCorrect, HolderInvariant, GrantInvariant, SignOutInvariant, PTL
     DEF KnownInv
<1> QED
  BY <1>1, <1>2, <1>3, PTL DEF Spec

-----------------------------------------------------------------------------
\* A session answers to a spent challenge of its own door, and to the device
\* and the member that challenge was issued to: whatever names a caller of
\* DeviceVerify sends, and whoever registers or signs out meanwhile.
THEOREM SessionMatches == Spec => []SessionMatchesChallenge
<1>1. SessionInv => SessionMatchesChallenge
  BY DEF SessionInv
<1> QED
  BY <1>1, SessionInvariant, PTL

\* ConsumeChallenge reads the clock no earlier than its call came in, so a
\* challenge expired by then is worth nothing at either door.
THEOREM ExpiredMintsNothing == Spec => []ExpiredChallengeMintsNothing
<1>1. SessionInv => ExpiredChallengeMintsNothing
  BY DEF SessionInv
<1> QED
  BY <1>1, SessionInvariant, PTL

\* RecoveryVerify mints only behind its sweep: no device the member held when
\* the call came in is live beside the recovered session, ever after.
THEOREM RecoverySweeps == Spec => []SweptBeforeRecovered
<1>1. SessionInv => SweptBeforeRecovered
  BY DEF SessionInv
<1> QED
  BY <1>1, SessionInvariant, PTL

\* A call that comes in naming a device signed out by then issues nothing,
\* spends nothing, dates nothing anew and is minted nothing: both device doors
\* look the device up before anything else, and SignOutDevice keeps the row.
THEOREM LateCallIdle == Spec => LateCallWritesNothing
<1>1. KnownInv /\ SessionInv /\ [Next]_vars
        => [\A r \in Requests :
              req[r].dev \in arrived[r].out /\ req'[r] # req[r] =>
                 UNCHANGED <<device, challenge, session>>]_vars
  <2> SUFFICES ASSUME KnownInv, SessionInv, [Next]_vars, NEW r \in Requests,
                      req[r].dev \in arrived[r].out, req'[r] # req[r]
               PROVE  UNCHANGED <<device, challenge, session>>
    OBVIOUS
  <2>1. Call(r) \/ Step(r) \/ Abandon(r)
    BY OwnStep DEF KnownInv
  <2>2. PICK d \in Devices : d = req[r].dev /\ IsSignedOut(d)
    BY DEF KnownInv, TypeOK, Arrival, SessionInv, ArrivalInv
  <2>3. req[r].pc \in {"challengeDevice", "verifyDevice", "signOut",
                      "signOutReread"}
    BY DEF SessionInv, CallInv, LateCall
  <2>4. CASE ChallengeGetDevice(r) \/ VerifyGetDevice(r) \/ SignOutReread(r)
             \/ Abandon(r)
    BY <2>4 DEF ChallengeGetDevice, VerifyGetDevice, SignOutReread, Abandon
  <2>5. CASE SignOutUpdate(r)
    <3>1. device \in [Devices -> Device] /\ device[d].signedOutBy # ""
      BY <2>2 DEF KnownInv, TypeOK, StoreTypeOK, SignOutInv, SignOutIsWhole
    <3>2. \A at : SignOutRow(device[d], at, "self") = device[d]
      <4>1. device[d] \in Device
        BY <3>1
      <4> QED
        BY <2>2, <3>1, <4>1 DEF SignOutRow, Device, IsSignedOut
    <3>3. device' = device
      BY <2>2, <2>5, <3>1, <3>2 DEF SignOutUpdate
    <3> QED
      BY <2>5, <3>3 DEF SignOutUpdate
  <2> QED
    BY <2>1, <2>3, <2>4, <2>5
       DEF Step, Call, CallDeviceChallenge, CallDeviceVerify,
           CallRecoveryRequest, CallRecoveryVerify, CallSignOut, Arrive, At,
           CreateDeviceChallenge, VerifyReadChallenge, ReadChallenge,
           VerifyTakeChallenge, TakeChallenge, CreateRecoveryChallenge,
           RecoveryReadChallenge, RecoveryTakeChallenge, SweepSelect,
           SweepUpdate, Mint
<1> QED
  BY <1>1, SessionInvariant, PTL DEF Spec, LateCallWritesNothing

=============================================================================
