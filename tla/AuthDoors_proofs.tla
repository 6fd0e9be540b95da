--------------------------- MODULE AuthDoors_proofs ---------------------------
(***************************************************************************)
(* Theorems about AuthDoors, for every set of devices, members, challenges *)
(* and calls.                                                              *)
(***************************************************************************)
EXTENDS AuthDoors, TLAPS

-----------------------------------------------------------------------------
(* Type correctness.                                                       *)

\* The empty rows and records are typed.
LEMMA IdleType ==
    /\ Idle \in Request /\ Done \in Request /\ NoSession \in Session
    /\ Idle.pc = "idle" /\ Done.pc = "done"
    /\ NoDevice \in Device /\ NoChallenge \in Challenge
  BY DEF Idle, Done, NoSession, Request, Session, NoChallenge, Challenge,
         Points, Answers, NoDevice, Device, Reasons

\* A handler that goes on keeps its local variables, and they stay typed.
LEMMA GotoType ==
    ASSUME TypeOK, NEW r \in Requests, NEW p \in Points
    PROVE  /\ Goto(r, p) \in Request
           /\ Goto(r, p).pc = p
           /\ Goto(r, p).dev = req[r].dev
           /\ Goto(r, p).chal = req[r].chal
  BY DEF TypeOK, StoreTypeOK, Goto, Request

\* A handler's step leaves the table of handlers typed when the handler it
\* moves ends up with a typed record whose names are set.
LEMMA ReqType ==
    ASSUME TypeOK, NEW r \in Requests, NEW q \in Request,
           q.pc \in DevicePoints => q.dev \in Devices,
           q.pc \in ChallengePoints => q.chal \in Challenges,
           req' = [req EXCEPT ![r] = q],
           StoreTypeOK',
           session' \in [Requests -> Session],
           arrived' \in [Requests -> Arrival]
    PROVE  TypeOK'
  BY DEF TypeOK

LEMMA FinishType ==
    ASSUME TypeOK, NEW r \in Requests, Finish(r), StoreTypeOK',
           session' \in [Requests -> Session],
           arrived' \in [Requests -> Arrival]
    PROVE  TypeOK'
  BY IdleType, ReqType DEF Finish, DevicePoints, ChallengePoints

LEMMA ArriveType ==
    ASSUME TypeOK, NEW r \in Requests, NEW p \in Points,
           NEW d \in Devices \cup {None}, NEW c \in Challenges \cup {None},
           NEW m \in Members \cup {None}, NEW a \in Answers,
           p \in DevicePoints => d \in Devices,
           p \in ChallengePoints => c \in Challenges,
           Arrive(r, p, d, c, m, a)
    PROVE  TypeOK'
<1> DEFINE q == [Idle EXCEPT !.pc = p, !.dev = d, !.chal = c, !.subject = m,
                             !.answer = a, !.since = now]
<1>1. q \in Request /\ q.pc = p /\ q.dev = d /\ q.chal = c
  BY IdleType DEF Request, TypeOK, StoreTypeOK
<1>2. req' = [req EXCEPT ![r] = q] /\ StoreTypeOK'
  BY DEF Arrive, TypeOK, StoreTypeOK
<1>3. session' \in [Requests -> Session] /\ arrived' \in [Requests -> Arrival]
  BY DEF Arrive, Arrival, TypeOK, StoreTypeOK
<1> QED
  BY <1>1, <1>2, <1>3, ReqType

LEMMA ReadChallengeType ==
    ASSUME TypeOK, NEW r \in Requests, NEW p, NEW q \in ChallengePoints,
           req[r].chal \in Challenges,
           q \in DevicePoints => req[r].dev \in Devices,
           ReadChallenge(r, p, q)
    PROVE  TypeOK'
<1> DEFINE next == [Goto(r, q) EXCEPT !.held = challenge[req[r].chal]]
<1>1. /\ StoreTypeOK' /\ session' \in [Requests -> Session]
      /\ arrived' \in [Requests -> Arrival]
  BY DEF ReadChallenge, TypeOK, StoreTypeOK
<1>2. CASE Finish(r)
  BY <1>1, <1>2, FinishType
<1>3. CASE req' = [req EXCEPT ![r] = next]
  <2>1. q \in Points
    BY DEF ChallengePoints, Points
  <2>2. challenge[req[r].chal] \in Challenge
    BY DEF TypeOK, StoreTypeOK
  <2>3. next \in Request /\ next.pc = q /\ next.dev = req[r].dev
                         /\ next.chal = req[r].chal
    BY <2>1, <2>2, GotoType DEF Request
  <2> QED
    BY <1>1, <1>3, <2>3, ReqType
<1> QED
  BY <1>2, <1>3 DEF ReadChallenge

\* A challenge marked consumed is a challenge.
LEMMA ConsumedType ==
    ASSUME NEW row \in Challenge
    PROVE  [row EXCEPT !.consumed = 1] \in Challenge
  BY DEF Challenge

LEMMA TakeChallengeType ==
    ASSUME TypeOK, NEW r \in Requests, NEW p, NEW q \in ChallengePoints,
           NEW ok, req[r].chal \in Challenges, q \notin DevicePoints,
           TakeChallenge(r, p, q, ok)
    PROVE  TypeOK'
<1>0. challenge' \in [Challenges -> Challenge]
  <2>1. challenge \in [Challenges -> Challenge]
    BY DEF TypeOK, StoreTypeOK
  <2>2. MarkConsumed(req[r].chal) \/ UNCHANGED challenge
    BY DEF TakeChallenge
  <2> QED
    BY <2>1, <2>2, ConsumedType DEF MarkConsumed
<1>1. /\ StoreTypeOK' /\ session' \in [Requests -> Session]
      /\ arrived' \in [Requests -> Arrival]
  BY <1>0 DEF TakeChallenge, TypeOK, StoreTypeOK
<1>2. CASE Finish(r)
  BY <1>1, <1>2, FinishType
<1>3. CASE req' = [req EXCEPT ![r] = Goto(r, q)]
  <2>1. q \in Points
    BY DEF ChallengePoints, Points
  <2> QED
    BY <1>1, <1>3, <2>1, GotoType, ReqType
<1> QED
  BY <1>2, <1>3 DEF TakeChallenge

\* Every column of every row and every local variable of every handler keeps
\* holding a value of its type.
THEOREM TypeCorrect == Spec => []TypeOK
<1>1. Init => TypeOK
  <2> SUFFICES ASSUME Init PROVE TypeOK
    OBVIOUS
  <2>1. StoreTypeOK
    BY IdleType DEF Init, StoreInit, StoreTypeOK
  <2>2. [at |-> 0, out |-> {}, had |-> {}] \in Arrival
    BY DEF Arrival
  <2> QED
    BY IdleType, <2>1, <2>2 DEF Init, TypeOK, DevicePoints, ChallengePoints
<1>2. TypeOK /\ [Next]_vars => TypeOK'
  <2> SUFFICES ASSUME TypeOK, [Next]_vars PROVE TypeOK'
    OBVIOUS
  <2>0. /\ now \in Nat
        /\ device \in [Devices -> Device]
        /\ challenge \in [Challenges -> Challenge]
        /\ req \in [Requests -> Request]
        /\ session \in [Requests -> Session]
        /\ arrived \in [Requests -> Arrival]
    BY DEF TypeOK, StoreTypeOK
  <2>1. ASSUME NEW r \in Requests, Call(r) PROVE TypeOK'
    <3>1. CASE CallDeviceChallenge(r)
      BY <3>1, ArriveType
         DEF CallDeviceChallenge, Points, Answers, DevicePoints, ChallengePoints
    <3>2. CASE CallDeviceVerify(r)
      BY <3>2, ArriveType
         DEF CallDeviceVerify, Points, Answers, DevicePoints, ChallengePoints
    <3>3. CASE CallRecoveryRequest(r)
      BY <3>3, ArriveType
         DEF CallRecoveryRequest, Points, Answers, DevicePoints, ChallengePoints
    <3>4. CASE CallRecoveryVerify(r)
      BY <3>4, ArriveType
         DEF CallRecoveryVerify, Points, Answers, DevicePoints, ChallengePoints
    <3>5. CASE CallSignOut(r)
      BY <3>5, ArriveType
         DEF CallSignOut, Points, Answers, DevicePoints, ChallengePoints
    <3> QED
      BY <2>1, <3>1, <3>2, <3>3, <3>4, <3>5 DEF Call
  <2>2. ASSUME NEW r \in Requests, ChallengeGetDevice(r) PROVE TypeOK'
    <3>1. StoreTypeOK' /\ session' = session /\ arrived' = arrived
      BY <2>0, <2>2 DEF ChallengeGetDevice, StoreTypeOK
    <3>2. req[r].dev \in Devices
      BY <2>2 DEF ChallengeGetDevice, At, TypeOK, DevicePoints
    <3>3. CASE Finish(r)
      BY <2>0, <3>1, <3>3, FinishType
    <3>4. CASE ~Finish(r)
      <4> DEFINE q == [Goto(r, "insertDeviceChallenge")
                         EXCEPT !.subject = device[req[r].dev].subject]
      <4>1. req' = [req EXCEPT ![r] = q]
        BY <2>2, <3>4 DEF ChallengeGetDevice
      <4>2. "insertDeviceChallenge" \in Points \ ChallengePoints
        BY DEF Points, ChallengePoints
      <4>3. device[req[r].dev].subject \in Members \cup {None}
        BY <2>0, <3>2 DEF Device
      <4>4. /\ q \in Request
            /\ q.pc = "insertDeviceChallenge"
            /\ q.dev = req[r].dev
        BY <4>2, <4>3, GotoType DEF Request
      <4> QED
        BY <2>0, <3>1, <3>2, <4>1, <4>2, <4>4, ReqType
    <3> QED
      BY <3>3, <3>4
  <2>3. ASSUME NEW r \in Requests,
               CreateDeviceChallenge(r) \/ CreateRecoveryChallenge(r)
        PROVE  TypeOK'
    <3>1. PICK c \in Challenges, at \in Reading(r), k \in {"device", "recovery"},
               d \in Devices \cup {None}, m \in Members \cup {None} :
                 InsertChallenge(c, k, d, m, at)
      BY <2>0, <2>3
         DEF CreateDeviceChallenge, CreateRecoveryChallenge, Request
    <3>2. at + ChallengeTTL \in Nat
      BY <2>0, TTLAssumption DEF Reading, Request
    <3>3. challenge' \in [Challenges -> Challenge]
      BY <2>0, <3>1, <3>2 DEF InsertChallenge, Challenge
    <3> QED
      BY <2>0, <2>3, <3>3, FinishType
         DEF CreateDeviceChallenge, CreateRecoveryChallenge, StoreTypeOK
  <2>4. ASSUME NEW r \in Requests, VerifyGetDevice(r) PROVE TypeOK'
    <3>1. /\ "readForDevice" \in Points
          /\ req[r].dev \in Devices /\ req[r].chal \in Challenges
      BY <2>4 DEF VerifyGetDevice, At, TypeOK, DevicePoints, ChallengePoints,
                  Points
    <3> QED
      BY <2>0, <2>4, <3>1, GotoType, ReqType, FinishType
         DEF VerifyGetDevice, StoreTypeOK
  <2>5. ASSUME NEW r \in Requests, VerifyReadChallenge(r) PROVE TypeOK'
    <3>1. /\ "takeForDevice" \in ChallengePoints
          /\ req[r].dev \in Devices /\ req[r].chal \in Challenges
      BY <2>5 DEF VerifyReadChallenge, ReadChallenge, At, TypeOK,
                  DevicePoints, ChallengePoints
    <3> QED
      BY <2>5, <3>1, ReadChallengeType DEF VerifyReadChallenge
  <2>6. ASSUME NEW r \in Requests, VerifyTakeChallenge(r) PROVE TypeOK'
    <3>1. /\ "mint" \in ChallengePoints \ DevicePoints
          /\ req[r].chal \in Challenges
      BY <2>6 DEF VerifyTakeChallenge, TakeChallenge, At, TypeOK,
                  DevicePoints, ChallengePoints
    <3> QED
      BY <2>6, <3>1, TakeChallengeType DEF VerifyTakeChallenge
  <2>7. ASSUME NEW r \in Requests, RecoveryReadChallenge(r) PROVE TypeOK'
    <3>1. /\ "takeForRecovery" \in ChallengePoints \ DevicePoints
          /\ req[r].chal \in Challenges
      BY <2>7 DEF RecoveryReadChallenge, ReadChallenge, At, TypeOK,
                  DevicePoints, ChallengePoints
    <3> QED
      BY <2>7, <3>1, ReadChallengeType DEF RecoveryReadChallenge
  <2>8. ASSUME NEW r \in Requests, RecoveryTakeChallenge(r) PROVE TypeOK'
    <3>1. /\ "sweepSelect" \in ChallengePoints \ DevicePoints
          /\ req[r].chal \in Challenges
      BY <2>8 DEF RecoveryTakeChallenge, TakeChallenge, At, TypeOK,
                  DevicePoints, ChallengePoints
    <3> QED
      BY <2>8, <3>1, TakeChallengeType DEF RecoveryTakeChallenge
  <2>9. ASSUME NEW r \in Requests, SweepSelect(r) PROVE TypeOK'
    <3> DEFINE ids == LiveDevices(req[r].held.subject, None)
               p == IF ids = {} THEN "mint" ELSE "sweepUpdate"
               q(at) == [Goto(r, p) EXCEPT !.found = ids, !.sweptAt = at]
    <3>1. PICK at \in Reading(r) : req' = [req EXCEPT ![r] = q(at)]
      BY <2>9 DEF SweepSelect
    <3>2. p \in Points /\ p \in ChallengePoints \ DevicePoints
      BY DEF Points, ChallengePoints, DevicePoints
    <3>3. at \in Nat /\ ids \in SUBSET Devices
      BY <2>0, <3>1 DEF Reading, Request, LiveDevices
    <3>4. req[r].chal \in Challenges
      BY <2>9 DEF SweepSelect, At, TypeOK, ChallengePoints
    <3>5. q(at) \in Request /\ q(at).pc = p /\ q(at).chal = req[r].chal
      <4>1. Goto(r, p) \in Request /\ Goto(r, p).pc = p
                                  /\ Goto(r, p).chal = req[r].chal
        BY <3>2, GotoType
      <4> HIDE DEF ids, p
      <4> QED
        BY <3>3, <4>1 DEF Request
    <3> HIDE DEF p, q
    <3> QED
      BY <2>0, <2>9, <3>1, <3>2, <3>4, <3>5, ReqType
         DEF SweepSelect, StoreTypeOK
  <2>10. ASSUME NEW r \in Requests, SweepUpdate(r) PROVE TypeOK'
    <3>1. req[r].sweptAt \in Nat
      BY <2>0 DEF Request
    <3>2. device' \in [Devices -> Device]
      BY <2>0, <2>10, <3>1 DEF SweepUpdate, SweepRows, Device, Reasons
    <3>3. /\ "mint" \in Points /\ "mint" \notin DevicePoints
          /\ req[r].chal \in Challenges
      BY <2>10 DEF SweepUpdate, At, TypeOK, ChallengePoints, DevicePoints,
                   Points
    <3> QED
      BY <2>0, <2>10, <3>2, <3>3, GotoType, ReqType
         DEF SweepUpdate, StoreTypeOK
  <2>11. ASSUME NEW r \in Requests, Mint(r) PROVE TypeOK'
    <3>1. session' \in [Requests -> Session]
      BY <2>0, <2>11 DEF Mint, Session, Request, Challenge
    <3> QED
      BY <2>0, <2>11, <3>1, FinishType DEF Mint, StoreTypeOK
  <2>12. ASSUME NEW r \in Requests, SignOutUpdate(r) PROVE TypeOK'
    <3>1. "signOutReread" \in Points \ ChallengePoints
          /\ req[r].dev \in Devices
      BY <2>12 DEF SignOutUpdate, At, TypeOK, DevicePoints, ChallengePoints,
                   Points
    <3>2. device' \in [Devices -> Device]
      <4>1. Reading(r) \subseteq Nat
        BY <2>0 DEF Reading, Request
      <4>2. ASSUME NEW at \in Reading(r)
            PROVE  SignOutRow(device[req[r].dev], at, "self") \in Device
        BY <2>0, <3>1, <4>1 DEF SignOutRow, Device, Reasons
      <4> QED
        BY <2>0, <2>12, <4>2 DEF SignOutUpdate
    <3>3. StoreTypeOK' /\ session' = session /\ arrived' = arrived
      BY <2>0, <2>12, <3>2 DEF SignOutUpdate, StoreTypeOK
    <3>4. Finish(r) \/ req' = [req EXCEPT ![r] = Goto(r, "signOutReread")]
      BY <2>12 DEF SignOutUpdate
    <3> QED
      BY <2>0, <3>1, <3>3, <3>4, GotoType, ReqType, FinishType
  <2>13. ASSUME NEW r \in Requests, SignOutReread(r) \/ Abandon(r)
         PROVE  TypeOK'
    BY <2>0, <2>13, FinishType DEF SignOutReread, Abandon, StoreTypeOK
  <2>14. CASE RegisterDevice
    <3>1. device' \in [Devices -> Device]
      BY <2>0, <2>14 DEF RegisterDevice, InsertDevice, Device
    <3> QED
      BY <2>14, <3>1 DEF RegisterDevice, TypeOK, StoreTypeOK
  <2>15. CASE Tick
    BY <2>15 DEF Tick, TypeOK, StoreTypeOK
  <2>16. CASE UNCHANGED vars
    BY <2>16 DEF vars, TypeOK, StoreTypeOK
  <2> QED
    BY <2>1, <2>2, <2>3, <2>4, <2>5, <2>6, <2>7, <2>8, <2>9, <2>10, <2>11,
       <2>12, <2>13, <2>14, <2>15, <2>16 DEF Next, Step
<1> QED
  BY <1>1, <1>2, PTL DEF Spec

-----------------------------------------------------------------------------
(* One session for each challenge.  A call holds a challenge from the      *)
(* UPDATE that consumed it until it is minted a session, and for good once *)
(* it is.                                                                  *)

HoldingPoints == {"sweepSelect", "sweepUpdate", "mint"}

Holds(r, c) ==
    \/ req[r].pc \in HoldingPoints /\ req[r].chal = c
    \/ session[r] # NoSession /\ session[r].challenge = c

HolderInv ==
    /\ \A r \in Requests, c \in Challenges :
         Holds(r, c) => HasChallenge(c) /\ IsConsumed(c)
    /\ \A r, s \in Requests, c \in Challenges :
         Holds(r, c) /\ Holds(s, c) => r = s
    /\ \A r \in Requests : session[r] # NoSession =>
         session[r].challenge \in Challenges

\* What no step takes back: an issued challenge keeps its columns, and a spent
\* one stays spent.
ChallengesKept ==
    \A c \in Challenges : HasChallenge(c) =>
        /\ challenge'[c].kind = challenge[c].kind
        /\ challenge'[c].device = challenge[c].device
        /\ challenge'[c].subject = challenge[c].subject
        /\ challenge'[c].expiresAt = challenge[c].expiresAt
        /\ IsConsumed(c) => IsConsumed(c)'

LEMMA TakeKeeps ==
    ASSUME TypeOK, NEW r \in Requests, NEW p, NEW q, NEW ok,
           TakeChallenge(r, p, q, ok)
    PROVE  ChallengesKept
<1>1. MarkConsumed(req[r].chal) \/ UNCHANGED challenge
  BY DEF TakeChallenge
<1>2. challenge \in [Challenges -> Challenge]
  BY DEF TypeOK, StoreTypeOK
<1> QED
  <2>1. CASE UNCHANGED challenge
    BY <2>1 DEF ChallengesKept, IsConsumed
  <2>2. CASE MarkConsumed(req[r].chal)
    <3>1. ASSUME NEW c \in Challenges
          PROVE  challenge'[c] \in {challenge[c],
                                   [challenge[c] EXCEPT !.consumed = 1]}
      BY <1>2, <2>2 DEF MarkConsumed
    <3> QED
      BY <1>2, <3>1 DEF ChallengesKept, IsConsumed, Challenge
  <2> QED
    BY <1>1, <2>1, <2>2

LEMMA InsertKeeps ==
    ASSUME TypeOK, NEW x \in Challenges, NEW k, NEW d, NEW m, NEW at,
           InsertChallenge(x, k, d, m, at)
    PROVE  ChallengesKept
  BY DEF TypeOK, StoreTypeOK, InsertChallenge, ChallengesKept, HasChallenge, IsConsumed

LEMMA StepKeepsChallenges == TypeOK /\ [Next]_vars => ChallengesKept
<1> SUFFICES ASSUME TypeOK, [Next]_vars PROVE ChallengesKept
  OBVIOUS
<1>1. CASE UNCHANGED challenge
  BY <1>1 DEF ChallengesKept, IsConsumed
<1>2. ASSUME NEW r \in Requests,
             CreateDeviceChallenge(r) \/ CreateRecoveryChallenge(r)
      PROVE  ChallengesKept
  BY <1>2, InsertKeeps DEF CreateDeviceChallenge, CreateRecoveryChallenge
<1>3. ASSUME NEW r \in Requests,
             VerifyTakeChallenge(r) \/ RecoveryTakeChallenge(r)
      PROVE  ChallengesKept
  BY <1>3, TakeKeeps DEF VerifyTakeChallenge, RecoveryTakeChallenge
<1>4. CASE RegisterDevice \/ Tick \/ UNCHANGED vars
  BY <1>1, <1>4 DEF RegisterDevice, Tick, vars
<1>5. ASSUME NEW r \in Requests, Call(r) \/ Abandon(r)
      PROVE  ChallengesKept
  BY <1>1, <1>5 DEF Call, CallDeviceChallenge, CallDeviceVerify,
         CallRecoveryRequest, CallRecoveryVerify, CallSignOut, Arrive, Abandon
<1>6. ASSUME NEW r \in Requests, Step(r)
      PROVE  ChallengesKept
  BY <1>1, <1>2, <1>3, <1>6
     DEF Step, ChallengeGetDevice, VerifyGetDevice, VerifyReadChallenge,
         RecoveryReadChallenge, ReadChallenge, SweepSelect, SweepUpdate, Mint,
         SignOutUpdate, SignOutReread
<1> QED
  BY <1>4, <1>5, <1>6 DEF Next

\* A step of r that leaves the other calls alone keeps HolderInv when r holds
\* nothing after it that it did not hold before.
LEMMA HolderFrame ==
    ASSUME TypeOK, HolderInv, ChallengesKept, NEW r \in Requests,
           \A s \in Requests \ {r} :
             req'[s] = req[s] /\ session'[s] = session[s],
           \A c \in Challenges : Holds(r, c)' => Holds(r, c),
           session'[r] # NoSession => session'[r].challenge \in Challenges
    PROVE  HolderInv'
<1>1. \A s \in Requests, c \in Challenges : Holds(s, c)' => Holds(s, c)
  BY DEF Holds
<1>2. \A c \in Challenges : HasChallenge(c) /\ IsConsumed(c)
                             => HasChallenge(c)' /\ IsConsumed(c)'
  BY DEF ChallengesKept, HasChallenge, IsConsumed
<1> QED
  BY <1>1, <1>2 DEF HolderInv

\* One for the steps that only move r to a point p, which holds a challenge
\* only if the point r comes from does.
LEMMA HolderMove ==
    ASSUME TypeOK, HolderInv, ChallengesKept, NEW r \in Requests, NEW q,
           req' = [req EXCEPT ![r] = q], UNCHANGED session,
           q.pc \in HoldingPoints =>
             req[r].pc \in HoldingPoints /\ q.chal = req[r].chal
    PROVE  HolderInv'
<1>1. req'[r] = q /\ session'[r] = session[r]
  BY DEF TypeOK
<1>2. \A s \in Requests \ {r} : req'[s] = req[s] /\ session'[s] = session[s]
  BY DEF TypeOK
<1>3. \A c \in Challenges : Holds(r, c)' => Holds(r, c)
  BY <1>1 DEF Holds
<1>4. session'[r] # NoSession => session'[r].challenge \in Challenges
  BY <1>1 DEF HolderInv
<1> QED
  BY <1>2, <1>3, <1>4, HolderFrame

LEMMA HolderFinish ==
    ASSUME TypeOK, HolderInv, ChallengesKept, NEW r \in Requests, Finish(r),
           UNCHANGED session
    PROVE  HolderInv'
  BY HolderMove, IdleType DEF Finish, HoldingPoints

\* The step that matters: the UPDATE takes the challenge only when no call
\* has, so its winner is its only holder.
LEMMA HolderTake ==
    ASSUME TypeOK, HolderInv, ChallengesKept, NEW r \in Requests, NEW p,
           NEW q \in HoldingPoints, NEW ok, req[r].chal \in Challenges,
           TakeChallenge(r, p, q, ok)
    PROVE  HolderInv'
<1>1. CASE Finish(r)
  BY <1>1, HolderFinish DEF TakeChallenge
<1>2. CASE ~Finish(r)
  <2>0. PICK c \in Challenges : c = req[r].chal
    OBVIOUS
  <2>1. /\ HasChallenge(c) /\ ~IsConsumed(c)
        /\ MarkConsumed(c)
        /\ req' = [req EXCEPT ![r] = Goto(r, q)]
        /\ UNCHANGED session
    BY <1>2, <2>0 DEF TakeChallenge, UpdatesConsumed
  <2>2. q \in Points
    BY DEF HoldingPoints, Points
  <2>3. req'[r].chal = c
    BY <2>0, <2>1, <2>2, GotoType DEF TypeOK
  <2>4. HasChallenge(c)' /\ IsConsumed(c)'
    BY <2>1 DEF TypeOK, StoreTypeOK, MarkConsumed, HasChallenge, IsConsumed, Challenge
  <2>5. \A s \in Requests : ~Holds(s, c)
    BY <2>1 DEF HolderInv
  <2>6. \A s \in Requests \ {r} : req'[s] = req[s] /\ session'[s] = session[s]
    BY <2>1 DEF TypeOK
  <2>7. \A s \in Requests, x \in Challenges :
          Holds(s, x)' => Holds(s, x) \/ (s = r /\ x = c)
    BY <2>1, <2>3, <2>6 DEF Holds
  <2>8. \A x \in Challenges : HasChallenge(x) /\ IsConsumed(x)
                               => HasChallenge(x)' /\ IsConsumed(x)'
    BY DEF ChallengesKept, HasChallenge, IsConsumed
  <2>9. \A s \in Requests : session'[s] # NoSession =>
          session'[s].challenge \in Challenges
    BY <2>1 DEF HolderInv
  <2> QED
    BY <2>4, <2>5, <2>7, <2>8, <2>9 DEF HolderInv
<1> QED
  BY <1>1, <1>2

\* Minting turns what the handler holds into a session that holds it.
LEMMA HolderMint ==
    ASSUME TypeOK, HolderInv, ChallengesKept, NEW r \in Requests, Mint(r)
    PROVE  HolderInv'
<1>1. /\ req[r].pc = "mint" /\ req[r].chal \in Challenges
      /\ req'[r].pc = "done"
      /\ session'[r].challenge = req[r].chal
  BY IdleType DEF Mint, At, Finish, TypeOK, ChallengePoints
<1>2. \A s \in Requests \ {r} : req'[s] = req[s] /\ session'[s] = session[s]
  BY DEF Mint, Finish, TypeOK
<1>3. \A c \in Challenges : Holds(r, c)' => Holds(r, c)
  BY <1>1 DEF Holds, HoldingPoints
<1> QED
  BY <1>1, <1>2, <1>3, HolderFrame

LEMMA HolderInvariant == Spec => []HolderInv
<1>1. Init => HolderInv
  BY IdleType DEF Init, HolderInv, Holds, HoldingPoints
<1>2. TypeOK /\ HolderInv /\ [Next]_vars => HolderInv'
  <2> SUFFICES ASSUME TypeOK, HolderInv, [Next]_vars PROVE HolderInv'
    OBVIOUS
  <2>0. ChallengesKept
    BY StepKeepsChallenges
  <2>1. CASE UNCHANGED <<req, session>>
    <3>1. \A s \in Requests, c \in Challenges : Holds(s, c)' <=> Holds(s, c)
      BY <2>1 DEF Holds
    <3>2. \A c \in Challenges : HasChallenge(c) /\ IsConsumed(c)
                                => HasChallenge(c)' /\ IsConsumed(c)'
      BY <2>0 DEF ChallengesKept, HasChallenge
    <3> QED
      BY <2>1, <3>1, <3>2 DEF HolderInv
  <2>2. ASSUME NEW r \in Requests, NEW p, NEW d, NEW c, NEW m, NEW a,
               p \notin HoldingPoints, Arrive(r, p, d, c, m, a)
        PROVE  HolderInv'
    <3> DEFINE q == [Idle EXCEPT !.pc = p, !.dev = d, !.chal = c,
                       !.subject = m, !.answer = a, !.since = now]
    <3>1. q.pc = p
      BY DEF Idle
    <3>2. req' = [req EXCEPT ![r] = q] /\ UNCHANGED session
      BY <2>2 DEF Arrive
    <3> QED
      BY <2>0, <2>2, <3>1, <3>2, HolderMove
  <2>3. ASSUME NEW r \in Requests, Call(r) PROVE HolderInv'
    BY <2>2, <2>3 DEF Call, CallDeviceChallenge, CallDeviceVerify,
         CallRecoveryRequest, CallRecoveryVerify, CallSignOut, HoldingPoints
  <2>4. ASSUME NEW r \in Requests,
               \/ CreateDeviceChallenge(r)
               \/ CreateRecoveryChallenge(r)
               \/ SignOutReread(r)
               \/ Abandon(r)
        PROVE  HolderInv'
    BY <2>0, <2>4, HolderFinish
       DEF CreateDeviceChallenge, CreateRecoveryChallenge, SignOutReread, Abandon
  <2>5. ASSUME NEW r \in Requests,
               ChallengeGetDevice(r) \/ VerifyGetDevice(r) \/ SignOutUpdate(r)
        PROVE  HolderInv'
    <3>1. CASE Finish(r)
      BY <2>0, <2>5, <3>1, HolderFinish
         DEF ChallengeGetDevice, VerifyGetDevice, SignOutUpdate
    <3>2. CASE ~Finish(r)
      <4>1. PICK q : /\ req' = [req EXCEPT ![r] = q] /\ UNCHANGED session
                     /\ q.pc \notin HoldingPoints
        <5>1. \A p \in Points : Goto(r, p).pc = p
          BY GotoType
        <5>2. [Goto(r, "insertDeviceChallenge")
                 EXCEPT !.subject = device[req[r].dev].subject].pc
                   = "insertDeviceChallenge"
          BY <5>1 DEF Goto, Points, TypeOK, Request
        <5> QED
          BY <2>5, <3>2, <5>1, <5>2
             DEF ChallengeGetDevice, VerifyGetDevice, SignOutUpdate,
                 HoldingPoints, Points
      <4> QED
        BY <2>0, <4>1, HolderMove
    <3> QED
      BY <3>1, <3>2
  <2>6. ASSUME NEW r \in Requests, NEW p, NEW q \in Points \ HoldingPoints,
               ReadChallenge(r, p, q)
        PROVE  HolderInv'
    <3>1. CASE Finish(r)
      BY <2>0, <2>6, <3>1, HolderFinish DEF ReadChallenge
    <3>2. CASE ~Finish(r)
      <4> DEFINE next == [Goto(r, q) EXCEPT !.held = challenge[req[r].chal]]
      <4>1. req' = [req EXCEPT ![r] = next] /\ UNCHANGED session
        BY <2>6, <3>2 DEF ReadChallenge
      <4>2. next.pc = q
        BY <2>6, GotoType DEF Request
      <4> QED
        BY <2>0, <2>6, <4>1, <4>2, HolderMove
    <3> QED
      BY <3>1, <3>2
  <2>7. ASSUME NEW r \in Requests,
               VerifyReadChallenge(r) \/ RecoveryReadChallenge(r)
        PROVE  HolderInv'
    BY <2>6, <2>7 DEF VerifyReadChallenge, RecoveryReadChallenge, Points,
                      HoldingPoints
  <2>8. ASSUME NEW r \in Requests,
               VerifyTakeChallenge(r) \/ RecoveryTakeChallenge(r)
        PROVE  HolderInv'
    <3>1. req[r].chal \in Challenges
      BY <2>8 DEF VerifyTakeChallenge, RecoveryTakeChallenge, TakeChallenge,
                  At, TypeOK, ChallengePoints
    <3> QED
      BY <2>0, <2>8, <3>1, HolderTake
         DEF VerifyTakeChallenge, RecoveryTakeChallenge, HoldingPoints
  <2>9. ASSUME NEW r \in Requests, SweepSelect(r) \/ SweepUpdate(r)
        PROVE  HolderInv'
    <3>1. PICK q : /\ req' = [req EXCEPT ![r] = q] /\ UNCHANGED session
                   /\ q.chal = req[r].chal
      <4>1. \A p \in Points : Goto(r, p) \in Request
                                /\ Goto(r, p).chal = req[r].chal
        BY GotoType
      <4>2. {"mint", "sweepUpdate"} \subseteq Points
        BY DEF Points
      <4> QED
        BY <2>9, <4>1, <4>2 DEF SweepSelect, SweepUpdate, Request
    <3>2. req[r].pc \in HoldingPoints
      BY <2>9 DEF SweepSelect, SweepUpdate, At, HoldingPoints
    <3> QED
      BY <2>0, <3>1, <3>2, HolderMove
  <2>10. ASSUME NEW r \in Requests, Mint(r) PROVE HolderInv'
    BY <2>0, <2>10, HolderMint
  <2>11. CASE RegisterDevice \/ Tick \/ UNCHANGED vars
    BY <2>1, <2>11 DEF RegisterDevice, Tick, vars
  <2> QED
    BY <2>3, <2>4, <2>5, <2>7, <2>8, <2>9, <2>10, <2>11 DEF Next, Step
<1> QED
  BY <1>1, <1>2, TypeCorrect, PTL DEF Spec

\* However many calls answer one challenge, at once or one after another, at
\* most one of them is ever minted a session: the conditional UPDATE of
\* ConsumeChallenge decides, whatever the calls had read before it.
THEOREM ChallengeMintsOnce == Spec => []OneSessionPerChallenge
<1>1. HolderInv => OneSessionPerChallenge
  BY DEF HolderInv, Holds, OneSessionPerChallenge
<1> QED
  BY <1>1, HolderInvariant, PTL

-----------------------------------------------------------------------------
(* The doors implement OneUseGrant.                                        *)

\* All that a step does to the challenges and the sessions: nothing, or one
\* of the three steps of OneUseGrant.
LEMMA GrantSteps ==
    ASSUME TypeOK, [Next]_vars
    PROVE  \/ UNCHANGED <<challenge, session>>
           \/ /\ UNCHANGED session
              /\ \E c \in Challenges, k \in {"device", "recovery"} :
                   \E d, m, at : InsertChallenge(c, k, d, m, at)
           \/ /\ UNCHANGED session
              /\ \E c \in Challenges : UpdatesConsumed(c) /\ MarkConsumed(c)
           \/ \E r \in Requests : Mint(r)
<1>1. ASSUME NEW r \in Requests, VerifyTakeChallenge(r) \/ RecoveryTakeChallenge(r)
      PROVE  /\ UNCHANGED session
             /\ \/ UNCHANGED challenge
                \/ \E c \in Challenges : UpdatesConsumed(c) /\ MarkConsumed(c)
  <2>1. req[r].chal \in Challenges
    BY <1>1 DEF VerifyTakeChallenge, RecoveryTakeChallenge, TakeChallenge,
                At, TypeOK, ChallengePoints
  <2> QED
    BY <1>1, <2>1 DEF VerifyTakeChallenge, RecoveryTakeChallenge, TakeChallenge
<1>2. ASSUME NEW r \in Requests,
             CreateDeviceChallenge(r) \/ CreateRecoveryChallenge(r)
      PROVE  /\ UNCHANGED session
             /\ \E c \in Challenges, k \in {"device", "recovery"} :
                  \E d, m, at : InsertChallenge(c, k, d, m, at)
  BY <1>2 DEF CreateDeviceChallenge, CreateRecoveryChallenge
<1>3. ASSUME NEW r \in Requests, Call(r) \/ Abandon(r)
      PROVE  UNCHANGED <<challenge, session>>
  BY <1>3 DEF Call, CallDeviceChallenge, CallDeviceVerify,
         CallRecoveryRequest, CallRecoveryVerify, CallSignOut, Arrive, Abandon
<1>4. ASSUME NEW r \in Requests,
             \/ ChallengeGetDevice(r) \/ VerifyGetDevice(r)
             \/ VerifyReadChallenge(r) \/ RecoveryReadChallenge(r)
             \/ SweepSelect(r) \/ SweepUpdate(r)
             \/ SignOutUpdate(r) \/ SignOutReread(r)
      PROVE  UNCHANGED <<challenge, session>>
  BY <1>4 DEF ChallengeGetDevice, VerifyGetDevice, VerifyReadChallenge,
         RecoveryReadChallenge, ReadChallenge, SweepSelect, SweepUpdate,
         SignOutUpdate, SignOutReread
<1>5. CASE RegisterDevice \/ Tick \/ UNCHANGED vars
  BY <1>5 DEF RegisterDevice, Tick, vars
<1> QED
  BY <1>1, <1>2, <1>3, <1>4, <1>5 DEF Next, Step

\* A handler's step moves no other, and one that has answered does nothing more.
LEMMA StepOfOne ==
    ASSUME TypeOK, NEW r \in Requests, Call(r) \/ Step(r) \/ Abandon(r)
    PROVE  /\ req[r].pc # "done"
           /\ \E q : req' = [req EXCEPT ![r] = q]
<1>1. CASE Call(r)
  BY <1>1 DEF Call, CallDeviceChallenge, CallDeviceVerify,
       CallRecoveryRequest, CallRecoveryVerify, CallSignOut, Arrive, At
<1>2. CASE Abandon(r)
  BY <1>2 DEF Abandon, Finish
<1>3. CASE VerifyTakeChallenge(r) \/ RecoveryTakeChallenge(r)
  BY <1>3 DEF VerifyTakeChallenge, RecoveryTakeChallenge, TakeChallenge, At,
              Finish
<1>4. CASE VerifyReadChallenge(r) \/ RecoveryReadChallenge(r)
  BY <1>4 DEF VerifyReadChallenge, RecoveryReadChallenge, ReadChallenge, At,
              Finish
<1>5. CASE ChallengeGetDevice(r) \/ VerifyGetDevice(r) \/ SignOutUpdate(r)
  BY <1>5 DEF ChallengeGetDevice, VerifyGetDevice, SignOutUpdate, At, Finish
<1>6. CASE SweepSelect(r) \/ SweepUpdate(r) \/ Mint(r) \/ SignOutReread(r)
  BY <1>6 DEF SweepSelect, SweepUpdate, Mint, SignOutReread, At, Finish
<1>7. CASE CreateDeviceChallenge(r) \/ CreateRecoveryChallenge(r)
  BY <1>7 DEF CreateDeviceChallenge, CreateRecoveryChallenge, At, Finish
<1> QED
  BY <1>1, <1>2, <1>3, <1>4, <1>5, <1>6, <1>7 DEF Step

\* A handler that moves made the step itself.
LEMMA OwnStep ==
    ASSUME TypeOK, [Next]_vars, NEW s \in Requests, req'[s] # req[s]
    PROVE  (Call(s) \/ Step(s) \/ Abandon(s)) /\ req[s].pc # "done"
<1>1. ASSUME NEW r \in Requests, r # s, Call(r) \/ Step(r) \/ Abandon(r)
      PROVE  FALSE
  <2>1. PICK q : req' = [req EXCEPT ![r] = q]
    BY <1>1, StepOfOne
  <2> QED
    BY <1>1, <2>1 DEF TypeOK
<1> QED
  BY <1>1, StepOfOne DEF Next, RegisterDevice, Tick, vars

\* Only an issued challenge is spent, and only a finished call has a session.
GrantInv ==
    /\ \A c \in Challenges : IsConsumed(c) => HasChallenge(c)
    /\ \A r \in Requests : req[r].pc # "done" => session[r] = NoSession

LEMMA FreshChallenge ==
    ASSUME NEW c \in Challenges, challenge[c] = NoChallenge
    PROVE  ~HasChallenge(c) /\ ~IsConsumed(c)
<1>1. NoChallenge.kind = "" /\ NoChallenge.consumed = 0
  BY DEF NoChallenge
<1>2. challenge[c].kind = ""
  BY <1>1, Zenon
<1>3. challenge[c].consumed = 0
  BY <1>1, Zenon
<1>4. challenge[c].consumed # 1
  BY ONLY <1>3
<1> QED
  BY <1>2, <1>4, Zenon DEF HasChallenge, IsConsumed

\* At the start nothing is issued, spent or granted.
LEMMA NothingGranted ==
    ASSUME Init
    PROVE  /\ \A c \in Challenges : ~HasChallenge(c) /\ ~IsConsumed(c)
           /\ \A r \in Requests : session[r] = NoSession
<1>1. \A c \in Challenges : challenge[c] = NoChallenge
  BY DEF Init, StoreInit
<1>2. \A r \in Requests : session[r] = NoSession
  BY DEF Init
<1> QED
  BY <1>1, <1>2, FreshChallenge

LEMMA GrantInvariant == Spec => []GrantInv
<1>1. Init => GrantInv
  BY NothingGranted DEF GrantInv
<1>2. TypeOK /\ GrantInv /\ [Next]_vars => GrantInv'
  <2> SUFFICES ASSUME TypeOK, GrantInv, [Next]_vars PROVE GrantInv'
    OBVIOUS
  <2>1. ASSUME NEW c \in Challenges, IsConsumed(c)'
        PROVE  HasChallenge(c)'
    <3>1. challenge \in [Challenges -> Challenge]
      BY DEF TypeOK, StoreTypeOK
    <3>2. CASE UNCHANGED challenge
      BY <2>1, <3>2 DEF GrantInv, IsConsumed, HasChallenge
    <3>3. ASSUME NEW x \in Challenges, UpdatesConsumed(x), MarkConsumed(x)
          PROVE  HasChallenge(c)'
      <4>1. challenge'[c].kind = challenge[c].kind
        BY <3>1, <3>3 DEF MarkConsumed, Challenge
      <4>2. c # x => challenge'[c] = challenge[c]
        BY <3>1, <3>3 DEF MarkConsumed
      <4> QED
        BY <2>1, <3>3, <4>1, <4>2
           DEF GrantInv, IsConsumed, HasChallenge, UpdatesConsumed
    <3>4. ASSUME NEW x \in Challenges, NEW k \in {"device", "recovery"},
                 NEW d, NEW m, NEW at, InsertChallenge(x, k, d, m, at)
          PROVE  HasChallenge(c)'
      BY <2>1, <3>1, <3>4 DEF InsertChallenge, GrantInv, IsConsumed, HasChallenge
    <3> QED
      BY <3>2, <3>3, <3>4, GrantSteps DEF Mint
  <2>2. ASSUME NEW s \in Requests, req'[s].pc # "done"
        PROVE  session'[s] = NoSession
    <3>1. session[s] = NoSession
      BY <2>2, OwnStep DEF GrantInv
    <3>2. ASSUME NEW r \in Requests, Mint(r) PROVE session'[s] = session[s]
      BY <2>2, <3>2, IdleType DEF Mint, Finish, TypeOK
    <3> QED
      BY <3>1, <3>2, GrantSteps
  <2> QED
    BY <2>1, <2>2 DEF GrantInv
<1> QED
  BY <1>1, <1>2, TypeCorrect, PTL DEF Spec

\* The device and the recovery doors over their one table of challenges are
\* grants of one use each: every step of theirs is a step of OneUseGrant or
\* leaves what it speaks of unchanged.
THEOREM DoorsGrantOnce == Spec => GrantSpec
<1>1. Init => Grants!Init
  <2> SUFFICES ASSUME Init PROVE Grants!Init
    OBVIOUS
  <2>1. \A r \in Requests : session[r].challenge = None
    BY NothingGranted DEF NoSession
  <2> QED
    BY <2>1, NothingGranted DEF Grants!Init
<1>2. TypeOK /\ HolderInv /\ GrantInv /\ [Next]_vars
        => [Grants!Next]_(Grants!vars)
  <2> SUFFICES ASSUME TypeOK, HolderInv, GrantInv, [Next]_vars
               PROVE  [Grants!Next]_(Grants!vars)
    OBVIOUS
  <2>0. challenge \in [Challenges -> Challenge]
    BY DEF TypeOK, StoreTypeOK
  <2>1. CASE UNCHANGED <<challenge, session>>
    BY <2>1 DEF Grants!vars, HasChallenge, IsConsumed
  <2>2. ASSUME UNCHANGED session,
               NEW c \in Challenges, NEW k \in {"device", "recovery"},
               NEW d, NEW m, NEW at, InsertChallenge(c, k, d, m, at)
        PROVE  Grants!Issue(c)
    <3>1. \A x \in Challenges \ {c} : challenge'[x] = challenge[x]
      BY <2>0, <2>2 DEF InsertChallenge
    <3>2. challenge'[c].kind = k /\ challenge'[c].consumed = 0
      BY <2>0, <2>2 DEF InsertChallenge
    <3>3. ~HasChallenge(c) /\ ~IsConsumed(c)
      BY <2>2 DEF InsertChallenge, GrantInv
    <3> QED
      <4>1. {x \in Challenges : HasChallenge(x)}'
              = {x \in Challenges : HasChallenge(x)} \cup {c}
        BY <3>1, <3>2 DEF HasChallenge
      <4>2. {x \in Challenges : IsConsumed(x)}'
              = {x \in Challenges : IsConsumed(x)}
        BY <3>1, <3>2, <3>3 DEF IsConsumed
      <4> QED
        BY <2>2, <3>3, <4>1, <4>2 DEF Grants!Issue
  <2>3. ASSUME UNCHANGED session,
               NEW c \in Challenges, UpdatesConsumed(c), MarkConsumed(c)
        PROVE  Grants!Spend(c)
    <3>1. \A x \in Challenges \ {c} : challenge'[x] = challenge[x]
      BY <2>0, <2>3 DEF MarkConsumed
    <3>2. challenge'[c].kind = challenge[c].kind /\ challenge'[c].consumed = 1
      BY <2>0, <2>3 DEF MarkConsumed, Challenge
    <3> QED
      BY <2>3, <3>1, <3>2
         DEF Grants!Spend, HasChallenge, IsConsumed, UpdatesConsumed
  <2>4. ASSUME NEW r \in Requests, NEW t \in Challenges, t = req[r].chal, Mint(r)
        PROVE  Grants!Grant(r, t)
    <3>1. req[r].pc = "mint" /\ t = req[r].chal /\ UNCHANGED challenge
      BY <2>4 DEF Mint, At, TypeOK, ChallengePoints
    <3>2. Holds(r, t) /\ session[r] = NoSession
      BY <3>1 DEF Holds, HoldingPoints, GrantInv
    <3>3. ASSUME NEW g \in Requests PROVE session[g].challenge # t
      <4>1. None \notin Challenges
        BY NoneIsNoId
      <4> QED
        BY <3>1, <3>2, <4>1 DEF HolderInv, Holds, NoSession
    <3>4. /\ session'[r].challenge = t
          /\ \A g \in Requests \ {r} : session'[g] = session[g]
      BY <2>4 DEF Mint, TypeOK
    <3>5. IsConsumed(t)
      BY <3>1, <3>2 DEF HolderInv
    <3>6. [g \in Requests |-> session'[g].challenge]
            = [[g \in Requests |-> session[g].challenge] EXCEPT ![r] = t]
      BY <3>4
    <3> QED
      BY <3>1, <3>2, <3>3, <3>5, <3>6
         DEF Grants!Grant, NoSession, HasChallenge, IsConsumed
  <2>5. ASSUME NEW r \in Requests, Mint(r) PROVE req[r].chal \in Challenges
    BY <2>5 DEF Mint, At, TypeOK, ChallengePoints
  <2> QED
    <3>1. CASE UNCHANGED session /\ \E c \in Challenges, k \in {"device", "recovery"} :
                 \E d, m, at : InsertChallenge(c, k, d, m, at)
      BY <2>2, <3>1 DEF Grants!Next
    <3>2. CASE UNCHANGED session /\ \E c \in Challenges :
                 UpdatesConsumed(c) /\ MarkConsumed(c)
      BY <2>3, <3>2 DEF Grants!Next
    <3>3. ASSUME NEW r \in Requests, Mint(r) PROVE Grants!Next
      <4>1. PICK t \in Challenges : t = req[r].chal
        BY <2>5, <3>3
      <4>2. Grants!Grant(r, t)
        BY <2>4, <3>3, <4>1
      <4> QED
        BY <4>2 DEF Grants!Next
    <3> QED
      BY <2>1, <3>1, <3>2, <3>3, GrantSteps
<1> QED
  BY <1>1, <1>2, TypeCorrect, HolderInvariant, GrantInvariant, PTL
     DEF Spec, GrantSpec, Grants!Spec

=============================================================================
