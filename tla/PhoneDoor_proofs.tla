--------------------------- MODULE PhoneDoor_proofs ---------------------------
(***************************************************************************)
(* Theorems about PhoneDoor, for every set of numbers, subjects and        *)
(* workers, any lock-out policy and any bound.                             *)
(***************************************************************************)
EXTENDS PhoneDoor, FiniteSetTheorems, TLAPS

-----------------------------------------------------------------------------
(* Lemmas about the lock-out arithmetic.                                   *)

\* A failure turns a row into a row.
LEMMA FailType ==
    ASSUME NEW a \in Attempt, NEW t \in Nat
    PROVE  Fail(a, t) \in Attempt
<1> DEFINE expired == a.lockedUntil # 0 /\ ~Locked(a, t)
           n == IF expired THEN 1 ELSE a.failed + 1
           until == IF expired THEN 0 ELSE a.lockedUntil
<1>1. n \in Nat /\ until \in Nat /\ t + LockFor \in Nat
  BY LockForAssumption DEF Attempt
<1> HIDE DEF n, until, expired
<1>2. Fail(a, t) = [failed |-> n,
         lockedUntil |-> IF n >= LockAfter THEN t + LockFor ELSE until]
  BY DEF Fail, n, until, expired
<1> QED
  BY <1>1, <1>2 DEF Attempt

\* A row that carries a lock, run out or not, has used up its tries.
Spent(a) == a.lockedUntil # 0 => a.failed >= LockAfter

\* A failure keeps that so.
LEMMA FailSpends ==
    ASSUME NEW a \in Attempt, NEW t \in Nat, Spent(a)
    PROVE  Spent(Fail(a, t))
  BY LockAfterAssumption, LockForAssumption
     DEF Spent, Fail, Locked, Attempt

\* A failure judged while the lock runs extends it, to LockFor from then.
LEMMA FailExtends ==
    ASSUME NEW a \in Attempt, NEW t \in Nat, Spent(a), Locked(a, t)
    PROVE  Fail(a, t).lockedUntil = t + LockFor
  BY LockAfterAssumption, LockForAssumption
     DEF Spent, Fail, Locked, Attempt

-----------------------------------------------------------------------------
(* Type correctness.                                                       *)

LEMMA IdleType ==
    /\ NoAttempt \in Attempt
    /\ Idle \in Request /\ Idle.pc = "idle"
    /\ NoAnswer \in Answer
  BY DEF NoAttempt, Attempt, Idle, Request, Points, NoAnswer, Answer

\* A step that moves one worker's call leaves the table of calls typed when
\* the call is typed and has a number.
LEMMA ReqType ==
    ASSUME TypeOK, NEW w \in Workers, NEW q \in Request,
           q.pc # "idle" => q.phone \in Phones,
           req' = [req EXCEPT ![w] = q]
    PROVE  /\ req' \in [Workers -> Request]
           /\ \A v \in Workers : req'[v].pc # "idle" => req'[v].phone \in Phones
  BY DEF TypeOK

LEMMA FinishType ==
    ASSUME TypeOK, NEW w \in Workers, Finish(w)
    PROVE  /\ req' \in [Workers -> Request]
           /\ \A v \in Workers : req'[v].pc # "idle" => req'[v].phone \in Phones
  BY IdleType, ReqType DEF Finish

HistoryTyped ==
    /\ streak \in [Phones -> Nat]
    /\ overtaken \subseteq Workers
    /\ revived \subseteq Phones

\* The calls that count for a number are finitely many.
LEMMA UnderWayFinite ==
    ASSUME NEW p \in Phones
    PROVE  IsFiniteSet(UnderWay(p)) /\ Cardinality(UnderWay(p)) \in Nat
  BY WorkersAssumption, FS_Subset, FS_CardinalityType DEF UnderWay

\* What the history makes of a count started anew or written back is typed.
LEMMA HistoryType ==
    ASSUME TypeOK, NEW w \in Workers, NEW p \in Phones,
           StartAnew(w, p) \/ WriteBack(w, p)
    PROVE  HistoryTyped'
<1>1. CASE StartAnew(w, p)
  BY <1>1, UnderWayFinite DEF StartAnew, TypeOK, HistoryTyped, UnderWay
<1>2. CASE WriteBack(w, p)
  BY <1>2 DEF WriteBack, TypeOK, HistoryTyped
<1> QED
  BY <1>1, <1>2

LEMMA ArriveType ==
    ASSUME TypeOK, NEW w \in Workers, NEW call \in Request,
           call.phone \in Phones, Arrive(w, call),
           HistoryTyped'
    PROVE  TypeOK'
<1>1. /\ req' \in [Workers -> Request]
      /\ \A v \in Workers : req'[v].pc # "idle" => req'[v].phone \in Phones
  BY ReqType DEF Arrive
<1>2. told' \in [Workers -> Answer]
  BY IdleType DEF Arrive, TypeOK
<1> QED
  BY <1>1, <1>2 DEF Arrive, TypeOK, HistoryTyped

\* A worker under way has a typed call, and an answer about its number is
\* typed.
LEMMA CallType ==
    ASSUME TypeOK, NEW w \in Workers, ~At(w, "idle")
    PROVE  /\ req[w] \in Request
           /\ req[w].phone \in Phones
           /\ req[w].at \in Nat
           /\ req[w].current \in Attempt
           /\ req[w].minted \in Subjects \cup {None}
           /\ attempt[req[w].phone] \in Attempt
           /\ binding[req[w].phone] \in Subjects \cup {None}
  BY DEF TypeOK, At, Request

LEMMA TellType ==
    ASSUME TypeOK, NEW w \in Workers, ~At(w, "idle"),
           NEW s \in Subjects \cup {None}, Tell(w, s)
    PROVE  told' \in [Workers -> Answer]
<1>1. [key |-> req[w].phone, value |-> s] \in Answer
  BY CallType DEF Answer
<1> QED
  BY <1>1 DEF Tell, TypeOK

\* A worker's step that is not a call keeps the types.
LEMMA WorkerType ==
    ASSUME TypeOK, NEW w \in Workers,
           \/ ReadBinding(w) \/ InsertBinding(w) \/ RereadBinding(w)
           \/ FailRead(w) \/ FailWrite(w) \/ Clear(w) \/ Abandon(w)
    PROVE  TypeOK'
<1>0. ~At(w, "idle")
  BY DEF At, ReadBinding, InsertBinding, RereadBinding, FailRead, FailWrite,
         Clear, Abandon
<1> USE <1>0
<1>1. CASE ReadBinding(w)
  <2>1. CASE Finish(w) /\ Tell(w, binding[req[w].phone])
    BY <1>1, <2>1, FinishType, TellType, CallType DEF ReadBinding, TypeOK, history
  <2>2. CASE Finish(w) /\ Tell(w, None)
    BY <1>1, <2>2, FinishType, TellType DEF ReadBinding, TypeOK, history
  <2>3. ASSUME NEW s \in Subjects, UNCHANGED told,
               req' = [req EXCEPT ![w].pc = "insert", ![w].minted = s]
        PROVE  TypeOK'
    <3> DEFINE q == [req[w] EXCEPT !.pc = "insert", !.minted = s]
    <3>1. q \in Request /\ q.phone \in Phones
      BY CallType DEF Request, Points
    <3>2. req' = [req EXCEPT ![w] = q]
      BY <2>3 DEF TypeOK
    <3> QED
      BY <1>1, <2>3, <3>1, <3>2, ReqType DEF ReadBinding, TypeOK, history
  <2> QED
    BY <1>1, <2>1, <2>2, <2>3 DEF ReadBinding
<1>2. CASE InsertBinding(w)
  <2> DEFINE q == [req[w] EXCEPT !.pc = "reread"]
  <2>1. q \in Request /\ q.phone \in Phones
    BY CallType DEF Request, Points
  <2>2. req' = [req EXCEPT ![w] = q]
    BY <1>2 DEF InsertBinding, TypeOK, history
  <2>3. binding' \in [Phones -> Subjects \cup {None}]
    BY <1>2, CallType DEF InsertBinding, BindOnce, TypeOK
  <2> QED
    BY <1>2, <2>1, <2>2, <2>3, ReqType DEF InsertBinding, TypeOK, history
<1>3. CASE RereadBinding(w)
  BY <1>3, FinishType, TellType, CallType DEF RereadBinding, TypeOK, history
<1>4. CASE FailRead(w)
  <2> DEFINE q == [req[w] EXCEPT !.pc = "failWrite",
                                 !.current = attempt[req[w].phone]]
  <2>1. q \in Request /\ q.phone \in Phones
    BY CallType DEF Request, Points
  <2>2. req' = [req EXCEPT ![w] = q]
    BY <1>4 DEF FailRead, TypeOK, history
  <2> QED
    BY <1>4, <2>1, <2>2, ReqType DEF FailRead, TypeOK, history
<1>5. CASE FailWrite(w)
  <2>1. attempt' \in [Phones -> Attempt]
    BY <1>5, CallType, FailType DEF FailWrite, TypeOK
  <2>2. HistoryTyped'
    BY <1>5, CallType, HistoryType DEF FailWrite
  <2> QED
    BY <1>5, <2>1, <2>2, FinishType DEF FailWrite, TypeOK, HistoryTyped
<1>6. CASE Clear(w)
  <2>1. attempt' \in [Phones -> Attempt]
    BY <1>6, IdleType DEF Clear, TypeOK
  <2>2. HistoryTyped'
    BY <1>6, CallType, HistoryType DEF Clear
  <2> QED
    BY <1>6, <2>1, <2>2, FinishType DEF Clear, TypeOK, HistoryTyped
<1>7. CASE Abandon(w)
  BY <1>7, FinishType DEF Abandon, TypeOK
<1> QED
  BY <1>1, <1>2, <1>3, <1>4, <1>5, <1>6, <1>7

\* A call comes in.
LEMMA CallsType ==
    ASSUME TypeOK, NEW w \in Workers, NEW p \in Phones,
           CallSubjectID(w, p) \/ CallRecordFailure(w, p) \/ CallClear(w, p)
    PROVE  TypeOK'
<1>1. CASE CallSubjectID(w, p)
  <2> DEFINE q == [Idle EXCEPT !.pc = "lookup", !.phone = p]
  <2>1. q \in Request /\ q.phone \in Phones
    BY IdleType DEF Request, Points
  <2>2. Arrive(w, q) /\ HistoryTyped'
    BY <1>1 DEF CallSubjectID, history, TypeOK, HistoryTyped
  <2> QED
    BY <2>1, <2>2, ArriveType
<1>2. CASE CallRecordFailure(w, p)
  <2> DEFINE q == [Idle EXCEPT !.pc = "failRead", !.phone = p, !.at = now]
  <2>1. q \in Request /\ q.phone \in Phones
    BY IdleType DEF Request, Points, TypeOK
  <2>2. Arrive(w, q) /\ HistoryTyped'
    BY <1>2 DEF CallRecordFailure, TypeOK, HistoryTyped
  <2> QED
    BY <2>1, <2>2, ArriveType
<1>3. CASE CallClear(w, p)
  <2> DEFINE q == [Idle EXCEPT !.pc = "clear", !.phone = p]
  <2>1. q \in Request /\ q.phone \in Phones
    BY IdleType DEF Request, Points
  <2>2. Arrive(w, q) /\ HistoryTyped'
    BY <1>3 DEF CallClear, history, TypeOK, HistoryTyped
  <2> QED
    BY <2>1, <2>2, ArriveType
<1> QED
  BY <1>1, <1>2, <1>3

LEMMA InitType == Init => TypeOK
  BY IdleType DEF Init, TypeOK

LEMMA NextType == TypeOK /\ [Next]_vars => TypeOK'
<1> SUFFICES ASSUME TypeOK, [Next]_vars PROVE TypeOK'
  OBVIOUS
<1>1. ASSUME NEW w \in Workers, NEW p \in Phones,
             CallSubjectID(w, p) \/ CallRecordFailure(w, p) \/ CallClear(w, p)
      PROVE  TypeOK'
  BY <1>1, CallsType
<1>2. ASSUME NEW w \in Workers,
             \/ ReadBinding(w) \/ InsertBinding(w) \/ RereadBinding(w)
             \/ FailRead(w) \/ FailWrite(w) \/ Clear(w) \/ Abandon(w)
      PROVE  TypeOK'
  BY <1>2, WorkerType
<1>3. CASE Tick
  BY <1>3 DEF Tick, TypeOK, history
<1>4. CASE UNCHANGED vars
  BY <1>4 DEF vars, TypeOK, history
<1> QED
  BY <1>1, <1>2, <1>3, <1>4 DEF Next

\* The phone store's rows and the calls on it stay typed.
THEOREM PhoneTypeCorrect == Spec => []TypeOK
  BY InitType, NextType, PTL DEF Spec

-----------------------------------------------------------------------------
(* The register of bindings.                                               *)

\* What a step can do to one worker's call.
Moved(v) ==
    \/ req'[v] = req[v]
    \/ req'[v] = Idle
    \/ \E p \in Phones : req'[v] = [Idle EXCEPT !.pc = "lookup", !.phone = p]
    \/ \E p \in Phones : req'[v] = [Idle EXCEPT !.pc = "clear", !.phone = p]
    \/ \E p \in Phones :
          req'[v] = [Idle EXCEPT !.pc = "failRead", !.phone = p, !.at = now]
    \/ \E s \in Subjects :
          req'[v] = [req[v] EXCEPT !.pc = "insert", !.minted = s]
    \/ req'[v] = [req[v] EXCEPT !.pc = "reread"]
    \/ /\ req[v].phone \in Phones
       /\ req'[v] = [req[v] EXCEPT !.pc = "failWrite",
                                   !.current = attempt[req[v].phone]]

LEMMA CallMoves ==
    ASSUME TypeOK, [Next]_vars, NEW v \in Workers
    PROVE  Moved(v)
<1>1. CASE req'[v] = req[v]
  BY <1>1 DEF Moved
<1>2. ASSUME NEW w \in Workers, Finish(w) PROVE Moved(v)
  BY <1>2 DEF Moved, Finish, TypeOK
<1>3. ASSUME NEW w \in Workers, NEW q, req' = [req EXCEPT ![w] = q], v # w
      PROVE  Moved(v)
  BY <1>1, <1>3 DEF TypeOK
<1>4. ASSUME NEW w \in Workers, NEW p \in Phones,
             CallSubjectID(w, p) \/ CallRecordFailure(w, p) \/ CallClear(w, p)
      PROVE  Moved(v)
  <2>1. CASE v # w
    BY <1>3, <1>4, <2>1 DEF CallSubjectID, CallRecordFailure, CallClear, Arrive
  <2>2. CASE v = w
    BY <1>4, <2>2
       DEF CallSubjectID, CallRecordFailure, CallClear, Arrive, Moved, TypeOK
  <2> QED
    BY <2>1, <2>2
<1>5. ASSUME NEW w \in Workers, ReadBinding(w), ~Finish(w) PROVE Moved(v)
  <2>1. PICK s \in Subjects :
               req' = [req EXCEPT ![w].pc = "insert", ![w].minted = s]
    BY <1>5 DEF ReadBinding
  <2>2. CASE v # w
    BY <1>1, <2>1, <2>2 DEF TypeOK
  <2>3. CASE v = w
    BY <2>1, <2>3 DEF Moved, TypeOK
  <2> QED
    BY <2>2, <2>3
<1>6. ASSUME NEW w \in Workers, InsertBinding(w) PROVE Moved(v)
  <2>1. CASE v # w
    BY <1>1, <1>6, <2>1 DEF InsertBinding, TypeOK
  <2>2. CASE v = w
    BY <1>6, <2>2 DEF InsertBinding, Moved, TypeOK
  <2> QED
    BY <2>1, <2>2
<1>7. ASSUME NEW w \in Workers, FailRead(w) PROVE Moved(v)
  <2>1. CASE v # w
    BY <1>1, <1>7, <2>1 DEF FailRead, TypeOK
  <2>2. CASE v = w
    <3>1. req[v].phone \in Phones
      BY <1>7, <2>2, CallType DEF FailRead, At
    <3> QED
      BY <1>7, <2>2, <3>1 DEF FailRead, Moved, TypeOK
  <2> QED
    BY <2>1, <2>2
<1>8. ASSUME NEW w \in Workers,
             RereadBinding(w) \/ FailWrite(w) \/ Clear(w) \/ Abandon(w)
      PROVE  Finish(w)
  BY <1>8 DEF RereadBinding, FailWrite, Clear, Abandon
<1>9. CASE Tick \/ UNCHANGED vars
  BY <1>1, <1>9 DEF Tick, vars
<1> QED
  BY <1>2, <1>4, <1>5, <1>6, <1>7, <1>8, <1>9 DEF Next

\* What that does to the row and the clock reading the call carries.
LEMMA MovedCarries ==
    ASSUME TypeOK, NEW v \in Workers, Moved(v)
    PROVE  /\ \/ req'[v].current = req[v].current
              \/ req'[v].current = NoAttempt
              \/ \E p \in Phones : req'[v].current = attempt[p]
           /\ req'[v].at \in {req[v].at, 0, now}
<1> DEFINE Goal(q) ==
             /\ \/ q.current = req[v].current
                \/ q.current = NoAttempt
                \/ \E p \in Phones : q.current = attempt[p]
             /\ q.at \in {req[v].at, 0, now}
<1>1. \A s : \A q \in Request :
         /\ [q EXCEPT !.pc = "insert", !.minted = s].current = q.current
         /\ [q EXCEPT !.pc = "insert", !.minted = s].at = q.at
         /\ [q EXCEPT !.pc = "reread"].current = q.current
         /\ [q EXCEPT !.pc = "reread"].at = q.at
  BY DEF Request
<1>2. \A c : \A q \in Request :
         /\ [q EXCEPT !.pc = "failWrite", !.current = c].current = c
         /\ [q EXCEPT !.pc = "failWrite", !.current = c].at = q.at
  BY DEF Request
<1>3. Goal(req[v]) /\ Goal(Idle)
  BY DEF Idle
<1>4. \A p \in Phones : /\ Goal([Idle EXCEPT !.pc = "lookup", !.phone = p])
                        /\ Goal([Idle EXCEPT !.pc = "clear", !.phone = p])
                        /\ Goal([Idle EXCEPT !.pc = "failRead", !.phone = p,
                                             !.at = now])
  BY DEF Idle
<1>5. req[v] \in Request
  BY DEF TypeOK
<1>6. \A s : Goal([req[v] EXCEPT !.pc = "insert", !.minted = s])
  BY <1>1, <1>5, Zenon
<1>7. Goal([req[v] EXCEPT !.pc = "reread"])
  BY <1>1, <1>5, Zenon
<1>8. req[v].phone \in Phones =>
        Goal([req[v] EXCEPT !.pc = "failWrite",
                            !.current = attempt[req[v].phone]])
  BY <1>2, <1>5, Zenon
<1> HIDE DEF Goal
<1>9. Goal(req'[v])
  BY <1>3, <1>4, <1>6, <1>7, <1>8, Zenon DEF Moved
<1> QED
  BY <1>9 DEF Goal

\* A call about to insert was minted a subject.
MintInv == \A w \in Workers : At(w, "insert") => req[w].minted \in Subjects

LEMMA MintInit == Init => MintInv
  BY IdleType DEF Init, MintInv, At

LEMMA MintNext == TypeOK /\ MintInv /\ [Next]_vars => MintInv'
<1> SUFFICES ASSUME TypeOK, MintInv, [Next]_vars,
                    NEW v \in Workers, At(v, "insert")'
             PROVE  req'[v].minted \in Subjects
  BY DEF MintInv
<1>1. Moved(v) /\ req[v] \in Request /\ req'[v].pc = "insert"
  BY CallMoves DEF TypeOK, At
<1> QED
  BY <1>1, IdleType DEF Moved, MintInv, At, Request

LEMMA RegisterInit == Init => Register!Init
  BY DEF Init, Register!Init, NoAnswer, Register!NoAnswer

LEMMA RegisterNext ==
    TypeOK /\ MintInv /\ [Next]_vars => [Register!Next]_(Register!vars)
<1> SUFFICES ASSUME TypeOK, MintInv, [Next]_vars
             PROVE  Register!Next \/ UNCHANGED <<binding, told>>
  BY DEF Register!vars
<1>1. ASSUME NEW w \in Workers, NEW p \in Phones,
             CallSubjectID(w, p) \/ CallRecordFailure(w, p) \/ CallClear(w, p)
      PROVE  Register!Next
  <2>1. Register!Ask(w)
    BY <1>1 DEF CallSubjectID, CallRecordFailure, CallClear, Arrive,
                Register!Ask, NoAnswer, Register!NoAnswer
  <2> QED
    BY <2>1 DEF Register!Next
<1>2. ASSUME NEW w \in Workers, ReadBinding(w) \/ RereadBinding(w)
      PROVE  Register!Next \/ UNCHANGED <<binding, told>>
  <2>1. req[w].phone \in Phones
    BY <1>2, CallType DEF ReadBinding, RereadBinding, At
  <2>2. CASE UNCHANGED told
    BY <1>2, <2>2 DEF ReadBinding, RereadBinding
  <2>3. CASE Tell(w, binding[req[w].phone])
    <3>1. Register!Tell(w, req[w].phone)
      BY <1>2, <2>3 DEF ReadBinding, RereadBinding, Tell, Register!Tell
    <3> QED
      BY <2>1, <3>1 DEF Register!Next
  <2> QED
    BY <1>2, <2>2, <2>3 DEF ReadBinding, RereadBinding
<1>3. ASSUME NEW w \in Workers, InsertBinding(w)
      PROVE  Register!Next \/ UNCHANGED <<binding, told>>
  <2>1. req[w].phone \in Phones /\ req[w].minted \in Subjects
    BY <1>3, CallType DEF InsertBinding, At, MintInv
  <2>2. CASE binding[req[w].phone] = None
    <3>1. Register!Settle(req[w].phone, req[w].minted)
      BY <1>3, <2>2 DEF InsertBinding, BindOnce, Register!Settle
    <3> QED
      BY <2>1, <3>1 DEF Register!Next
  <2>3. CASE binding[req[w].phone] # None
    BY <1>3, <2>3 DEF InsertBinding, BindOnce
  <2> QED
    BY <2>2, <2>3
<1>4. ASSUME NEW w \in Workers,
             FailRead(w) \/ FailWrite(w) \/ Clear(w) \/ Abandon(w)
      PROVE  UNCHANGED <<binding, told>>
  BY <1>4 DEF FailRead, FailWrite, Clear, Abandon
<1>5. CASE Tick \/ UNCHANGED vars
  BY <1>5 DEF Tick, vars
<1> QED
  BY <1>1, <1>2, <1>3, <1>4, <1>5 DEF Next

\* Whoever races whom, a number is bound to one subject and all are told it:
\* the store implements WriteOnce.
THEOREM PhoneBindsOnce == Spec => BindingSpec
<1>1. Spec => [](TypeOK /\ MintInv)
  BY InitType, NextType, MintInit, MintNext, PTL DEF Spec
<1> QED
  BY <1>1, RegisterInit, RegisterNext, PTL DEF Spec, BindingSpec, Register!Spec

-----------------------------------------------------------------------------
(* The lock.                                                               *)

\* Every row, in the table or in a call's hands, has used up its tries when it
\* carries a lock, and no call has a clock reading from the future.
LockInv ==
    /\ \A p \in Phones : Spent(attempt[p])
    /\ \A w \in Workers : Spent(req[w].current)
    /\ \A w \in Workers : req[w].at <= now

LEMMA EmptyRowSpent == Spent(NoAttempt) /\ Idle.current = NoAttempt /\ Idle.at = 0
  BY DEF Spent, NoAttempt, Idle

LEMMA LockInit == Init => LockInv
  BY EmptyRowSpent DEF Init, LockInv

LEMMA LockNext == TypeOK /\ LockInv /\ [Next]_vars => LockInv'
<1> SUFFICES ASSUME TypeOK, LockInv, [Next]_vars PROVE LockInv'
  OBVIOUS
<1>1. \A p \in Phones : Spent(attempt'[p])
  <2>1. ASSUME NEW w \in Workers, FailWrite(w)
        PROVE  \A p \in Phones : Spent(attempt'[p])
    <3>1. Spent(Fail(req[w].current, req[w].at))
      BY <2>1, CallType, FailSpends DEF FailWrite, At, LockInv
    <3> QED
      BY <2>1, <3>1 DEF FailWrite, LockInv, TypeOK
  <2>2. ASSUME NEW w \in Workers, Clear(w)
        PROVE  \A p \in Phones : Spent(attempt'[p])
    BY <2>2, EmptyRowSpent DEF Clear, LockInv, TypeOK
  <2>3. CASE UNCHANGED attempt
    BY <2>3 DEF LockInv
  <2>4. \/ UNCHANGED attempt
        \/ \E w \in Workers : FailWrite(w) \/ Clear(w)
    BY DEF Next, CallSubjectID, CallRecordFailure, CallClear, Arrive,
           ReadBinding, InsertBinding, RereadBinding, FailRead, Abandon, Tick,
           vars
  <2> QED
    BY <2>1, <2>2, <2>3, <2>4
<1>2. now \in Nat /\ now' \in Nat /\ now <= now'
  <2>1. now' = now \/ now' = now + 1
    BY Zenon DEF Next, CallSubjectID, CallRecordFailure, CallClear, Arrive,
           ReadBinding, InsertBinding, RereadBinding, FailRead, FailWrite,
           Clear, Abandon, Tick, vars
  <2> QED
    BY <2>1 DEF TypeOK
<1>3. \A v \in Workers : \/ req'[v].current = req[v].current
                         \/ req'[v].current = NoAttempt
                         \/ \E p \in Phones : req'[v].current = attempt[p]
  BY CallMoves, MovedCarries
<1>4. \A v \in Workers : req'[v].at \in {req[v].at, 0, now}
  BY CallMoves, MovedCarries
<1>5. \A v \in Workers : Spent(req'[v].current)
  BY <1>3, EmptyRowSpent DEF LockInv
<1>6. \A v \in Workers : req'[v].at <= now'
  BY <1>2, <1>4 DEF LockInv, TypeOK, Request
<1> QED
  BY <1>1, <1>5, <1>6 DEF LockInv

\* A failure that read the row as it is, by a clock reading no older than that
\* of the call that locked it, keeps a running lock.
LEMMA LockStep ==
    ASSUME TypeOK, LockInv, [Next]_vars, NEW p \in Phones,
           Locked(attempt[p], now), ~Locked(attempt'[p], now)
    PROVE  \/ attempt'[p] = NoAttempt
           \/ \E w \in Workers :
                 /\ At(w, "failWrite")
                 /\ req[w].phone = p
                 /\ \/ req[w].current # attempt[p]
                    \/ req[w].at + LockFor < attempt[p].lockedUntil
<1>1. attempt'[p] # attempt[p]
  OBVIOUS
<1>2. ASSUME NEW w \in Workers, Clear(w) PROVE attempt'[p] = NoAttempt
  BY <1>1, <1>2 DEF Clear, TypeOK
<1>3. ASSUME NEW w \in Workers, FailWrite(w)
      PROVE  /\ At(w, "failWrite")
             /\ req[w].phone = p
             /\ \/ req[w].current # attempt[p]
                \/ req[w].at + LockFor < attempt[p].lockedUntil
  <2>1. At(w, "failWrite") /\ req[w].phone = p
    BY <1>1, <1>3 DEF FailWrite, TypeOK
  <2>2. ASSUME req[w].current = attempt[p],
               req[w].at + LockFor >= attempt[p].lockedUntil
        PROVE  FALSE
    <3> DEFINE a == attempt[p]
               t == req[w].at
    <3>1. a \in Attempt /\ t \in Nat /\ now \in Nat /\ t <= now /\ Spent(a)
      BY <2>1, CallType DEF At, LockInv, TypeOK
    <3>2. Locked(a, t)
      BY <3>1 DEF Locked, Attempt
    <3>3. Fail(a, t).lockedUntil = t + LockFor
      BY <3>1, <3>2, FailExtends
    <3>4. attempt'[p] = Fail(a, t)
      BY <1>3, <2>1, <2>2 DEF FailWrite, TypeOK
    <3>5. now < t + LockFor /\ t + LockFor # 0
      BY <2>2, <3>1, LockForAssumption DEF Locked, Attempt
    <3> QED
      BY <3>3, <3>4, <3>5 DEF Locked
  <2>3. req[w].at \in Nat /\ attempt[p].lockedUntil \in Nat
    BY <2>1, CallType DEF At, TypeOK, Attempt
  <2> QED
    BY <2>1, <2>2, <2>3, LockForAssumption
<1> QED
  BY <1>1, <1>2, <1>3
     DEF Next, CallSubjectID, CallRecordFailure, CallClear, Arrive,
         ReadBinding, InsertBinding, RereadBinding, FailRead, Abandon, Tick,
         vars

\* A running lock is undone by a right code or by a straggler only.
THEOREM PhoneLockLasts == Spec => OnlyStragglersUnlock
<1> DEFINE Undone(p) ==
             Locked(attempt[p], now) /\ ~Locked(attempt'[p], now) =>
               \/ attempt'[p] = NoAttempt
               \/ \E w \in Workers :
                     /\ At(w, "failWrite")
                     /\ req[w].phone = p
                     /\ \/ req[w].current # attempt[p]
                        \/ req[w].at + LockFor < attempt[p].lockedUntil
<1>1. Spec => [](TypeOK /\ LockInv)
  BY InitType, NextType, LockInit, LockNext, PTL DEF Spec
<1>2. TypeOK /\ LockInv /\ [Next]_vars => [\A p \in Phones : Undone(p)]_vars
  BY LockStep
<1> QED
  BY <1>1, <1>2, PTL DEF Spec, OnlyStragglersUnlock

-----------------------------------------------------------------------------
(* The count.  Wrong codes under way have been given and not yet counted;  *)
(* a row in a call's hands may be older than the table's, but counts no    *)
(* failure of theirs either, and none from before the count last started   *)
(* anew unless the call is overtaken.                                      *)

\* A number's count, with the codes under way that are yet to add to it, and
\* the same of the row each of them read, is within the codes given in a row.
Earned(p) ==
    p \notin revived =>
        /\ attempt[p].failed + Cardinality(UnderWay(p)) <= streak[p]
        /\ \A w \in UnderWay(p) \ overtaken : At(w, "failWrite") =>
             req[w].current.failed + Cardinality(UnderWay(p)) <= streak[p]

EarnInv == \A p \in Phones : Earned(p)

\* One more failure counts one at most, and just one on a run-out lock.
LEMMA FailAddsOne ==
    ASSUME NEW a \in Attempt, NEW t \in Nat
    PROVE  /\ Fail(a, t).failed <= a.failed + 1
           /\ RanOut(a, t) => Fail(a, t).failed = 1
  BY DEF Fail, RanOut, Locked, Attempt

LEMMA CountsAreNumbers ==
    ASSUME TypeOK, NEW p \in Phones
    PROVE  /\ Cardinality(UnderWay(p)) \in Nat
           /\ attempt[p].failed \in Nat
           /\ streak[p] \in Nat
           /\ \A v \in Workers : req[v].current.failed \in Nat
  BY UnderWayFinite DEF TypeOK, Request, Attempt

LEMMA EarnInit == Init => EarnInv
<1> SUFFICES ASSUME Init, NEW p \in Phones PROVE Earned(p)
  BY DEF EarnInv
<1>1. UnderWay(p) = {}
  BY IdleType DEF Init, UnderWay, Counting
<1>2. Cardinality(UnderWay(p)) = 0
  BY <1>1, FS_EmptySet
<1>3. attempt[p].failed = 0 /\ streak[p] = 0
  BY DEF Init, NoAttempt
<1> QED
  BY <1>1, <1>2, <1>3 DEF Earned

\* A step of one worker that puts no new code under way and adds nothing to
\* the count keeps it earned; the call may read the row.
LEMMA EarnShrinks ==
    ASSUME TypeOK, TypeOK', NEW p \in Phones, Earned(p),
           NEW w \in Workers, NEW q \in Request, req' = [req EXCEPT ![w] = q],
           \/ q.pc \notin {"failRead", "failWrite"}
           \/ q.phone # p
           \/ Counting(w, p) /\ q.current = attempt[p],
           attempt'[p].failed <= attempt[p].failed,
           streak'[p] = streak[p],
           overtaken \ {w} \subseteq overtaken',
           p \in revived => p \in revived'
    PROVE  Earned(p)'
<1>1. \A v \in Workers : req'[v] = IF v = w THEN q ELSE req[v]
  BY DEF TypeOK
<1> DEFINE V == {v \in Workers : /\ req'[v].pc \in {"failRead", "failWrite"}
                                 /\ req'[v].phone = p}
<1>2. UnderWay(p)' = V
  BY DEF UnderWay, Counting
<1>3. V \subseteq UnderWay(p) /\ V \subseteq Workers
  BY <1>1 DEF UnderWay, Counting
<1>4. \A v \in V \ overtaken' : req'[v].pc = "failWrite" =>
        \/ req'[v].current = attempt[p]
        \/ /\ v \in UnderWay(p) \ overtaken /\ At(v, "failWrite")
           /\ req'[v].current = req[v].current
  BY <1>1, <1>3 DEF At
<1> HIDE DEF V
<1>5. /\ IsFiniteSet(UnderWay(p))
      /\ IsFiniteSet(V) /\ Cardinality(V) \in Nat
      /\ Cardinality(V) <= Cardinality(UnderWay(p))
  BY <1>3, UnderWayFinite, FS_Subset, FS_CardinalityType
<1>6. /\ Cardinality(UnderWay(p)) \in Nat
      /\ attempt[p].failed \in Nat /\ streak[p] \in Nat
      /\ \A v \in Workers : req[v].current.failed \in Nat
  BY CountsAreNumbers
<1>7. attempt'[p].failed \in Nat
  BY DEF TypeOK, Attempt
<1>8. p \notin revived' =>
        attempt'[p].failed + Cardinality(V) <= streak'[p]
  BY <1>5, <1>6, <1>7 DEF Earned
<1>9. ASSUME p \notin revived',
             NEW v \in V \ overtaken', req'[v].pc = "failWrite"
      PROVE  req'[v].current.failed + Cardinality(V) <= streak'[p]
  <2>1. v \in Workers
    BY <1>3
  <2>2. CASE req'[v].current = attempt[p]
    BY <1>5, <1>6, <1>9, <2>2 DEF Earned
  <2>3. CASE /\ v \in UnderWay(p) \ overtaken /\ At(v, "failWrite")
             /\ req'[v].current = req[v].current
    BY <1>5, <1>6, <1>9, <2>1, <2>3 DEF Earned
  <2> QED
    BY <1>4, <1>9, <2>2, <2>3
<1> QED
  BY <1>2, <1>8, <1>9 DEF Earned, At

\* A wrong code given: one more given, one more under way.
LEMMA EarnGrows ==
    ASSUME TypeOK, NEW p \in Phones, Earned(p),
           NEW w \in Workers, CallRecordFailure(w, p)
    PROVE  Earned(p)'
<1> DEFINE q == [Idle EXCEPT !.pc = "failRead", !.phone = p, !.at = now]
           V == {v \in Workers : /\ req'[v].pc \in {"failRead", "failWrite"}
                                 /\ req'[v].phone = p}
<1>1. req' = [req EXCEPT ![w] = q] /\ At(w, "idle") /\ UNCHANGED attempt
  BY DEF CallRecordFailure, Arrive
<1>2. q.pc = "failRead" /\ q.phone = p
  BY DEF Idle
<1> HIDE DEF q
<1>3. \A v \in Workers : req'[v] = IF v = w THEN q ELSE req[v]
  BY <1>1 DEF TypeOK
<1>4. UnderWay(p)' = V
  BY DEF UnderWay, Counting
<1>5. V = UnderWay(p) \cup {w} /\ w \notin UnderWay(p)
  BY <1>1, <1>2, <1>3 DEF UnderWay, Counting, At
<1>6. \A v \in V : req'[v].pc = "failWrite" =>
        v \in UnderWay(p) /\ At(v, "failWrite") /\ req'[v] = req[v]
  BY <1>2, <1>3, <1>5 DEF At, UnderWay
<1> HIDE DEF V
<1>7. IsFiniteSet(UnderWay(p))
  BY UnderWayFinite
<1>8. Cardinality(V) = Cardinality(UnderWay(p)) + 1
  BY <1>5, <1>7, FS_AddElement
<1>9. /\ Cardinality(UnderWay(p)) \in Nat
      /\ attempt[p].failed \in Nat /\ streak[p] \in Nat
      /\ \A v \in Workers : req[v].current.failed \in Nat
  BY CountsAreNumbers
<1>10. /\ streak'[p] = streak[p] + 1 /\ attempt'[p] = attempt[p]
       /\ overtaken' = overtaken /\ revived' = revived
  BY DEF CallRecordFailure, Arrive, TypeOK
<1>11. p \notin revived' =>
         attempt'[p].failed + Cardinality(V) <= streak'[p]
  BY <1>8, <1>9, <1>10 DEF Earned
<1>12. ASSUME p \notin revived',
              NEW v \in V \ overtaken', req'[v].pc = "failWrite"
       PROVE  req'[v].current.failed + Cardinality(V) <= streak'[p]
  <2>1. /\ v \in UnderWay(p) \ overtaken /\ v \in Workers
        /\ At(v, "failWrite") /\ req'[v] = req[v]
    BY <1>6, <1>10, <1>12 DEF UnderWay
  <2>2. req[v].current.failed + Cardinality(UnderWay(p)) <= streak[p]
    BY <1>10, <1>12, <2>1 DEF Earned
  <2> QED
    BY <1>8, <1>9, <1>10, <2>1, <2>2
<1> QED
  BY <1>4, <1>11, <1>12 DEF Earned, At

\* The count starts anew: whatever row a call under way has read, the call is
\* overtaken, so that the table's row is all there is to see to.
LEMMA EarnAnew ==
    ASSUME TypeOK, NEW p \in Phones, NEW w \in Workers,
           StartAnew(w, p), Finish(w),
           attempt'[p].failed + Cardinality(UnderWay(p)')
             <= Cardinality(UnderWay(p))
    PROVE  Earned(p)'
<1>1. \A v \in Workers : req'[v] = IF v = w THEN Idle ELSE req[v]
  BY DEF Finish, TypeOK
<1>2. ASSUME NEW v \in Workers,
             req'[v].pc = "failWrite", req'[v].phone = p
      PROVE  v \in overtaken'
  BY <1>1, <1>2, IdleType DEF StartAnew, UnderWay, Counting, At
<1>3. streak'[p] = Cardinality(UnderWay(p))
  BY DEF StartAnew, TypeOK
<1>4. attempt'[p].failed + Cardinality(UnderWay(p))' <= streak'[p]
  BY <1>3
<1> QED
  BY <1>2, <1>4 DEF Earned, UnderWay, Counting, At

\* A right code: the row is gone, and the codes under way are all there is.
LEMMA EarnClears ==
    ASSUME TypeOK, NEW p \in Phones, NEW w \in Workers, Clear(w),
           req[w].phone = p
    PROVE  Earned(p)'
<1>1. \A v \in Workers : req'[v] = IF v = w THEN Idle ELSE req[v]
  BY DEF Clear, Finish, TypeOK
<1>2. UnderWay(p)' = UnderWay(p)
  BY <1>1, IdleType DEF Clear, At, UnderWay, Counting
<1>3. attempt'[p].failed = 0
  BY DEF Clear, TypeOK, NoAttempt
<1>4. Cardinality(UnderWay(p)) \in Nat
  BY UnderWayFinite
<1> QED
  BY <1>2, <1>3, <1>4, EarnAnew DEF Clear

\* A wrong code counted: it is under way no more, and the row it read, which
\* is what it adds one to, had left room for it, or the call was overtaken.
LEMMA EarnMoves ==
    ASSUME TypeOK, TypeOK', NEW p \in Phones, Earned(p),
           NEW w \in Workers, FailWrite(w), req[w].phone = p
    PROVE  Earned(p)'
<1> DEFINE V == {v \in Workers : /\ req'[v].pc \in {"failRead", "failWrite"}
                                 /\ req'[v].phone = p}
<1>1. \A v \in Workers : req'[v] = IF v = w THEN Idle ELSE req[v]
  BY DEF FailWrite, Finish, TypeOK
<1>2. At(w, "failWrite") /\ w \in UnderWay(p)
  BY DEF FailWrite, At, UnderWay, Counting
<1>3. UnderWay(p)' = V
  BY DEF UnderWay, Counting
<1>4. V = UnderWay(p) \ {w}
  BY <1>1, <1>2, IdleType DEF UnderWay, Counting
<1>5. \A v \in V : req'[v] = req[v]
  BY <1>1, <1>4
<1> HIDE DEF V
<1>6. IsFiniteSet(UnderWay(p))
  BY UnderWayFinite
<1>7. Cardinality(V) = Cardinality(UnderWay(p)) - 1
  BY <1>2, <1>4, <1>6, FS_RemoveElement
<1>8. /\ Cardinality(UnderWay(p)) \in Nat /\ streak[p] \in Nat
      /\ attempt[p].failed \in Nat
      /\ \A v \in Workers : req[v].current.failed \in Nat
  BY CountsAreNumbers
<1>9. /\ attempt'[p].failed \in Nat
      /\ attempt'[p].failed <= req[w].current.failed + 1
      /\ RanOut(req[w].current, req[w].at) => attempt'[p].failed = 1
  <2>1. req[w].current \in Attempt /\ req[w].at \in Nat
    BY <1>2, CallType DEF At
  <2>2. attempt'[p] = Fail(req[w].current, req[w].at)
    BY DEF FailWrite, TypeOK
  <2>3. attempt'[p] \in Attempt
    BY DEF TypeOK
  <2> QED
    BY <2>1, <2>2, <2>3, FailAddsOne DEF Attempt
<1>10. CASE RanOut(req[w].current, req[w].at)
  <2>1. attempt'[p].failed + Cardinality(UnderWay(p)')
          <= Cardinality(UnderWay(p))
    BY <1>3, <1>7, <1>8, <1>9, <1>10
  <2> QED
    BY <1>10, <2>1, EarnAnew DEF FailWrite
<1>11. CASE ~RanOut(req[w].current, req[w].at)
  <2>1. WriteBack(w, p)
    BY <1>11 DEF FailWrite
  <2>2. /\ streak'[p] = streak[p]
        /\ overtaken' = overtaken \ {w}
        /\ revived \subseteq revived'
        /\ p \notin revived' =>
             w \notin overtaken \/ req[w].current.failed = 0
    BY <2>1 DEF WriteBack
  <2>3. ASSUME p \notin revived'
        PROVE  req[w].current.failed + Cardinality(UnderWay(p)) <= streak[p]
    <3>1. CASE w \notin overtaken
      BY <1>2, <2>2, <2>3, <3>1 DEF Earned
    <3>2. CASE req[w].current.failed = 0
      BY <1>8, <2>2, <2>3, <3>2 DEF Earned
    <3> QED
      BY <2>2, <2>3, <3>1, <3>2
  <2>4. p \notin revived' =>
          attempt'[p].failed + Cardinality(V) <= streak'[p]
    BY <1>7, <1>8, <1>9, <2>2, <2>3
  <2>5. ASSUME p \notin revived',
               NEW v \in V \ overtaken', req'[v].pc = "failWrite"
        PROVE  req'[v].current.failed + Cardinality(V) <= streak'[p]
    <3>1. /\ v \in UnderWay(p) \ overtaken /\ v \in Workers
          /\ req'[v] = req[v]
      BY <1>4, <1>5, <2>2, <2>5 DEF UnderWay
    <3>2. req[v].current.failed + Cardinality(UnderWay(p)) <= streak[p]
      BY <2>2, <2>5, <3>1 DEF Earned, At
    <3> QED
      BY <1>7, <1>8, <2>2, <3>1, <3>2
  <2> QED
    BY <1>3, <2>4, <2>5 DEF Earned, At
<1> QED
  BY <1>10, <1>11

LEMMA EarnNext == TypeOK /\ EarnInv /\ [Next]_vars => EarnInv'
<1> SUFFICES ASSUME TypeOK, EarnInv, [Next]_vars, NEW p \in Phones
             PROVE  Earned(p)'
  BY DEF EarnInv
<1>0. TypeOK' /\ Earned(p) /\ attempt[p].failed \in Nat
  BY NextType DEF EarnInv, TypeOK, Attempt
<1> USE <1>0
<1>same. attempt'[p] = attempt[p] => attempt'[p].failed <= attempt[p].failed
  OBVIOUS
<1>1. ASSUME NEW w \in Workers, Finish(w), attempt'[p] = attempt[p],
             streak'[p] = streak[p], overtaken \ {w} \subseteq overtaken',
             p \in revived => p \in revived'
      PROVE  Earned(p)'
  <2>1. Idle \in Request /\ Idle.pc \notin {"failRead", "failWrite"}
    BY IdleType
  <2> QED
    BY <1>1, <1>same, <2>1, EarnShrinks DEF Finish
<1>2. ASSUME NEW w \in Workers, NEW r \in Phones,
             CallSubjectID(w, r) \/ CallClear(w, r)
      PROVE  Earned(p)'
  <2>1. PICK q \in Request : /\ req' = [req EXCEPT ![w] = q]
                             /\ q.pc \notin {"failRead", "failWrite"}
    <3> DEFINE a == [Idle EXCEPT !.pc = "lookup", !.phone = r]
               b == [Idle EXCEPT !.pc = "clear", !.phone = r]
    <3>1. /\ a \in Request /\ a.pc = "lookup"
          /\ b \in Request /\ b.pc = "clear"
      BY IdleType DEF Request, Points
    <3>2. req' = [req EXCEPT ![w] = a] \/ req' = [req EXCEPT ![w] = b]
      BY <1>2 DEF CallSubjectID, CallClear, Arrive
    <3> HIDE DEF a, b
    <3> QED
      BY <3>1, <3>2
  <2>2. attempt'[p] = attempt[p] /\ UNCHANGED <<streak, overtaken, revived>>
    BY <1>2 DEF CallSubjectID, CallClear, Arrive, history
  <2> QED
    BY <1>same, <2>1, <2>2, EarnShrinks
<1>3. ASSUME NEW w \in Workers, NEW r \in Phones, CallRecordFailure(w, r)
      PROVE  Earned(p)'
  <2>1. CASE r = p
    BY <1>3, <2>1, EarnGrows
  <2>2. CASE r # p
    <3> DEFINE q == [Idle EXCEPT !.pc = "failRead", !.phone = r, !.at = now]
    <3>1. q \in Request /\ q.phone # p
      BY <2>2, IdleType DEF Request, Points, TypeOK
    <3>2. /\ req' = [req EXCEPT ![w] = q]
          /\ attempt'[p] = attempt[p] /\ streak'[p] = streak[p]
          /\ UNCHANGED <<overtaken, revived>>
      BY <1>3, <2>2 DEF CallRecordFailure, Arrive, TypeOK
    <3> HIDE DEF q
    <3> QED
      BY <1>same, <3>1, <3>2, EarnShrinks
  <2> QED
    BY <2>1, <2>2
<1>4. ASSUME NEW w \in Workers, ReadBinding(w) PROVE Earned(p)'
  <2>0. attempt'[p] = attempt[p] /\ UNCHANGED <<streak, overtaken, revived>>
    BY <1>4 DEF ReadBinding, history
  <2>1. CASE Finish(w)
    BY <1>1, <2>0, <2>1
  <2>2. ASSUME NEW s \in Subjects,
               req' = [req EXCEPT ![w].pc = "insert", ![w].minted = s]
        PROVE  Earned(p)'
    <3> DEFINE q == [req[w] EXCEPT !.pc = "insert", !.minted = s]
    <3>0. req[w] \in Request
      BY DEF TypeOK
    <3>1. q \in Request /\ q.pc = "insert"
      BY <3>0 DEF Request, Points
    <3>2. req' = [req EXCEPT ![w] = q]
      BY <2>2 DEF TypeOK
    <3> HIDE DEF q
    <3>3. attempt'[p].failed <= attempt[p].failed /\ streak'[p] = streak[p]
      BY <1>same, <2>0
    <3> QED
      BY <2>0, <3>1, <3>2, <3>3, EarnShrinks
  <2> QED
    BY <1>4, <2>1, <2>2 DEF ReadBinding
<1>5. ASSUME NEW w \in Workers, InsertBinding(w) PROVE Earned(p)'
  <2> DEFINE q == [req[w] EXCEPT !.pc = "reread"]
  <2>1. q \in Request /\ q.pc = "reread"
    BY DEF TypeOK, Request, Points
  <2>2. /\ req' = [req EXCEPT ![w] = q]
        /\ attempt'[p] = attempt[p] /\ UNCHANGED <<streak, overtaken, revived>>
    BY <1>5 DEF InsertBinding, TypeOK, history
  <2> HIDE DEF q
  <2> QED
    BY <1>same, <2>1, <2>2, EarnShrinks
<1>6. ASSUME NEW w \in Workers, FailRead(w) PROVE Earned(p)'
  <2> DEFINE r == req[w].phone
             q == [req[w] EXCEPT !.pc = "failWrite", !.current = attempt[r]]
  <2>1. q \in Request /\ q.phone = r /\ q.current = attempt[r]
    BY <1>6, CallType DEF FailRead, At, TypeOK, Request, Points
  <2>2. /\ req' = [req EXCEPT ![w] = q]
        /\ attempt'[p] = attempt[p] /\ UNCHANGED <<streak, overtaken, revived>>
    BY <1>6 DEF FailRead, TypeOK, history
  <2>3. r = p => Counting(w, p)
    BY <1>6 DEF FailRead, At, Counting
  <2> HIDE DEF q, r
  <2> QED
    BY <1>same, <2>1, <2>2, <2>3, EarnShrinks
<1>7. ASSUME NEW w \in Workers, FailWrite(w) \/ Clear(w) PROVE Earned(p)'
  <2>1. CASE req[w].phone = p
    BY <1>7, <2>1, EarnMoves, EarnClears
  <2>2. CASE req[w].phone # p
    <3>1. Finish(w) /\ attempt'[p] = attempt[p]
      BY <1>7, <2>2 DEF FailWrite, Clear, TypeOK
    <3>2. StartAnew(w, req[w].phone) \/ WriteBack(w, req[w].phone)
      BY <1>7 DEF FailWrite, Clear
    <3>3. /\ streak'[p] = streak[p] /\ overtaken \ {w} \subseteq overtaken'
          /\ p \in revived => p \in revived'
      BY <2>2, <3>2 DEF StartAnew, WriteBack, TypeOK
    <3> QED
      BY <1>1, <3>1, <3>3
  <2> QED
    BY <2>1, <2>2
<1>8. ASSUME NEW w \in Workers, RereadBinding(w) \/ Abandon(w)
      PROVE  Earned(p)'
  <2>1. Finish(w) /\ attempt'[p] = attempt[p]
    BY <1>8 DEF RereadBinding, Abandon
  <2>2. /\ streak'[p] = streak[p] /\ overtaken \ {w} \subseteq overtaken'
        /\ p \in revived => p \in revived'
    BY <1>8 DEF RereadBinding, Abandon, history
  <2> QED
    BY <1>1, <2>1, <2>2
<1>9. CASE Tick \/ UNCHANGED vars
  BY <1>9 DEF Tick, vars, history, Earned, UnderWay, Counting, At
<1> QED
  BY <1>2, <1>3, <1>4, <1>5, <1>6, <1>7, <1>8, <1>9 DEF Next

\* In whatever order reads, upserts and deletes land, the count and the lock of
\* a number are within the wrong codes given for it since its last right code
\* or run-out lock, unless a call has written a row back that it read before.
THEOREM PhoneLockEarned == Spec => []LockWasEarned
<1>1. TypeOK /\ LockInv /\ EarnInv => LockWasEarned
  <2> SUFFICES ASSUME TypeOK, LockInv, EarnInv, NEW p \in Phones \ revived
               PROVE  /\ attempt[p].failed <= streak[p]
                      /\ attempt[p].lockedUntil # 0 => streak[p] >= LockAfter
    BY DEF LockWasEarned
  <2>1. Earned(p) /\ Spent(attempt[p])
    BY DEF EarnInv, LockInv
  <2>2. /\ Cardinality(UnderWay(p)) \in Nat
        /\ attempt[p].failed \in Nat /\ streak[p] \in Nat
    BY CountsAreNumbers
  <2> QED
    BY <2>1, <2>2, LockAfterAssumption DEF Earned, Spent
<1>2. Spec => [](TypeOK /\ LockInv /\ EarnInv)
  BY InitType, NextType, LockInit, LockNext, EarnInit, EarnNext, PTL DEF Spec
<1> QED
  BY <1>1, <1>2, PTL

=============================================================================
