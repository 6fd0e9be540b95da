--------------------------- MODULE PhoneSalt_proofs ---------------------------
(***************************************************************************)
(* Theorems about PhoneSalt and, at the end, about BlindIndex over it, for *)
(* every set of salts, secrets, actors and workers, and for every          *)
(* numbering plan and set of regions.                                      *)
(***************************************************************************)
EXTENDS BlindIndex, TLAPS

-----------------------------------------------------------------------------
(* Type correctness.                                                       *)

Named(pc) == pc \in {"retire", "count", "reread", "digest"}

LEMMA EmptyType ==
    /\ NoSalt \in Salt
    /\ Idle \in Request /\ Idle.pc = "idle"
    /\ NoAnswer \in Answer /\ NoAnswer.kind = "none"
  BY DEF NoSalt, Salt, Idle, Request, Points, NoAnswer, Answer

\* A step that moves one worker's call leaves the table of calls typed.
LEMMA ReqType ==
    ASSUME TypeOK, NEW w \in Workers, NEW q \in Request,
           Named(q.pc) => q.id \in SaltIds,
           req' = [req EXCEPT ![w] = q],
           salt' \in [SaltIds -> Salt],
           told' \in [Workers -> Answer],
           ended' \in [Workers -> SUBSET SaltIds],
           absent' \in [Workers -> SUBSET SaltIds]
    PROVE  TypeOK'
  BY DEF TypeOK, Named

LEMMA FinishType ==
    ASSUME TypeOK, NEW w \in Workers, Finish(w),
           salt' \in [SaltIds -> Salt],
           told' \in [Workers -> Answer],
           ended' \in [Workers -> SUBSET SaltIds],
           absent' \in [Workers -> SUBSET SaltIds]
    PROVE  TypeOK'
  BY EmptyType, ReqType DEF Finish, Named

LEMMA ArriveType ==
    ASSUME TypeOK, NEW w \in Workers, NEW call \in Request,
           Named(call.pc) => call.id \in SaltIds,
           Arrive(w, call), UNCHANGED salt
    PROVE  TypeOK'
<1>1. /\ told' \in [Workers -> Answer]
      /\ ended' \in [Workers -> SUBSET SaltIds]
      /\ absent' \in [Workers -> SUBSET SaltIds]
  BY EmptyType DEF Arrive, TypeOK
<1> QED
  BY <1>1, ReqType DEF Arrive, TypeOK

\* A row stays typed when it is given a key, and when it is retired.
LEMMA ProvisionType ==
    ASSUME TypeOK, NEW i \in SaltIds, NEW secret \in Secrets,
           salt' = [salt EXCEPT ![i].secret = secret]
    PROVE  salt' \in [SaltIds -> Salt]
<1>1. [salt[i] EXCEPT !.secret = secret] \in Salt
  BY DEF TypeOK, Salt
<1> QED
  BY <1>1 DEF TypeOK

LEMMA RetireType ==
    ASSUME TypeOK, NEW i \in SaltIds, NEW a \in Actors,
           salt' = [salt EXCEPT ![i].retired = TRUE, ![i].retiredBy = a]
    PROVE  salt' \in [SaltIds -> Salt]
<1>1. salt[i] \in Salt /\ a # None
  BY NoneIsNoValue DEF TypeOK
<1>2. [salt[i] EXCEPT !.retired = TRUE, !.retiredBy = a] \in Salt
  BY <1>1 DEF Salt
<1> QED
  BY <1>2 DEF TypeOK

\* A retirement under way names its actor.
ActorInv == \A w \in Workers : At(w, "retire") => req[w].actor \in Actors

LEMMA InitType == Init => TypeOK
  BY EmptyType DEF Init, TypeOK

LEMMA NextType == TypeOK /\ ActorInv /\ [Next]_vars => TypeOK'
<1> SUFFICES ASSUME TypeOK, ActorInv, [Next]_vars PROVE TypeOK'
  OBVIOUS
<1>1. ASSUME NEW i \in SaltIds, NEW secret \in Secrets, Provision(i, secret)
      PROVE  TypeOK'
  BY <1>1, ProvisionType DEF Provision, TypeOK
<1>2. ASSUME NEW w \in Workers, CallRetire(w) PROVE TypeOK'
  <2>1. PICK i \in SaltIds, a \in Actors :
             Arrive(w, [Idle EXCEPT !.pc = "retire", !.id = i, !.actor = a])
    BY <1>2 DEF CallRetire
  <2> DEFINE q == [Idle EXCEPT !.pc = "retire", !.id = i, !.actor = a]
  <2>2. q \in Request /\ q.id \in SaltIds
    BY EmptyType DEF Request, Points
  <2> QED
    BY <1>2, <2>1, <2>2, ArriveType DEF CallRetire
<1>3. ASSUME NEW w \in Workers, RetireUpdate(w) PROVE TypeOK'
  <2>1. req[w] \in Request /\ req[w].id \in SaltIds /\ req[w].actor \in Actors
    BY <1>3 DEF RetireUpdate, At, ActorInv, TypeOK
  <2>2. CASE req' = [req EXCEPT ![w].pc = "count"] /\ UNCHANGED salt
    <3> DEFINE q == [req[w] EXCEPT !.pc = "count"]
    <3>1. q \in Request /\ q.id \in SaltIds
      BY <2>1 DEF Request, Points
    <3>2. req' = [req EXCEPT ![w] = q]
      BY <2>2 DEF TypeOK
    <3> QED
      BY <1>3, <2>2, <3>1, <3>2, ReqType DEF RetireUpdate, TypeOK
  <2>3. CASE /\ salt' = [salt EXCEPT ![req[w].id].retired = TRUE,
                                     ![req[w].id].retiredBy = req[w].actor]
             /\ req' = [req EXCEPT ![w].pc = "reread"]
    <3> DEFINE q == [req[w] EXCEPT !.pc = "reread"]
    <3>1. q \in Request /\ q.id \in SaltIds
      BY <2>1 DEF Request, Points
    <3>2. req' = [req EXCEPT ![w] = q]
      BY <2>3 DEF TypeOK
    <3>3. salt' \in [SaltIds -> Salt]
      BY <2>1, <2>3, RetireType
    <3> QED
      BY <1>3, <3>1, <3>2, <3>3, ReqType DEF RetireUpdate, TypeOK
  <2> QED
    BY <1>3, <2>2, <2>3 DEF RetireUpdate
<1>4. ASSUME NEW w \in Workers, RetireReread(w) PROVE TypeOK'
  <2> DEFINE n == [NoAnswer EXCEPT !.kind = "retired", !.id = req[w].id,
                                   !.by = salt[req[w].id].retiredBy]
  <2>1. req[w].id \in SaltIds
    BY <1>4 DEF RetireReread, At, TypeOK
  <2>2. n \in Answer
    BY <2>1 DEF NoAnswer, Answer, TypeOK, Salt
  <2>3. told' \in [Workers -> Answer]
    BY <1>4, <2>2 DEF RetireReread, TypeOK
  <2> QED
    BY <1>4, <2>3, FinishType DEF RetireReread, TypeOK
<1>5. ASSUME NEW w \in Workers, CallIndex(w) PROVE TypeOK'
  <2> DEFINE q == [Idle EXCEPT !.pc = "hash"]
  <2>1. q \in Request /\ ~Named(q.pc)
    BY EmptyType DEF Request, Points, Named
  <2> QED
    BY <1>5, <2>1, ArriveType DEF CallIndex
<1>6. ASSUME NEW w \in Workers, HashRead(w) PROVE TypeOK'
  <2>1. CASE Finish(w)
    BY <1>6, <2>1, FinishType DEF HashRead, TypeOK
  <2>2. ASSUME NEW i \in SaltIds,
               req' = [req EXCEPT ![w].pc = "digest", ![w].id = i,
                                  ![w].secret = salt[i].secret]
        PROVE  TypeOK'
    <3> DEFINE q == [req[w] EXCEPT !.pc = "digest", !.id = i,
                                   !.secret = salt[i].secret]
    <3>1. req[w] \in Request /\ salt[i].secret \in Secrets \cup {None}
      BY DEF TypeOK, Salt
    <3>2. q \in Request /\ q.id \in SaltIds
      BY <3>1 DEF Request, Points
    <3>3. req' = [req EXCEPT ![w] = q]
      BY <2>2 DEF TypeOK
    <3> QED
      BY <1>6, <3>2, <3>3, ReqType DEF HashRead, TypeOK
  <2> QED
    BY <1>6, <2>1, <2>2 DEF HashRead
<1>7. ASSUME NEW w \in Workers, HashDigest(w) PROVE TypeOK'
  <2> DEFINE n == [NoAnswer EXCEPT !.kind = "hashed", !.id = req[w].id,
                                   !.secret = req[w].secret]
  <2>1. n \in Answer
    BY DEF NoAnswer, Answer, TypeOK, Request
  <2>2. told' \in [Workers -> Answer]
    BY <1>7, <2>1 DEF HashDigest, TypeOK
  <2> QED
    BY <1>7, <2>2, FinishType DEF HashDigest, TypeOK
<1>8. ASSUME NEW w \in Workers, Abandon(w) PROVE TypeOK'
  BY <1>8, FinishType DEF Abandon, TypeOK
<1>9. ASSUME NEW w \in Workers, RetireCount(w) PROVE TypeOK'
  <2> DEFINE n(kind) == [NoAnswer EXCEPT !.kind = kind, !.id = req[w].id]
  <2>1. req[w].id \in SaltIds
    BY <1>9 DEF RetireCount, At, TypeOK
  <2>2. n("already") \in Answer /\ n("missing") \in Answer
    BY <2>1 DEF NoAnswer, Answer
  <2>3. told' \in [Workers -> Answer]
    BY <1>9, <2>2 DEF RetireCount, TypeOK
  <2> QED
    BY <1>9, <2>3, FinishType DEF RetireCount, TypeOK
<1>10. CASE UNCHANGED vars
  BY <1>10 DEF vars, TypeOK
<1> QED
  BY <1>1, <1>2, <1>3, <1>4, <1>5, <1>6, <1>7, <1>8, <1>9, <1>10 DEF Next

-----------------------------------------------------------------------------
(* Rows.                                                                   *)

\* Only a row with a key is ever retired.
RowInv == \A i \in SaltIds : salt[i].retired => Exists(i)

\* A step keeps a row's key once it has one, and a retired row whole.
RowsKept ==
    \A i \in SaltIds :
        /\ Exists(i) => salt'[i].secret = salt[i].secret
        /\ Exists(i) /\ salt[i].retired => salt'[i] = salt[i]

\* A step that changes a row is an INSERT or the UPDATE of a retirement.
LEMMA RowSteps ==
    ASSUME [Next]_vars
    PROVE  \/ UNCHANGED salt
           \/ \E i \in SaltIds, secret \in Secrets : Provision(i, secret)
           \/ \E w \in Workers : RetireUpdate(w)
  BY DEF Next, CallRetire, RetireCount, RetireReread, CallIndex, HashRead,
         HashDigest, Abandon, vars

LEMMA KeepRows ==
    ASSUME TypeOK, RowInv, [Next]_vars
    PROVE  RowsKept /\ RowInv'
<1>1. CASE UNCHANGED salt
  BY <1>1 DEF RowsKept, RowInv, Exists
<1>2. ASSUME NEW i \in SaltIds, NEW secret \in Secrets, Provision(i, secret)
      PROVE  RowsKept /\ RowInv'
  <2>1. salt[i].secret = None /\ secret # None /\ ~salt[i].retired
    BY <1>2, NoneIsNoValue DEF Provision, Admits, Exists, RowInv
  <2>2. salt'[i] = [salt[i] EXCEPT !.secret = secret]
    BY <1>2 DEF Provision, TypeOK
  <2>3. salt'[i].secret = secret /\ salt'[i].retired = salt[i].retired
    BY <2>2 DEF TypeOK, Salt
  <2>4. \A j \in SaltIds : j # i => salt'[j] = salt[j]
    BY <1>2 DEF Provision, TypeOK
  <2> QED
    BY <2>1, <2>3, <2>4 DEF RowsKept, RowInv, Exists
<1>3. ASSUME NEW w \in Workers, RetireUpdate(w)
      PROVE  RowsKept /\ RowInv'
  <2>1. CASE UNCHANGED salt
    BY <1>1, <2>1
  <2>2. CASE ~UNCHANGED salt
    <3> DEFINE i == req[w].id
    <3>1. /\ i \in SaltIds /\ Live(i)
          /\ salt' = [salt EXCEPT ![i].retired = TRUE,
                                  ![i].retiredBy = req[w].actor]
      BY <1>3, <2>2 DEF RetireUpdate, Retires, At, TypeOK
    <3>2. salt'[i].secret = salt[i].secret
      BY <3>1 DEF TypeOK, Salt
    <3>3. \A j \in SaltIds : j # i => salt'[j] = salt[j]
      BY <3>1 DEF TypeOK
    <3>4. Exists(i) /\ ~salt[i].retired
      BY <3>1 DEF Live
    <3> HIDE DEF i
    <3> QED
      BY <3>1, <3>2, <3>3, <3>4 DEF RowsKept, RowInv, Exists
  <2> QED
    BY <2>1, <2>2
<1> QED
  BY <1>1, <1>2, <1>3, RowSteps

-----------------------------------------------------------------------------
(* Calls.                                                                  *)

\* What a call, or the answer it was given, says of the table.
Reread(v) ==
    At(v, "reread") => /\ salt[req[v].id].retired
                       /\ salt[req[v].id].retiredBy = req[v].actor

Digest(v) ==
    At(v, "digest") => /\ Exists(req[v].id)
                       /\ salt[req[v].id].secret = req[v].secret
                       /\ req[v].id \notin ended[v]

Hashed(v) ==
    told[v].kind = "hashed" => /\ told[v].id \in SaltIds
                               /\ Exists(told[v].id)
                               /\ salt[told[v].id].secret = told[v].secret
                               /\ told[v].id \notin ended[v]

Retired(v) ==
    told[v].kind = "retired" => /\ told[v].id \in SaltIds
                                /\ salt[told[v].id].retired
                                /\ salt[told[v].id].retiredBy = told[v].by

Ended(v) == \A i \in ended[v] : salt[i].retired

\* A salt the UPDATE did not match was retired by then, or is a newcomer.
Unmatched(v) ==
    At(v, "count") => salt[req[v].id].retired \/ req[v].id \in absent[v]

Refused(v) ==
    /\ told[v].kind = "already" =>
          /\ told[v].id \in SaltIds
          /\ salt[told[v].id].retired \/ told[v].id \in absent[v]
    /\ told[v].kind = "missing" => told[v].id \in absent[v]

\* A salt that was there when a call came in has its row still.
Present(v) == \A i \in SaltIds : i \in absent[v] \/ Exists(i)

Said(v) == Hashed(v) /\ Retired(v) /\ Refused(v) /\ Ended(v) /\ Present(v)

CallInv(v) == Reread(v) /\ Digest(v) /\ Unmatched(v) /\ Said(v)

SaltInv == RowInv /\ ActorInv /\ \A v \in Workers : CallInv(v)

LEMMA SaltInit == Init => SaltInv
<1> SUFFICES ASSUME Init PROVE SaltInv
  OBVIOUS
<1>1. RowInv /\ ActorInv
  BY EmptyType DEF Init, RowInv, ActorInv, NoSalt, At
<1>2. ASSUME NEW v \in Workers PROVE CallInv(v)
  BY EmptyType
     DEF Init, CallInv, Said, Reread, Digest, Unmatched, Hashed, Retired,
         Refused, Ended, Present, At
<1> QED
  BY <1>1, <1>2 DEF SaltInv

\* Rows only grow, so what was said of the table stays true.
LEMMA AnswerStays ==
    ASSUME TypeOK, RowInv, RowsKept, NEW v \in Workers, CallInv(v),
           told'[v] = told[v], ended'[v] = ended[v], absent'[v] = absent[v]
    PROVE  Said(v)'
<1>1. Ended(v)'
  BY DEF CallInv, Said, Ended, RowInv, RowsKept, TypeOK
<1>2. Hashed(v)'
  BY DEF CallInv, Said, Hashed, RowsKept, Exists
<1>3. Retired(v)'
  BY DEF CallInv, Said, Retired, RowInv, RowsKept
<1>4. Refused(v)'
  BY DEF CallInv, Said, Refused, RowInv, RowsKept
<1>5. Present(v)'
  BY DEF CallInv, Said, Present, RowsKept, Exists
<1> QED
  BY <1>1, <1>2, <1>3, <1>4, <1>5 DEF Said

LEMMA CallStays ==
    ASSUME TypeOK, RowInv, RowsKept, NEW v \in Workers, CallInv(v),
           req'[v] = req[v], told'[v] = told[v], ended'[v] = ended[v],
           absent'[v] = absent[v]
    PROVE  CallInv(v)'
<1>1. Named(req[v].pc) => req[v].id \in SaltIds
  BY DEF TypeOK, Named
<1>2. Reread(v)'
  BY <1>1 DEF CallInv, Reread, At, RowInv, RowsKept, Named
<1>3. Digest(v)'
  BY <1>1 DEF CallInv, Digest, At, RowsKept, Named, Exists
<1>4. Unmatched(v)'
  BY <1>1 DEF CallInv, Unmatched, At, RowInv, RowsKept, Named
<1> QED
  BY <1>2, <1>3, <1>4, AnswerStays DEF CallInv

\* A call that ends says nothing but what it answered.
LEMMA CallEnds ==
    ASSUME NEW v \in Workers, req'[v] = Idle, Said(v)'
    PROVE  CallInv(v)'
  BY EmptyType DEF CallInv, Reread, Digest, Unmatched, At

LEMMA CallArrives ==
    ASSUME TypeOK, NEW v \in Workers, NEW call,
           call.pc \in {"retire", "hash"}, Arrive(v, call), UNCHANGED salt
    PROVE  CallInv(v)'
<1>1. /\ req'[v] = call
      /\ told'[v] = NoAnswer
      /\ ended'[v] = {i \in SaltIds : salt[i].retired}
      /\ absent'[v] = {i \in SaltIds : ~Exists(i)}
  BY DEF Arrive, TypeOK
<1>2. Said(v)'
  BY <1>1, EmptyType
     DEF Said, Hashed, Retired, Refused, Ended, Present, Exists
<1>3. Reread(v)' /\ Digest(v)' /\ Unmatched(v)'
  BY <1>1 DEF Reread, Digest, Unmatched, At
<1> QED
  BY <1>2, <1>3 DEF CallInv

LEMMA ActorNext == TypeOK /\ ActorInv /\ [Next]_vars => ActorInv'
<1> SUFFICES ASSUME TypeOK, ActorInv, [Next]_vars,
                    NEW v \in Workers, At(v, "retire")'
             PROVE  req'[v].actor \in Actors
  BY DEF ActorInv
<1>1. CASE req'[v] = req[v]
  BY <1>1 DEF ActorInv, At
<1>2. ASSUME NEW w \in Workers, NEW q, req' = [req EXCEPT ![w] = q],
             q.pc # "retire"
      PROVE  req'[v].actor \in Actors
  BY <1>1, <1>2 DEF TypeOK, At
<1>3. ASSUME NEW w \in Workers, Finish(w) PROVE req'[v].actor \in Actors
  BY <1>2, <1>3, EmptyType DEF Finish
<1>4. ASSUME NEW w \in Workers, CallRetire(w) PROVE req'[v].actor \in Actors
  <2>1. PICK i \in SaltIds, a \in Actors :
          req' = [req EXCEPT ![w] =
                    [Idle EXCEPT !.pc = "retire", !.id = i, !.actor = a]]
    BY <1>4 DEF CallRetire, Arrive
  <2>2. CASE v = w
    BY <2>1, <2>2 DEF TypeOK, Idle
  <2>3. CASE v # w
    BY <1>1, <2>1, <2>3 DEF TypeOK
  <2> QED
    BY <2>2, <2>3
<1>5. ASSUME NEW w \in Workers, RetireUpdate(w)
      PROVE  req'[v].actor \in Actors
  <2>1. PICK pc \in {"reread", "count"} :
          req' = [req EXCEPT ![w] = [req[w] EXCEPT !.pc = pc]]
    BY <1>5 DEF RetireUpdate, TypeOK
  <2>2. [req[w] EXCEPT !.pc = pc].pc = pc
    BY DEF TypeOK, Request
  <2> QED
    BY <1>2, <2>1, <2>2
<1>6. ASSUME NEW w \in Workers, CallIndex(w) PROVE req'[v].actor \in Actors
  <2>1. [Idle EXCEPT !.pc = "hash"].pc = "hash"
    BY DEF Idle
  <2> QED
    BY <1>2, <1>6, <2>1 DEF CallIndex, Arrive
<1>7. ASSUME NEW w \in Workers, HashRead(w), ~Finish(w)
      PROVE  req'[v].actor \in Actors
  <2>1. PICK i \in SaltIds :
          req' = [req EXCEPT ![w] = [req[w] EXCEPT !.pc = "digest", !.id = i,
                                                   !.secret = salt[i].secret]]
    BY <1>7 DEF HashRead, TypeOK
  <2>2. [req[w] EXCEPT !.pc = "digest", !.id = i,
                       !.secret = salt[i].secret].pc = "digest"
    BY DEF TypeOK, Request
  <2> QED
    BY <1>2, <2>1, <2>2
<1>8. CASE UNCHANGED req
  BY <1>1, <1>8
<1> QED
  BY <1>3, <1>4, <1>5, <1>6, <1>7, <1>8
     DEF Next, Provision, RetireCount, RetireReread, HashDigest, Abandon, vars

LEMMA SaltNext == TypeOK /\ SaltInv /\ [Next]_vars => SaltInv'
<1> SUFFICES ASSUME TypeOK, SaltInv, [Next]_vars PROVE SaltInv'
  OBVIOUS
<1>1. RowsKept /\ RowInv' /\ ActorInv' /\ RowInv
  BY KeepRows, ActorNext DEF SaltInv
<1>2. ASSUME NEW v \in Workers PROVE CallInv(v)'
  <2>1. CallInv(v)
    BY DEF SaltInv
  <2>2. CASE /\ req'[v] = req[v] /\ told'[v] = told[v]
             /\ ended'[v] = ended[v] /\ absent'[v] = absent[v]
    BY <1>1, <2>1, <2>2, CallStays
  <2>3. ASSUME NEW w \in Workers, v # w,
               \/ CallRetire(w) \/ RetireUpdate(w) \/ RetireCount(w)
               \/ RetireReread(w) \/ CallIndex(w) \/ HashRead(w)
               \/ HashDigest(w) \/ Abandon(w)
        PROVE  CallInv(v)'
    <3>1. CASE CallRetire(w) \/ CallIndex(w)
      BY <2>2, <2>3, <3>1 DEF CallRetire, CallIndex, Arrive, TypeOK
    <3>2. CASE RetireUpdate(w)
      BY <2>2, <2>3, <3>2 DEF RetireUpdate, TypeOK
    <3>3. CASE RetireCount(w) \/ RetireReread(w)
      BY <2>2, <2>3, <3>3 DEF RetireCount, RetireReread, Finish, TypeOK
    <3>4. CASE HashDigest(w) \/ Abandon(w)
      BY <2>2, <2>3, <3>4 DEF HashDigest, Abandon, Finish, TypeOK
    <3>5. CASE HashRead(w)
      BY <2>2, <2>3, <3>5 DEF HashRead, Finish, TypeOK
    <3> QED
      BY <2>3, <3>1, <3>2, <3>3, <3>4, <3>5
  <2>4. ASSUME Finish(v), UNCHANGED <<told, ended, absent>> PROVE CallInv(v)'
    <3>1. req'[v] = Idle
      BY <2>4 DEF Finish, TypeOK
    <3> QED
      BY <1>1, <2>1, <2>4, <3>1, AnswerStays, CallEnds
  <2>5. CASE CallRetire(v)
    <3>1. PICK i \in SaltIds, a \in Actors :
             Arrive(v, [Idle EXCEPT !.pc = "retire", !.id = i, !.actor = a])
      BY <2>5 DEF CallRetire
    <3>2. PICK call : call = [Idle EXCEPT !.pc = "retire", !.id = i, !.actor = a]
      OBVIOUS
    <3>3. call.pc = "retire"
      BY <3>2 DEF Idle
    <3>4. Arrive(v, call) /\ UNCHANGED salt
      BY <2>5, <3>1, <3>2 DEF CallRetire
    <3> QED
      BY <3>3, <3>4, CallArrives
  <2>6. CASE CallIndex(v)
    <3>1. PICK call : call = [Idle EXCEPT !.pc = "hash"]
      OBVIOUS
    <3>2. call.pc = "hash"
      BY <3>1 DEF Idle
    <3>3. Arrive(v, call) /\ UNCHANGED salt
      BY <2>6, <3>1 DEF CallIndex
    <3> QED
      BY <3>2, <3>3, CallArrives
  <2>7. CASE RetireUpdate(v)
    <3>1. PICK i \in SaltIds : i = req[v].id
      BY <2>7 DEF RetireUpdate, At, TypeOK
    <3>2. Said(v)'
      BY <1>1, <2>1, <2>7, AnswerStays DEF RetireUpdate
    <3>3. CASE Retires(i)
      <4>1. /\ salt' = [salt EXCEPT ![i].retired = TRUE,
                                    ![i].retiredBy = req[v].actor]
            /\ req'[v] = [req[v] EXCEPT !.pc = "reread"]
        BY <2>7, <3>1, <3>3 DEF RetireUpdate, TypeOK
      <4>2. /\ req'[v].pc = "reread"
            /\ req'[v].id = i
            /\ req'[v].actor = req[v].actor
        BY <3>1, <4>1 DEF TypeOK, Request
      <4>3. salt'[i].retired /\ salt'[i].retiredBy = req[v].actor
        BY <4>1 DEF TypeOK, Salt
      <4>4. Reread(v)' /\ Digest(v)' /\ Unmatched(v)'
        BY <4>2, <4>3 DEF Reread, Digest, Unmatched, At
      <4> QED
        BY <3>2, <4>4 DEF CallInv
    <3>4. CASE ~Retires(i)
      <4>1. UNCHANGED <<salt, absent>> /\ req'[v] = [req[v] EXCEPT !.pc = "count"]
        BY <2>7, <3>1, <3>4 DEF RetireUpdate, TypeOK
      <4>2. req'[v].pc = "count" /\ req'[v].id = i
        BY <3>1, <4>1 DEF TypeOK, Request
      <4>3. salt[i].retired \/ i \in absent[v]
        BY <2>1, <3>4 DEF CallInv, Said, Present, Retires, Live
      <4>4. Reread(v)' /\ Digest(v)' /\ Unmatched(v)'
        BY <4>1, <4>2, <4>3 DEF Reread, Digest, Unmatched, At
      <4> QED
        BY <3>2, <4>4 DEF CallInv
    <3> QED
      BY <3>3, <3>4
  <2>8. CASE RetireReread(v)
    <3> DEFINE i == req[v].id
    <3>1. /\ i \in SaltIds /\ salt[i].retired
          /\ req'[v] = Idle
          /\ UNCHANGED <<salt, ended, absent>>
      BY <2>1, <2>8 DEF RetireReread, CallInv, Reread, At, Finish, TypeOK
    <3>2. told'[v] = [NoAnswer EXCEPT !.kind = "retired", !.id = i,
                                      !.by = salt[i].retiredBy]
      BY <2>8 DEF RetireReread, TypeOK
    <3>3. /\ told'[v].kind = "retired"
          /\ told'[v].id = i
          /\ told'[v].by = salt[i].retiredBy
      BY <3>2 DEF NoAnswer
    <3>4. Hashed(v)' /\ Retired(v)' /\ Refused(v)'
      BY <3>1, <3>3 DEF Hashed, Retired, Refused
    <3>5. Ended(v)' /\ Present(v)'
      BY <2>1, <3>1 DEF CallInv, Said, Ended, Present, Exists
    <3> QED
      BY <3>1, <3>4, <3>5, CallEnds DEF Said
  <2>9. CASE RetireCount(v)
    <3> DEFINE i == req[v].id
    <3>1. /\ i \in SaltIds
          /\ salt[i].retired \/ i \in absent[v]
          /\ Exists(i) \/ i \in absent[v]
          /\ req'[v] = Idle
          /\ UNCHANGED <<salt, ended, absent>>
      BY <2>1, <2>9
         DEF RetireCount, CallInv, Said, Unmatched, Present, At, Finish, TypeOK
    <3>2. PICK kind \in {"already", "missing"} :
            /\ told'[v] = [NoAnswer EXCEPT !.kind = kind, !.id = i]
            /\ kind = "missing" => ~Exists(i)
      BY <2>9 DEF RetireCount, Counts, TypeOK
    <3>3. told'[v].kind = kind /\ told'[v].id = i
      BY <3>2 DEF NoAnswer
    <3>4. Hashed(v)' /\ Retired(v)' /\ Refused(v)'
      BY <3>1, <3>2, <3>3 DEF Hashed, Retired, Refused
    <3>5. Ended(v)' /\ Present(v)'
      BY <2>1, <3>1 DEF CallInv, Said, Ended, Present, Exists
    <3> QED
      BY <3>1, <3>4, <3>5, CallEnds DEF Said
  <2>10. CASE HashRead(v) /\ ~Finish(v)
    <3>1. PICK i \in SaltIds :
             /\ Live(i)
             /\ req' = [req EXCEPT ![v].pc = "digest", ![v].id = i,
                                   ![v].secret = salt[i].secret]
      BY <2>10 DEF HashRead, LiveRecord
    <3>2. UNCHANGED <<salt, told, ended, absent>>
      BY <2>10 DEF HashRead
    <3>3. req'[v] = [req[v] EXCEPT !.pc = "digest", !.id = i,
                                   !.secret = salt[i].secret]
      BY <3>1 DEF TypeOK
    <3>4. /\ req'[v].pc = "digest"
          /\ req'[v].id = i
          /\ req'[v].secret = salt[i].secret
      BY <3>3 DEF TypeOK, Request
    <3>5. i \notin ended[v]
      BY <2>1, <3>1 DEF CallInv, Said, Ended, Live
    <3>6. Reread(v)' /\ Digest(v)' /\ Unmatched(v)'
      BY <3>1, <3>2, <3>4, <3>5 DEF Reread, Digest, Unmatched, At, Live, Exists
    <3> QED
      BY <1>1, <2>1, <3>2, <3>6, AnswerStays DEF CallInv
  <2>11. CASE HashDigest(v)
    <3> DEFINE i == req[v].id
    <3>1. /\ i \in SaltIds /\ Exists(i)
          /\ salt[i].secret = req[v].secret
          /\ i \notin ended[v]
      BY <2>1, <2>11 DEF HashDigest, CallInv, Digest, At, TypeOK
    <3>2. req'[v] = Idle /\ UNCHANGED <<salt, ended, absent>>
      BY <2>11 DEF HashDigest, Finish, TypeOK
    <3>3. told'[v] = [NoAnswer EXCEPT !.kind = "hashed", !.id = i,
                                      !.secret = req[v].secret]
      BY <2>11 DEF HashDigest, TypeOK
    <3>4. /\ told'[v].kind = "hashed"
          /\ told'[v].id = i
          /\ told'[v].secret = req[v].secret
      BY <3>3 DEF NoAnswer
    <3>5. Hashed(v)' /\ Retired(v)' /\ Refused(v)'
      BY <3>1, <3>2, <3>4 DEF Hashed, Retired, Refused, Exists
    <3>6. Ended(v)' /\ Present(v)'
      BY <2>1, <3>2 DEF CallInv, Said, Ended, Present, Exists
    <3> QED
      BY <3>2, <3>5, <3>6, CallEnds DEF Said
  <2>12. CASE Abandon(v) \/ (HashRead(v) /\ Finish(v))
    BY <2>4, <2>12 DEF Abandon, HashRead
  <2>13. ASSUME NEW i \in SaltIds, NEW secret \in Secrets, Provision(i, secret)
         PROVE  CallInv(v)'
    BY <2>2, <2>13 DEF Provision
  <2>14. CASE UNCHANGED vars
    BY <2>2, <2>14 DEF vars
  <2> QED
    BY <2>3, <2>5, <2>6, <2>7, <2>8, <2>9, <2>10, <2>11, <2>12, <2>13, <2>14
       DEF Next
<1> QED
  BY <1>1, <1>2 DEF SaltInv

LEMMA SaltInvariant == Spec => [](TypeOK /\ SaltInv)
<1>1. SaltInv => ActorInv
  BY DEF SaltInv
<1> QED
  BY <1>1, InitType, NextType, SaltInit, SaltNext, PTL DEF Spec

-----------------------------------------------------------------------------
(* Results.                                                                *)

\* The table of salts and the calls on it stay typed; a retirement is a date
\* and an actor, together.
THEOREM SaltTypeCorrect == Spec => []TypeOK
  BY SaltInvariant, PTL

\* A digest is handed out with the id of the salt it was made under, and that
\* salt keeps its key.
THEOREM SaltDigestNamed == Spec => []DigestNamesItsSalt
<1>1. SaltInv => DigestNamesItsSalt
  BY DEF SaltInv, CallInv, Said, Hashed, DigestNamesItsSalt
<1> QED
  BY <1>1, SaltInvariant, PTL

\* No digest is made under a salt that was retired when the call came in.
THEOREM SaltDigestCurrent == Spec => []LateHashUsesLive
<1>1. SaltInv => LateHashUsesLive
  BY DEF SaltInv, CallInv, Said, Hashed, LateHashUsesLive
<1> QED
  BY <1>1, SaltInvariant, PTL

\* The operator told of a retirement is the one the row names.
THEOREM SaltRetirerNamed == Spec => []RetirerIsNamed
<1>1. SaltInv => RetirerIsNamed
  BY DEF SaltInv, CallInv, Said, Reread, Retired, RetirerIsNamed
<1> QED
  BY <1>1, SaltInvariant, PTL

\* A refusal to retire a salt gives the true reason, but for a salt that was
\* provisioned under the call.
THEOREM SaltRefusalTrue == Spec => []RefusalIsTrue
<1>1. SaltInv => RefusalIsTrue
  BY DEF SaltInv, CallInv, Said, Refused, RefusalIsTrue
<1> QED
  BY <1>1, SaltInvariant, PTL

\* Salts serve one at a time and in turn: the register implements SaltEpochs.
THEOREM SaltsServeInTurn == Spec => EpochSpec
<1>1. Init => Epochs!Init
  BY DEF Init, Epochs!Init, NoSalt, Live, Exists
<1>2. TypeOK /\ SaltInv /\ [Next]_vars => [Epochs!Next]_(Epochs!vars)
  <2> SUFFICES ASSUME TypeOK, SaltInv, [Next]_vars
               PROVE  Epochs!Next \/ UNCHANGED Epochs!vars
    OBVIOUS
  <2>1. CASE UNCHANGED salt
    BY <2>1 DEF Epochs!vars, Live, Exists
  <2>2. ASSUME NEW i \in SaltIds, NEW secret \in Secrets, Provision(i, secret)
        PROVE  Epochs!Next
    <3>1. /\ salt[i].secret = None /\ ~salt[i].retired /\ secret # None
          /\ \A j \in SaltIds : ~Live(j)
      BY <2>2, NoneIsNoValue
         DEF Provision, Admits, Exists, SaltInv, RowInv
    <3>2. salt'[i] = [salt[i] EXCEPT !.secret = secret]
      BY <2>2 DEF Provision, TypeOK
    <3>3. salt'[i].secret = secret /\ salt'[i].retired = salt[i].retired
      BY <3>2 DEF TypeOK, Salt
    <3>4. \A j \in SaltIds : j # i => salt'[j] = salt[j]
      BY <2>2 DEF Provision, TypeOK
    <3>5. {j \in SaltIds : Live(j)} = {} /\ {j \in SaltIds : Live(j)'} = {i}
      BY <3>1, <3>3, <3>4 DEF Live, Exists
    <3>6. {j \in SaltIds : salt'[j].retired} = {j \in SaltIds : salt[j].retired}
      BY <3>3, <3>4
    <3>7. [j \in SaltIds |-> salt'[j].secret]
            = [[j \in SaltIds |-> salt[j].secret] EXCEPT ![i] = secret]
      BY <3>3, <3>4
    <3>8. Epochs!Begin(i, secret)
      BY <3>1, <3>5, <3>6, <3>7 DEF Epochs!Begin
    <3> QED
      BY <3>8 DEF Epochs!Next
  <2>3. ASSUME NEW w \in Workers, RetireUpdate(w), ~UNCHANGED salt
        PROVE  Epochs!Next
    <3>1. PICK i \in SaltIds : i = req[w].id
      BY <2>3 DEF RetireUpdate, At, TypeOK
    <3>2. /\ Live(i)
          /\ salt' = [salt EXCEPT ![i].retired = TRUE,
                                  ![i].retiredBy = req[w].actor]
      BY <2>3, <3>1 DEF RetireUpdate, Retires
    <3>3. salt'[i].secret = salt[i].secret /\ salt'[i].retired = TRUE
      BY <3>2 DEF TypeOK, Salt
    <3>4. \A j \in SaltIds : j # i => salt'[j] = salt[j]
      BY <3>2 DEF TypeOK
    <3>5. {j \in SaltIds : Live(j)'} = {j \in SaltIds : Live(j)} \ {i}
      BY <3>3, <3>4 DEF Live, Exists
    <3>6. {j \in SaltIds : salt'[j].retired}
            = {j \in SaltIds : salt[j].retired} \cup {i}
      BY <3>3, <3>4
    <3>7. [j \in SaltIds |-> salt'[j].secret] = [j \in SaltIds |-> salt[j].secret]
      BY <3>3, <3>4
    <3>8. Epochs!End(i)
      BY <3>2, <3>5, <3>6, <3>7 DEF Epochs!End
    <3> QED
      BY <3>8 DEF Epochs!Next
  <2> QED
    BY <2>1, <2>2, <2>3, RowSteps
<1> QED
  BY <1>1, <1>2, SaltInvariant, PTL DEF Spec, EpochSpec, Epochs!Spec

-----------------------------------------------------------------------------
(* The blind index.                                                        *)

\* Whatever the Indexer does, the register takes a step of its own or none:
\* what is proved of PhoneSalt holds under the blind index.
THEOREM IndexUsesRegister == IndexSpec => Spec
<1>1. IndexInit => Init
  BY DEF IndexInit
<1>2. [IndexNext]_<<vars, index>> => [Next]_vars
  BY DEF IndexNext, CallInRegion, CallIndexDefault, ReadRegion, AbandonEntry,
         SetRegion, RegisterStep, IndexInRegion, Next
<1> QED
  BY <1>1, <1>2, PTL DEF IndexSpec, Spec

EntryType ==
    /\ setting \in Codes
    /\ entry \in [Workers -> Entry]
    /\ meant \in [Workers -> SUBSET Numbers]

\* A number that waits for the region may be read in the one now set.
Waiting(w) ==
    EntryAt(w, "region") =>
        entry[w].phone \in Written /\ Readings(entry[w].phone, {setting}) \subseteq meant[w]

Handed(w) == EntryAt(w, "hash") => entry[w].phone \in meant[w] \cap Issued

IndexInv == EntryType /\ \A w \in Workers : Waiting(w) /\ Handed(w)

\* A number that parses in a region is one of its readings there.
LEMMA ParsedIsReading ==
    ASSUME NEW phone, NEW region, Parses(phone, region)
    PROVE  /\ E164(phone, region) \in Readings(phone, {region})
           /\ E164(phone, region) \in Issued
  BY DEF Parses, Readings

LEMMA ReadingType ==
    ASSUME NEW phone \in Written, NEW regions
    PROVE  Readings(phone, regions) \subseteq Numbers
<1>1. ASSUME NEW r \in Regions PROVE E164(phone, r) \in Numbers
  BY <1>1, RegionAssumption DEF E164, Written, Numbers
<1> QED
  BY <1>1 DEF Readings

\* A step that moves one worker's entry keeps the invariant if it does so for
\* that worker.
LEMMA OneEntry ==
    ASSUME IndexInv, NEW w \in Workers, NEW e \in Entry, NEW m \in SUBSET Numbers,
           entry' = [entry EXCEPT ![w] = e],
           meant' = [meant EXCEPT ![w] = m],
           UNCHANGED setting,
           e.at = "region" => e.phone \in Written /\ Readings(e.phone, {setting}) \subseteq m,
           e.at = "hash" => e.phone \in m \cap Issued
    PROVE  IndexInv'
<1>1. EntryType'
  BY DEF IndexInv, EntryType
<1>2. ASSUME NEW v \in Workers PROVE Waiting(v)' /\ Handed(v)'
  <2>1. CASE v = w
    <3>1. entry'[v] = e /\ meant'[v] = m
      BY <2>1 DEF IndexInv, EntryType
    <3> QED
      BY <3>1 DEF Waiting, Handed, EntryAt, Readings, E164
  <2>2. CASE v # w
    <3>1. entry'[v] = entry[v] /\ meant'[v] = meant[v]
      BY <2>2 DEF IndexInv, EntryType
    <3> QED
      BY <3>1 DEF IndexInv, Waiting, Handed, EntryAt, Readings, E164
  <2> QED
    BY <2>1, <2>2
<1> QED
  BY <1>1, <1>2 DEF IndexInv

LEMMA ReturnKeeps ==
    ASSUME IndexInv, NEW w \in Workers, Return(w), UNCHANGED setting
    PROVE  IndexInv'
<1>1. NoEntry \in Entry /\ NoEntry.at = "none"
  BY DEF NoEntry, Entry
<1> QED
  BY <1>1, OneEntry DEF Return

\* A number is handed to Hash with one of its readings.
LEMMA HandOver ==
    ASSUME IndexInv, NEW w \in Workers, NEW phone \in Written, NEW region,
           NEW m \in SUBSET Numbers,
           IndexInRegion(w, phone, region),
           Readings(phone, {region}) \subseteq m,
           meant' = [meant EXCEPT ![w] = m], UNCHANGED setting
    PROVE  IndexInv'
<1>1. PICK n : n = E164(phone, region)
  OBVIOUS
<1>2. n \in m \cap Issued
  BY <1>1, ParsedIsReading DEF IndexInRegion
<1>3. PICK e : e = [at |-> "hash", phone |-> n]
  OBVIOUS
<1>4. n \in Written
  BY <1>2, RegionAssumption DEF Numbers, Written
<1>5. e \in Entry /\ e.at = "hash" /\ e.phone = n
  BY <1>3, <1>4 DEF Entry
<1>6. entry' = [entry EXCEPT ![w] = e]
  BY <1>1, <1>3 DEF IndexInRegion
<1> QED
  BY <1>2, <1>5, <1>6, OneEntry

LEMMA IndexInvInit == IndexInit => IndexInv
<1> SUFFICES ASSUME IndexInit PROVE IndexInv
  OBVIOUS
<1>1. NoEntry \in Entry /\ NoEntry.at = "none"
  BY DEF NoEntry, Entry
<1> QED
  BY <1>1 DEF IndexInit, IndexInv, EntryType, Codes, Waiting, Handed, EntryAt

LEMMA IndexInvNext == IndexInv /\ [IndexNext]_<<vars, index>> => IndexInv'
<1> SUFFICES ASSUME IndexInv, [IndexNext]_<<vars, index>> PROVE IndexInv'
  OBVIOUS
<1>1. ASSUME NEW w \in Workers, CallInRegion(w) PROVE IndexInv'
  <2>1. PICK phone \in Written, region \in Codes \ {None} :
          /\ IndexInRegion(w, phone, region)
          /\ meant' = [meant EXCEPT ![w] = Readings(phone, {region})]
    BY <1>1 DEF CallInRegion
  <2>2. Readings(phone, {region}) \in SUBSET Numbers
    BY ReadingType
  <2> QED
    BY <1>1, <2>1, <2>2, HandOver DEF CallInRegion
<1>2. ASSUME NEW w \in Workers, CallIndexDefault(w) PROVE IndexInv'
  <2>1. PICK phone \in Written :
          /\ entry' = [entry EXCEPT ![w] = [at |-> "region", phone |-> phone]]
          /\ meant' = [meant EXCEPT ![w] = Readings(phone, {setting})]
    BY <1>2 DEF CallIndexDefault
  <2>2. PICK e : e = [at |-> "region", phone |-> phone]
    OBVIOUS
  <2>3. e \in Entry /\ e.at = "region" /\ e.phone = phone
    BY <2>2 DEF Entry
  <2>4. Readings(phone, {setting}) \in SUBSET Numbers
    BY ReadingType
  <2> QED
    BY <1>2, <2>1, <2>2, <2>3, <2>4, OneEntry DEF CallIndexDefault
<1>3. ASSUME NEW w \in Workers, ReadRegion(w) PROVE IndexInv'
  <2>1. CASE Return(w)
    BY <1>3, <2>1, ReturnKeeps DEF ReadRegion
  <2>2. CASE IndexInRegion(w, entry[w].phone, setting) /\ UNCHANGED meant
    <3>1. /\ entry[w].phone \in Written
          /\ Readings(entry[w].phone, {setting}) \subseteq meant[w]
      BY <1>3 DEF ReadRegion, IndexInv, Waiting
    <3>2. meant' = [meant EXCEPT ![w] = meant[w]] /\ meant[w] \in SUBSET Numbers
      BY <2>2 DEF IndexInv, EntryType
    <3> QED
      BY <1>3, <2>2, <3>1, <3>2, HandOver DEF ReadRegion
  <2> QED
    BY <1>3, <2>1, <2>2 DEF ReadRegion
<1>4. ASSUME NEW w \in Workers, AbandonEntry(w) PROVE IndexInv'
  BY <1>4, ReturnKeeps DEF AbandonEntry
<1>5. ASSUME NEW region \in Regions \cup {Misspelt}, SetRegion(region)
      PROVE  IndexInv'
  <2>1. ASSUME NEW v \in Workers
        PROVE  /\ meant'[v] \in SUBSET Numbers
               /\ Waiting(v)' /\ Handed(v)'
    <3>1. CASE EntryAt(v, "region")
      <4>1. /\ entry'[v] = entry[v] /\ setting' = region
            /\ meant'[v] = meant[v] \cup Readings(entry[v].phone, {region})
        BY <1>5, <3>1 DEF SetRegion
      <4>2. entry[v].phone \in Written /\ entry[v].at = "region"
        BY <3>1 DEF IndexInv, Waiting, EntryAt
      <4>3. Readings(entry[v].phone, {region}) \subseteq Numbers
        BY <4>2, ReadingType
      <4>4. Readings(entry[v].phone, {setting})'
              = Readings(entry[v].phone, {region})
        BY <4>1 DEF Readings, E164
      <4> QED
        BY <4>1, <4>2, <4>3, <4>4
           DEF IndexInv, EntryType, Waiting, Handed, EntryAt
    <3>2. CASE ~EntryAt(v, "region")
      <4>1. entry'[v] = entry[v] /\ meant'[v] = meant[v]
        BY <1>5, <3>2 DEF SetRegion
      <4> QED
        BY <3>2, <4>1 DEF IndexInv, EntryType, Waiting, Handed, EntryAt
    <3> QED
      BY <3>1, <3>2
  <2>2. EntryType'
    BY <1>5, <2>1 DEF SetRegion, IndexInv, EntryType, Codes
  <2> QED
    BY <2>1, <2>2 DEF IndexInv
<1>6. CASE UNCHANGED index
  BY <1>6 DEF index, IndexInv, EntryType, Waiting, Handed, EntryAt, Readings,
              E164
<1>7. CASE RegisterStep
  BY <1>6, <1>7, ReturnKeeps DEF RegisterStep, index
<1> QED
  BY <1>1, <1>2, <1>3, <1>4, <1>5, <1>6, <1>7 DEF IndexNext

\* A number is hashed in the region its caller stated, or in one that was the
\* organization's during the call, and never on a guess.
THEOREM IndexHashesAsMeant == IndexSpec => []HashedAsMeant
<1>1. IndexInv => HashedAsMeant
  BY DEF IndexInv, Handed, HashedAsMeant
<1> QED
  BY <1>1, IndexInvInit, IndexInvNext, PTL DEF IndexSpec

=============================================================================
