--------------------------- MODULE Sessions_proofs ---------------------------
(***************************************************************************)
(* Theorems about the declared sessions, for any sessions, subjects and    *)
(* workers and any bound on the clock.                                     *)
(***************************************************************************)
EXTENDS Sessions, TLAPS

-----------------------------------------------------------------------------
(* The invariant.                                                          *)

\* A row that is not there is empty.
RowInv == \A i \in Ids : ~Exists(i) => session[i] = NoSession

\* A statement to come has a reading of the clock, which is not ahead of it.
DatedCall(w) ==
    /\ req[w].at <= now
    /\ req[w].pc \in {"byToken", "touch", "end"} => req[w].at # 0

\* A token names a session, which ByToken will not return if it was over when
\* the request came in; past ByToken it was not over, and the caller is its
\* subject.
HeldCall(w) ==
    /\ req[w].pc = "byToken" =>
         /\ Exists(req[w].current)
         /\ (req[w].current \in req[w].barred => ~Live(req[w].current, req[w].at))
    /\ req[w].pc \notin {"idle", "byToken"} =>
         /\ req[w].current \notin req[w].barred
         /\ req[w].caller = session[req[w].current].subject

\* A session about to be ended is there, and is the one the request came in on
\* only where the mount names none in use; once End's UPDATE missed it, it has
\* ended or is another subject's.
EndingCall(w) ==
    /\ req[w].pc \in {"end", "endReread"} =>
         /\ Exists(req[w].target)
         /\ req[w].target = req[w].current => req[w].inUse = None
    /\ req[w].pc = "endReread" =>
         ~Owned(req[w].target, req[w].caller) \/ Ended(req[w].target)

CallInv == \A w \in Workers : DatedCall(w) /\ HeldCall(w) /\ EndingCall(w)

SessionsInv == TypeOK /\ now # 0 /\ RowInv /\ CallInv /\ EndAnswerIsTrue

-----------------------------------------------------------------------------
(* Types.                                                                  *)

LEMMA IdleFacts ==
    /\ Idle \in Request
    /\ Idle.pc = "idle" /\ Idle.at = 0
  BY DEF Idle, Request, Points

\* What TypeOK says of one call.
CallTyped(q) ==
    /\ q \in Request
    /\ q.pc # "idle" => q.current \in Ids
    /\ q.pc \notin {"idle", "byToken"} => q.caller \in Subjects
    /\ q.pc \in {"end", "endReread"} => q.target \in Ids

LEMMA TypedCall ==
    ASSUME TypeOK, NEW w \in Workers
    PROVE  CallTyped(req[w])
  BY DEF TypeOK, CallTyped

\* A step of one worker, which leaves the other calls alone.
LEMMA WorkerType ==
    ASSUME TypeOK, NEW w \in Workers, NEW q, CallTyped(q),
           req' = [req EXCEPT ![w] = q],
           now' = now,
           session' \in [Ids -> Session],
           told' \in [Workers -> Ids \cup {None}]
    PROVE  TypeOK'
<1>1. /\ req' \in [Workers -> Request]
      /\ \A v \in Workers : req'[v] = IF v = w THEN q ELSE req[v]
  BY DEF TypeOK, CallTyped
<1> QED
  BY <1>1 DEF TypeOK, CallTyped

\* What a step makes of the call of w, session and table aside.
Opened(w, q) ==
    /\ At(w, "idle")
    /\ q.pc = "byToken"
    /\ q.current \in Ids /\ Exists(q.current)
    /\ q.at = now
    /\ q.barred = {j \in Ids : Over(j)}

Onward(w, q) ==
    /\ q.current = req[w].current
    /\ q.barred = req[w].barred
    /\ \/ /\ At(w, "byToken") /\ q.pc = "admitted"
          /\ Live(req[w].current, req[w].at)
          /\ q.caller = session[req[w].current].subject
          /\ q.at = 0
       \/ /\ req[w].pc \in {"admitted", "touch", "touchReread"}
          /\ q.pc \in {"admitted", "touch", "touchReread"}
          /\ q.caller = req[w].caller
          /\ q.at = IF q.pc = "touch" THEN now ELSE 0
       \/ /\ At(w, "admitted") /\ q.pc = "end"
          /\ q.caller = req[w].caller
          /\ q.target \in Ids /\ Exists(q.target)
          /\ q.target = q.current => q.inUse = None
          /\ q.at = now
       \/ /\ At(w, "end") /\ q.pc = "endReread"
          /\ q.caller = req[w].caller
          /\ q.target = req[w].target /\ q.inUse = req[w].inUse
          /\ ~Owned(q.target, q.caller) \/ Ended(q.target)
          /\ q.at = 0

Moves(w, q) == q = Idle \/ Opened(w, q) \/ Onward(w, q)

WorkerStep(w) ==
    \/ CallWithToken(w) \/ ByToken(w)
    \/ CallTouch(w) \/ TouchUpdate(w) \/ TouchReread(w)
    \/ CallEnd(w) \/ EndUpdate(w) \/ EndReread(w)
    \/ Leave(w)

LEMMA WorkerMoves ==
    ASSUME TypeOK, NEW w \in Workers, WorkerStep(w)
    PROVE  \E q \in Request : req' = [req EXCEPT ![w] = q] /\ Moves(w, q)
<1>0. req[w] \in Request /\ now \in Nat /\ 0 \in Nat
  BY DEF TypeOK
<1>1. ASSUME Finish(w)
      PROVE  \E q \in Request : req' = [req EXCEPT ![w] = q] /\ Moves(w, q)
  BY <1>1, IdleFacts DEF Finish, Moves
<1>2. ASSUME NEW p \in Points, NEW t \in Nat,
             req' = [req EXCEPT ![w].pc = p, ![w].at = t]
      PROVE  \E q \in Request :
               /\ req' = [req EXCEPT ![w] = q]
               /\ q.pc = p /\ q.at = t
               /\ q.current = req[w].current /\ q.caller = req[w].caller
               /\ q.target = req[w].target /\ q.barred = req[w].barred
               /\ q.inUse = req[w].inUse
  <2> DEFINE q == [req[w] EXCEPT !.pc = p, !.at = t]
  <2>1. req' = [req EXCEPT ![w] = q]
    BY <1>0, <1>2 DEF TypeOK, Request
  <2>2. /\ q \in Request /\ q.pc = p /\ q.at = t
        /\ q.current = req[w].current /\ q.caller = req[w].caller
        /\ q.target = req[w].target /\ q.barred = req[w].barred
        /\ q.inUse = req[w].inUse
    BY <1>0 DEF Request
  <2> HIDE DEF q
  <2> QED
    BY <2>1, <2>2
<1>3. CASE CallWithToken(w)
  <2>1. PICK i \in Ids :
          /\ Exists(i)
          /\ req' = [req EXCEPT ![w] =
                       [Idle EXCEPT !.pc = "byToken", !.current = i, !.at = now,
                                    !.barred = {j \in Ids : Over(j)}]]
    BY <1>3 DEF CallWithToken
  <2> DEFINE q == [Idle EXCEPT !.pc = "byToken", !.current = i, !.at = now,
                               !.barred = {j \in Ids : Over(j)}]
  <2>2. /\ q \in Request
        /\ q.pc = "byToken" /\ q.current = i /\ q.at = now
        /\ q.barred = {j \in Ids : Over(j)}
    BY <1>0 DEF Idle, Request, Points
  <2>3. req' = [req EXCEPT ![w] = q]
    BY <2>1
  <2> HIDE DEF q
  <2> QED
    BY <1>3, <2>1, <2>2, <2>3 DEF CallWithToken, Moves, Opened
<1>4. CASE ByToken(w)
  <2>1. ASSUME Live(req[w].current, req[w].at),
               req' = [req EXCEPT ![w].pc = "admitted", ![w].at = 0,
                                  ![w].caller = session[req[w].current].subject]
        PROVE  \E q \in Request : req' = [req EXCEPT ![w] = q] /\ Moves(w, q)
    <3> DEFINE q == [req[w] EXCEPT !.pc = "admitted", !.at = 0,
                                   !.caller = session[req[w].current].subject]
    <3>1. session[req[w].current].subject \in Subjects \cup {None}
      BY <1>4 DEF ByToken, At, TypeOK, Session
    <3>2. req' = [req EXCEPT ![w] = q]
      BY <1>0, <2>1 DEF TypeOK, Request
    <3>3. /\ q \in Request /\ q.pc = "admitted" /\ q.at = 0
          /\ q.caller = session[req[w].current].subject
          /\ q.current = req[w].current /\ q.barred = req[w].barred
      BY <1>0, <3>1 DEF Request, Points
    <3> HIDE DEF q
    <3> QED
      BY <1>4, <2>1, <3>2, <3>3 DEF ByToken, Moves, Onward
  <2> QED
    BY <1>1, <1>4, <2>1 DEF ByToken
<1>5. CASE CallTouch(w)
  <2>1. "touch" \in Points
    BY DEF Points
  <2>2. PICK q \in Request :
          /\ req' = [req EXCEPT ![w] = q]
          /\ q.pc = "touch" /\ q.at = now
          /\ q.current = req[w].current /\ q.caller = req[w].caller
          /\ q.target = req[w].target /\ q.barred = req[w].barred
          /\ q.inUse = req[w].inUse
    BY <1>0, <1>2, <1>5, <2>1 DEF CallTouch
  <2> QED
    BY <1>5, <2>2 DEF CallTouch, Moves, Onward, At
<1>6. CASE TouchUpdate(w)
  <2>1. PICK p \in {"admitted", "touchReread"} :
          req' = [req EXCEPT ![w].pc = p, ![w].at = 0]
    BY <1>6 DEF TouchUpdate
  <2>2. p \in Points
    BY DEF Points
  <2>3. PICK q \in Request :
          /\ req' = [req EXCEPT ![w] = q]
          /\ q.pc = p /\ q.at = 0
          /\ q.current = req[w].current /\ q.caller = req[w].caller
          /\ q.target = req[w].target /\ q.barred = req[w].barred
          /\ q.inUse = req[w].inUse
    BY <1>0, <1>2, <2>1, <2>2
  <2>4. Onward(w, q)
    BY <1>6, <2>3 DEF TouchUpdate, Onward, At
  <2> QED
    BY <2>3, <2>4 DEF Moves
<1>7. CASE TouchReread(w)
  <2>1. "admitted" \in Points
    BY DEF Points
  <2> QED
    BY <1>0, <1>1, <1>2, <1>7, <2>1 DEF TouchReread, Moves, Onward, At
<1>8. CASE CallEnd(w)
  <2>1. PICK inUse \in {None, req[w].current}, i \in {j \in Ids : Exists(j)} :
          /\ i # inUse
          /\ req' = [req EXCEPT ![w].pc = "end", ![w].target = i,
                                ![w].at = now, ![w].inUse = inUse]
    BY <1>8 DEF CallEnd, CurrentOf
  <2> DEFINE q == [req[w] EXCEPT !.pc = "end", !.target = i, !.at = now,
                                 !.inUse = inUse]
  <2>2. req' = [req EXCEPT ![w] = q]
    BY <1>0, <2>1 DEF TypeOK, Request
  <2>3. /\ q \in Request /\ q.pc = "end" /\ q.at = now
        /\ q.target = i /\ q.inUse = inUse /\ q.caller = req[w].caller
        /\ q.current = req[w].current /\ q.barred = req[w].barred
    BY <1>0 DEF Request, Points
  <2> HIDE DEF q
  <2> QED
    BY <1>8, <2>1, <2>2, <2>3 DEF CallEnd, Moves, Onward
<1>9. CASE EndUpdate(w)
  <2>1. "endReread" \in Points
    BY DEF Points
  <2>2. CASE Finish(w)
    BY <1>1, <2>2
  <2>3. CASE /\ ~(Owned(req[w].target, req[w].caller) /\ ~Ended(req[w].target))
             /\ req' = [req EXCEPT ![w].pc = "endReread", ![w].at = 0]
    <3>1. PICK q \in Request :
               /\ req' = [req EXCEPT ![w] = q]
               /\ q.pc = "endReread" /\ q.at = 0
               /\ q.current = req[w].current /\ q.caller = req[w].caller
               /\ q.target = req[w].target /\ q.barred = req[w].barred
               /\ q.inUse = req[w].inUse
      BY <1>0, <1>2, <2>1, <2>3
    <3> QED
      BY <1>9, <2>3, <3>1 DEF EndUpdate, Moves, Onward
  <2> QED
    BY <1>9, <2>2, <2>3 DEF EndUpdate
<1> QED
  BY <1>1, <1>3, <1>4, <1>5, <1>6, <1>7, <1>8, <1>9
     DEF WorkerStep, EndReread, Leave

LEMMA MovesTyped ==
    ASSUME TypeOK, NEW w \in Workers, NEW q \in Request, Moves(w, q)
    PROVE  CallTyped(q)
<1>1. CallTyped(req[w])
  BY TypedCall
<1>2. At(w, "byToken") /\ Live(req[w].current, req[w].at) =>
        session[req[w].current].subject \in Subjects
  BY <1>1 DEF At, Live, Exists, CallTyped, TypeOK, Session
<1> QED
  BY <1>1, <1>2, IdleFacts DEF Moves, Opened, Onward, CallTyped, At

-----------------------------------------------------------------------------
(* What a step does to the rows.                                           *)

Started(i) ==
    /\ ~Exists(i)
    /\ session'[i].subject \in Subjects
    /\ session'[i].lastUsedAt = now
    /\ session'[i].endedAt = 0

Touched(i) ==
    /\ ~Ended(i)
    /\ session'[i].subject = session[i].subject
    /\ session'[i].expiresAt = session[i].expiresAt
    /\ session'[i].endedAt = session[i].endedAt
    /\ session'[i].lastUsedAt > session[i].lastUsedAt

EndedBy(w, i) ==
    /\ At(w, "end") /\ req[w].target = i
    /\ Owned(i, req[w].caller)
    /\ ~Ended(i)
    /\ session'[i].subject = session[i].subject
    /\ session'[i].expiresAt = session[i].expiresAt
    /\ session'[i].lastUsedAt = session[i].lastUsedAt
    /\ session'[i].endedAt # 0

RowStep(i) ==
    \/ session'[i] = session[i]
    \/ Started(i)
    \/ Exists(i) /\ Touched(i)
    \/ Exists(i) /\ \E w \in Workers : EndedBy(w, i)

LEMMA StartRow ==
    ASSUME TypeOK, NEW i \in Ids, Start(i)
    PROVE  /\ session' \in [Ids -> Session]
           /\ \A j \in Ids : session'[j] = session[j] \/ Started(j)
<1>1. PICK m \in Subjects, expiry \in (now + 1) .. (MaxTime + 1) :
        session' = [session EXCEPT ![i] =
                      [subject |-> m, lastUsedAt |-> now, expiresAt |-> expiry,
                       endedAt |-> 0]]
  BY DEF Start
<1>2. now \in Nat /\ expiry \in Nat
  BY MaxTimeAssumption DEF TypeOK
<1> QED
  BY <1>1, <1>2 DEF Start, Started, TypeOK, Session

LEMMA TouchRow ==
    ASSUME TypeOK, CallInv, NEW w \in Workers, TouchUpdate(w)
    PROVE  /\ session' \in [Ids -> Session]
           /\ \A j \in Ids : session'[j] = session[j] \/ (Exists(j) /\ Touched(j))
<1> DEFINE i == req[w].current
<1>1. i \in Ids /\ req[w] \in Request /\ req[w].caller \in Subjects
  BY DEF TouchUpdate, At, TypeOK
<1>2. Exists(i)
  BY <1>1, NoneIsNoValue DEF TouchUpdate, At, CallInv, HeldCall, Exists
<1>3. CASE session' = session
  BY <1>3 DEF TypeOK
<1>4. CASE /\ Touches(i, req[w].at)
           /\ session' = [session EXCEPT ![i].lastUsedAt = req[w].at]
  <2>1. session' = [session EXCEPT ![i] =
                      [session[i] EXCEPT !.lastUsedAt = req[w].at]]
    BY <1>1, <1>4 DEF TypeOK, Session
  <2>2. session[i] \in Session /\ req[w].at \in Nat
    BY <1>1 DEF TypeOK, Request
  <2> QED
    BY <1>1, <1>2, <1>4, <2>1, <2>2 DEF Touches, Touched, TypeOK, Session, Ended
<1> QED
  BY <1>3, <1>4 DEF TouchUpdate

LEMMA EndRow ==
    ASSUME TypeOK, CallInv, NEW w \in Workers, EndUpdate(w)
    PROVE  /\ session' \in [Ids -> Session]
           /\ \A j \in Ids :
                 session'[j] = session[j] \/ (Exists(j) /\ EndedBy(w, j))
<1> DEFINE i == req[w].target
<1>1. /\ i \in Ids /\ req[w] \in Request
      /\ Exists(i)
      /\ req[w].at # 0
  BY DEF EndUpdate, At, TypeOK, CallInv, EndingCall, DatedCall
<1>2. CASE session' = session
  BY <1>2 DEF TypeOK
<1>3. CASE /\ Owned(i, req[w].caller) /\ ~Ended(i)
           /\ session' = [session EXCEPT ![i].endedAt = req[w].at]
  <2>1. session' = [session EXCEPT ![i] =
                      [session[i] EXCEPT !.endedAt = req[w].at]]
    BY <1>1, <1>3 DEF TypeOK, Session
  <2>2. session[i] \in Session /\ req[w].at \in Nat
    BY <1>1 DEF TypeOK, Request
  <2> QED
    BY <1>1, <1>3, <2>1, <2>2 DEF EndedBy, EndUpdate, TypeOK, Session
<1> QED
  BY <1>2, <1>3 DEF EndUpdate

LEMMA RowSteps ==
    ASSUME TypeOK, CallInv, [Next]_vars
    PROVE  /\ session' \in [Ids -> Session]
           /\ \A i \in Ids : RowStep(i)
<1>1. CASE session' = session
  BY <1>1 DEF TypeOK, RowStep
<1>2. ASSUME NEW i \in Ids, Start(i)
      PROVE  session' \in [Ids -> Session] /\ \A j \in Ids : RowStep(j)
  BY <1>2, StartRow DEF RowStep
<1>3. ASSUME NEW w \in Workers, WorkerStep(w)
      PROVE  session' \in [Ids -> Session] /\ \A j \in Ids : RowStep(j)
  <2>1. CASE TouchUpdate(w)
    BY <2>1, TouchRow DEF RowStep
  <2>2. CASE EndUpdate(w)
    BY <2>2, EndRow DEF RowStep
  <2> QED
    BY <1>1, <1>3, <2>1, <2>2
       DEF WorkerStep, CallWithToken, ByToken, CallTouch, TouchReread,
           CallEnd, EndReread, Leave
<1> QED
  BY <1>1, <1>2, <1>3 DEF Next, vars, Tick, WorkerStep

\* A session that is there keeps its subject and expiry, and its end.
LEMMA RowsKept ==
    ASSUME RowInv, NEW i \in Ids, RowStep(i)
    PROVE  /\ Exists(i) => /\ session'[i].subject = session[i].subject
                          /\ session'[i].expiresAt = session[i].expiresAt
           /\ Ended(i) => session'[i] = session[i]
<1>1. Ended(i) => Exists(i)
  BY DEF RowInv, Ended, NoSession
<1> QED
  BY <1>1 DEF RowStep, Started, Touched, EndedBy

-----------------------------------------------------------------------------
(* The invariant is kept.                                                  *)

LEMMA InitInv == Init => SessionsInv
<1> SUFFICES ASSUME Init PROVE SessionsInv
  OBVIOUS
<1>1. NoSession \in Session
  BY DEF NoSession, Session
<1>2. \A w \in Workers : req[w] = Idle
  BY DEF Init
<1>3. TypeOK
  BY <1>1, <1>2, IdleFacts DEF Init, TypeOK
<1>4. CallInv
  BY <1>2, IdleFacts DEF Init, CallInv, DatedCall, HeldCall, EndingCall
<1> QED
  BY <1>3, <1>4 DEF Init, SessionsInv, RowInv, EndAnswerIsTrue

LEMMA NextTyped ==
    ASSUME SessionsInv, [Next]_vars
    PROVE  TypeOK'
<1>1. session' \in [Ids -> Session]
  BY RowSteps DEF SessionsInv
<1>2. ASSUME NEW w \in Workers, WorkerStep(w)
      PROVE  TypeOK'
  <2>1. PICK q \in Request : req' = [req EXCEPT ![w] = q] /\ Moves(w, q)
    BY <1>2, WorkerMoves DEF SessionsInv
  <2>2. CallTyped(q)
    BY <2>1, MovesTyped DEF SessionsInv
  <2>3. told' \in [Workers -> Ids \cup {None}] /\ now' = now
    <3>1. req[w].pc \in {"end", "endReread"} => req[w].target \in Ids
      BY DEF SessionsInv, TypeOK
    <3>2. told \in [Workers -> Ids \cup {None}]
      BY DEF SessionsInv, TypeOK
    <3>3. CASE EndUpdate(w)
      BY <3>1, <3>2, <3>3 DEF EndUpdate, At
    <3>4. CASE EndReread(w)
      BY <3>1, <3>2, <3>4 DEF EndReread, At
    <3> QED
      BY <1>2, <3>2, <3>3, <3>4
         DEF WorkerStep, CallWithToken, ByToken, CallTouch, TouchUpdate,
             TouchReread, CallEnd, Leave
  <2> QED
    BY <1>1, <2>1, <2>2, <2>3, WorkerType DEF SessionsInv
<1>3. CASE UNCHANGED <<req, told>> /\ now' \in Nat
  BY <1>1, <1>3 DEF SessionsInv, TypeOK
<1> QED
  BY <1>2, <1>3 DEF Next, vars, Tick, Start, WorkerStep, SessionsInv, TypeOK

LEMMA NextRows ==
    ASSUME SessionsInv, [Next]_vars
    PROVE  RowInv'
<1>1. \A i \in Ids : RowStep(i)
  BY RowSteps DEF SessionsInv
<1> QED
  BY <1>1, NoneIsNoValue
     DEF SessionsInv, RowInv, RowStep, Started, Touched, EndedBy, Exists

LEMMA ClockMoves ==
    ASSUME SessionsInv, [Next]_vars
    PROVE  now' \in Nat /\ now' >= now
<1>1. now \in Nat
  BY DEF SessionsInv, TypeOK
<1>2. ASSUME NEW w \in Workers, WorkerStep(w)
      PROVE  now' = now
  BY <1>2 DEF WorkerStep, CallWithToken, ByToken, CallTouch, TouchUpdate,
              TouchReread, CallEnd, EndUpdate, EndReread, Leave
<1> QED
  BY <1>1, <1>2 DEF Next, vars, Tick, Start, WorkerStep

\* Every step moves at most one call.
LEMMA CallSteps ==
    ASSUME TypeOK, [Next]_vars, NEW w \in Workers
    PROVE  req'[w] = req[w] \/ Moves(w, req'[w])
<1>1. ASSUME NEW v \in Workers, WorkerStep(v)
      PROVE  req'[w] = req[w] \/ Moves(w, req'[w])
  <2>1. PICK q \in Request : req' = [req EXCEPT ![v] = q] /\ Moves(v, q)
    BY <1>1, WorkerMoves
  <2> QED
    BY <2>1 DEF TypeOK
<1> QED
  BY <1>1 DEF Next, vars, Tick, Start, WorkerStep

LEMMA NextCalls ==
    ASSUME SessionsInv, [Next]_vars
    PROVE  CallInv'
<1> SUFFICES ASSUME NEW w \in Workers
             PROVE  (DatedCall(w) /\ HeldCall(w) /\ EndingCall(w))'
  BY DEF CallInv
<1>1. /\ \A i \in Ids : Exists(i) =>
           /\ session'[i].subject = session[i].subject
           /\ session'[i].expiresAt = session[i].expiresAt
      /\ \A i \in Ids : Ended(i) => session'[i] = session[i]
  BY RowSteps, RowsKept DEF SessionsInv
<1>2. DatedCall(w) /\ HeldCall(w) /\ EndingCall(w) /\ CallTyped(req[w])
  BY TypedCall DEF SessionsInv, CallInv
<1>3. now \in Nat /\ now # 0 /\ now' \in Nat /\ now' >= now
  BY ClockMoves DEF SessionsInv, TypeOK
<1>4. req'[w] = req[w] \/ Moves(w, req'[w])
  BY CallSteps DEF SessionsInv
<1>5. DatedCall(w)'
  <2>1. req[w].at \in Nat
    BY <1>2 DEF CallTyped, Request
  <2>2. CASE req'[w] = req[w]
    BY <1>2, <1>3, <2>1, <2>2 DEF DatedCall
  <2>3. CASE Moves(w, req'[w])
    BY <1>3, <2>3, IdleFacts DEF DatedCall, Moves, Opened, Onward
  <2> QED
    BY <1>4, <2>2, <2>3
<1>6. HeldCall(w)'
  <2>1. req[w].pc \notin {"idle", "byToken"} =>
          req[w].current \in Ids /\ Exists(req[w].current)
    BY <1>2, NoneIsNoValue DEF HeldCall, CallTyped, Exists
  <2>2. \A i \in Ids : Exists(i) => Exists(i)'
    BY <1>1 DEF Exists
  <2>3. \A i \in Ids : \A t \in Nat :
           Exists(i) /\ ~Live(i, t) => ~(Exists(i) /\ ~Ended(i) /\ session[i].expiresAt > t)'
    BY <1>1 DEF Live, Exists, Ended
  <2>4. CASE req'[w] = req[w]
    <3>1. CASE req[w].pc = "byToken"
      <4>1. req[w].current \in Ids /\ req[w].at \in Nat
        BY <1>2, <3>1 DEF CallTyped, Request
      <4> QED
        BY <1>2, <2>2, <2>3, <2>4, <3>1, <4>1 DEF HeldCall, Live
    <3>2. CASE req[w].pc # "byToken"
      BY <1>1, <1>2, <2>1, <2>4, <3>2 DEF HeldCall
    <3> QED
      BY <3>1, <3>2
  <2>5. CASE req'[w] = Idle
    BY <2>5, IdleFacts DEF HeldCall
  <2>6. CASE Opened(w, req'[w])
    <3>1. PICK i \in Ids :
            /\ req'[w].pc = "byToken"
            /\ req'[w].current = i /\ req'[w].at = now
            /\ Exists(i)
            /\ i \in req'[w].barred => Over(i)
      BY <2>6 DEF Opened
    <3>2. session[i] \in Session /\ session'[i] \in Session
      BY <3>1, RowSteps DEF SessionsInv, TypeOK
    <3>3. /\ session'[i].subject # None
          /\ i \in req'[w].barred =>
               session'[i].endedAt # 0 \/ ~(session'[i].expiresAt > now)
      BY <1>1, <1>3, <3>1, <3>2 DEF Over, Exists, Ended, Session
    <3> QED
      BY <3>1, <3>3 DEF HeldCall, Live, Exists, Ended
  <2>7. CASE Onward(w, req'[w])
    BY <1>1, <1>2, <2>1, <2>7 DEF HeldCall, Onward, At, CallTyped
  <2> QED
    BY <1>4, <2>4, <2>5, <2>6, <2>7 DEF Moves
<1>7. EndingCall(w)'
  <2>1. \A i \in Ids : Exists(i) => Exists(i)'
    BY <1>1 DEF Exists
  <2>2. \A i \in Ids, m \in Subjects :
          Exists(i) /\ (~Owned(i, m) \/ Ended(i)) => (~Owned(i, m) \/ Ended(i))'
    BY <1>1 DEF Owned, Ended
  <2>3. CASE req'[w] = req[w]
    BY <1>2, <2>1, <2>2, <2>3 DEF EndingCall, CallTyped
  <2>4. CASE req'[w] = Idle
    BY <2>4, IdleFacts DEF EndingCall
  <2>5. CASE Opened(w, req'[w])
    BY <2>5 DEF EndingCall, Opened
  <2>6. CASE Onward(w, req'[w])
    BY <1>2, <2>1, <2>2, <2>6 DEF EndingCall, Onward, At, CallTyped
  <2> QED
    BY <1>4, <2>3, <2>4, <2>5, <2>6 DEF Moves
<1> QED
  BY <1>5, <1>6, <1>7

\* A session told to have ended has.
LEMMA NextAnswers ==
    ASSUME SessionsInv, [Next]_vars
    PROVE  EndAnswerIsTrue'
<1> SUFFICES ASSUME NEW w \in Workers, told'[w] # None
             PROVE  session'[told'[w]].endedAt # 0
  BY DEF EndAnswerIsTrue, Ended
<1>1. \A i \in Ids : Ended(i) => session'[i] = session[i]
  BY RowSteps, RowsKept DEF SessionsInv
<1>2. told \in [Workers -> Ids \cup {None}]
  BY DEF SessionsInv, TypeOK
<1>3. CASE told'[w] = told[w]
  <2>1. told[w] \in Ids /\ Ended(told[w])
    BY <1>2, <1>3 DEF SessionsInv, EndAnswerIsTrue
  <2> QED
    BY <1>1, <1>3, <2>1 DEF Ended
<1>4. ASSUME NEW v \in Workers, WorkerStep(v), told' # told
      PROVE  session'[told'[w]].endedAt # 0
  <2>1. CASE CallWithToken(v)
    BY <1>2, <1>3, <2>1 DEF CallWithToken
  <2>2. CASE EndUpdate(v)
    <3>1. /\ req[v].target \in Ids
          /\ req[v].at # 0
      BY <2>2 DEF EndUpdate, At, SessionsInv, TypeOK, CallInv, DatedCall
    <3>2. /\ session' = [session EXCEPT ![req[v].target].endedAt = req[v].at]
          /\ told' = [told EXCEPT ![v] = req[v].target]
      BY <1>4, <2>2 DEF EndUpdate
    <3>3. session[req[v].target] \in Session
      BY <3>1 DEF SessionsInv, TypeOK
    <3>4. session'[req[v].target].endedAt = req[v].at
      BY <3>1, <3>2, <3>3 DEF SessionsInv, TypeOK, Session
    <3> QED
      BY <1>2, <1>3, <3>1, <3>2, <3>4
  <2>3. CASE EndReread(v)
    <3>1. /\ req[v].target \in Ids
          /\ Owned(req[v].target, req[v].caller) => Ended(req[v].target)
      BY <2>3 DEF EndReread, At, SessionsInv, TypeOK, CallInv, EndingCall
    <3>2. told' = [told EXCEPT ![v] =
                     IF Owned(req[v].target, req[v].caller)
                     THEN req[v].target ELSE None]
      BY <2>3 DEF EndReread
    <3> QED
      BY <1>1, <1>2, <1>3, <3>1, <3>2 DEF Ended
  <2> QED
    BY <1>4, <2>1, <2>2, <2>3
       DEF WorkerStep, ByToken, CallTouch, TouchUpdate, TouchReread,
           CallEnd, Leave
<1> QED
  BY <1>3, <1>4 DEF Next, vars, Tick, Start, WorkerStep

LEMMA NextInv == SessionsInv /\ [Next]_vars => SessionsInv'
<1> SUFFICES ASSUME SessionsInv, [Next]_vars PROVE SessionsInv'
  OBVIOUS
<1>1. now' # 0
  BY ClockMoves DEF SessionsInv, TypeOK
<1> QED
  BY <1>1, NextTyped, NextRows, NextCalls, NextAnswers DEF SessionsInv

LEMMA SpecInv == Spec => []SessionsInv
  BY InitInv, NextInv, PTL DEF Spec

-----------------------------------------------------------------------------
(* Theorems.                                                               *)

\* Every state the requests of a mount can reach is of the declared types.
THEOREM SessionsTypeCorrect == Spec => []TypeOK
<1>1. SessionsInv => TypeOK
  BY DEF SessionsInv
<1> QED
  BY <1>1, SpecInv, PTL

\* End answers truly: whoever was told a session has ended (EndOwnSession, the
\* UPDATE and the read after a miss) finds it ended ever after.
THEOREM EndAnswerTrue == Spec => []EndAnswerIsTrue
<1>1. SessionsInv => EndAnswerIsTrue
  BY DEF SessionsInv
<1> QED
  BY <1>1, SpecInv, PTL

\* No statement of session_impl.go changes an ended row: the first instant
\* stays, and a touch under way does not land.
THEOREM SessionEndStays == Spec => EndedStays
<1>1. SessionsInv /\ [Next]_vars =>
        [\A i \in Ids : Ended(i) => session'[i] = session[i]]_vars
  BY RowSteps, RowsKept DEF SessionsInv
<1> QED
  BY <1>1, SpecInv, PTL DEF Spec, EndedStays

\* Touch moves a session's last use forward or leaves it, in whatever order the
\* stamps of racing requests reach the UPDATE.
THEOREM SessionUseMovesOn == Spec => LastUsedMovesOn
<1>1. SessionsInv /\ [Next]_vars =>
        [\A i \in Ids : session'[i].lastUsedAt >= session[i].lastUsedAt]_vars
  <2> SUFFICES ASSUME SessionsInv, [Next]_vars, NEW i \in Ids
               PROVE  session'[i].lastUsedAt >= session[i].lastUsedAt
    OBVIOUS
  <2>1. RowStep(i) /\ session[i] \in Session /\ now \in Nat
    BY RowSteps DEF SessionsInv, TypeOK
  <2>2. ~Exists(i) => session[i].lastUsedAt = 0
    BY DEF SessionsInv, RowInv, NoSession
  <2> QED
    <3>1. session[i].lastUsedAt \in Nat /\ session'[i].lastUsedAt \in Nat
      BY <2>1, RowSteps DEF SessionsInv, Session
    <3>2. CASE session'[i].lastUsedAt = session[i].lastUsedAt
      BY <3>1, <3>2
    <3>3. CASE Started(i)
      BY <2>1, <2>2, <3>3 DEF Started
    <3>4. CASE Touched(i)
      <4>1. session'[i].lastUsedAt > session[i].lastUsedAt
        BY <3>4 DEF Touched
      <4> QED
        BY <3>1, <4>1
    <3>5. ASSUME NEW w \in Workers, EndedBy(w, i)
          PROVE  session'[i].lastUsedAt >= session[i].lastUsedAt
      BY <3>1, <3>5 DEF EndedBy
    <3>6. CASE session'[i] = session[i]
      BY <3>2, <3>6
    <3> QED
      BY <2>1, <3>3, <3>4, <3>5, <3>6, Zenon DEF RowStep
<1> QED
  BY <1>1, SpecInv, PTL DEF Spec, LastUsedMovesOn

\* A session ends only by EndOwnSession, called with the token of a session of
\* the same subject that was live when the call came in, and of another session
\* wherever the mount names the one in use.
THEOREM SessionEndedByHolder == Spec => EndedByItsHolder
<1>1. SessionsInv /\ [Next]_vars =>
        [\A i \in Ids : ~Ended(i) /\ session'[i].endedAt # 0 =>
          \E w \in Workers :
             /\ At(w, "end")
             /\ req[w].target = i
             /\ req[w].current \notin req[w].barred
             /\ session[req[w].current].subject = session[i].subject
             /\ req[w].current = i => req[w].inUse = None]_vars
  <2> SUFFICES ASSUME SessionsInv, [Next]_vars, NEW i \in Ids,
                      ~Ended(i), session'[i].endedAt # 0
               PROVE  \E w \in Workers :
                         /\ At(w, "end")
                         /\ req[w].target = i
                         /\ req[w].current \notin req[w].barred
                         /\ session[req[w].current].subject = session[i].subject
                         /\ req[w].current = i => req[w].inUse = None
    OBVIOUS
  <2>1. PICK w \in Workers : EndedBy(w, i)
    BY RowSteps DEF SessionsInv, RowStep, Started, Touched, Ended
  <2>2. HeldCall(w) /\ EndingCall(w)
    BY DEF SessionsInv, CallInv
  <2> QED
    BY <2>1, <2>2 DEF EndedBy, HeldCall, EndingCall, Owned, At
<1> QED
  BY <1>1, SpecInv, PTL DEF Spec, EndedByItsHolder

=============================================================================
