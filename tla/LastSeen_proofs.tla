--------------------------- MODULE LastSeen_proofs ---------------------------
(***************************************************************************)
(* Theorems about the throttle and the functions it stands over, for any   *)
(* hosts, workers, subjects and sessions, any owners, any width of the     *)
(* throttle and any bound on the clock.                                    *)
(***************************************************************************)
EXTENDS LastSeen, TLAPS

-----------------------------------------------------------------------------
(* The invariant.                                                          *)

\* The host read the clock before the database did, and neither reading is
\* ahead of it nor the zero of an empty row.
DatedCall(w) ==
    /\ req[w].at <= now
    /\ req[w].pc = "insert" => req[w].at <= req[w].stamp /\ req[w].stamp # 0

CallInv == now >= Throttle /\ \A w \in Workers : DatedCall(w)

\* ClaimIsBacked in two parts: a call of that host and session, with the reading
\* t, is yet to be carried out, or the row stands for it.
Pends(w, h, s, t) ==
    /\ req[w].pc \in {"select", "insert", "release"}
    /\ req[w].host = h
    /\ Key(w) = <<Owner[s], s>>
    /\ req[w].at = t

Stands(s, t) == session[s] = "live" => seen[s] # 0 /\ t <= seen[s] + Throttle

SeenInv == TypeOK /\ CallInv /\ NoRowWithoutSession /\ ClaimIsBacked

LEMMA BackedParts ==
    ClaimIsBacked <=>
       \A h \in Hosts, s \in Sessions :
          touched[h][<<Owner[s], s>>] # 0 =>
             \/ \E w \in Workers : Pends(w, h, s, touched[h][<<Owner[s], s>>])
             \/ Stands(s, touched[h][<<Owner[s], s>>])
  BY DEF ClaimIsBacked, Pends, Stands

-----------------------------------------------------------------------------
(* Types.                                                                  *)

LEMMA IdleFacts ==
    Idle \in Request /\ Idle.pc = "idle" /\ Idle.at = 0
  BY DEF Idle, Request, Points

\* What TypeOK says of one call.
CallTyped(q) ==
    /\ q \in Request
    /\ q.pc # "idle" => q.host \in Hosts /\ <<q.subject, q.session>> \in Keys

LEMMA TypedCall ==
    ASSUME TypeOK, NEW w \in Workers
    PROVE  CallTyped(req[w])
  BY DEF TypeOK, CallTyped

LEMMA OwnKey ==
    ASSUME NEW s \in Sessions
    PROVE  <<Owner[s], s>> \in Keys
  BY OwnerAssumption DEF Keys

\* A call begins with a reading of the clock, and goes on with the same host,
\* names and reading.
Opened(w, q) == At(w, "idle") /\ q.pc = "claim" /\ q.at = now

Onward(w, q) ==
    /\ ~At(w, "idle") /\ q.pc \in {"select", "insert", "release"}
    /\ q.host = req[w].host
    /\ q.subject = req[w].subject /\ q.session = req[w].session
    /\ q.at = req[w].at
    /\ q.pc = "insert" => q.stamp = now

Moves(w, q) == q = Idle \/ Opened(w, q) \/ Onward(w, q)

WorkerStep(w) ==
    \/ CallTouch(w) \/ Claim(w) \/ Release(w)
    \/ TouchSelect(w) \/ TouchInsert(w) \/ TouchFails(w)

LEMMA GotoMoves ==
    ASSUME TypeOK, NEW w \in Workers, ~At(w, "idle"),
           NEW p \in {"select", "release"}, Goto(w, p)
    PROVE  \E q \in Request : req' = [req EXCEPT ![w] = q] /\ Onward(w, q)
<1> DEFINE q == [req[w] EXCEPT !.pc = p]
<1>1. req[w] \in Request
  BY DEF TypeOK
<1>2. req' = [req EXCEPT ![w] = q]
  BY <1>1 DEF Goto, TypeOK, Request
<1>3. /\ q \in Request /\ q.pc = p /\ q.host = req[w].host
      /\ q.subject = req[w].subject /\ q.session = req[w].session
      /\ q.at = req[w].at
  BY <1>1 DEF Request, Points
<1> HIDE DEF q
<1> QED
  BY <1>2, <1>3 DEF Onward

LEMMA WorkerMoves ==
    ASSUME TypeOK, NEW w \in Workers, WorkerStep(w)
    PROVE  \E q \in Request :
             req' = [req EXCEPT ![w] = q] /\ Moves(w, q) /\ CallTyped(q)
<1>0. req[w] \in Request /\ CallTyped(req[w]) /\ now \in Nat
  BY TypedCall DEF TypeOK
<1>1. ASSUME Finish(w)
      PROVE  \E q \in Request :
               req' = [req EXCEPT ![w] = q] /\ Moves(w, q) /\ CallTyped(q)
  BY <1>1, IdleFacts DEF Finish, Moves, CallTyped
<1>2. ASSUME ~At(w, "idle"), NEW q \in Request, Onward(w, q)
      PROVE  CallTyped(q)
  BY <1>0, <1>2 DEF Onward, CallTyped, At
<1>3. ASSUME ~At(w, "idle"), NEW p \in {"select", "release"}, Goto(w, p)
      PROVE  \E q \in Request :
               req' = [req EXCEPT ![w] = q] /\ Moves(w, q) /\ CallTyped(q)
  BY <1>2, <1>3, GotoMoves DEF Moves
<1>4. CASE CallTouch(w)
  <2>1. PICK h \in Hosts, k \in Keys :
          req' = [req EXCEPT ![w] = [Idle EXCEPT
                    !.pc = "claim", !.host = h,
                    !.subject = k[1], !.session = k[2], !.at = now]]
    BY <1>4 DEF CallTouch
  <2> DEFINE q == [Idle EXCEPT !.pc = "claim", !.host = h,
                     !.subject = k[1], !.session = k[2], !.at = now]
  <2>2. k = <<k[1], k[2]>> /\ k[1] \in Subjects /\ k[2] \in Sessions
    BY DEF Keys
  <2>3. /\ q \in Request /\ q.pc = "claim" /\ q.at = now /\ q.host = h
        /\ q.subject = k[1] /\ q.session = k[2]
    BY <1>0, <2>2 DEF Idle, Request, Points
  <2>4. req' = [req EXCEPT ![w] = q]
    BY <2>1
  <2> HIDE DEF q
  <2> QED
    BY <1>4, <2>2, <2>3, <2>4 DEF CallTouch, Moves, Opened, CallTyped
<1>5. CASE TouchSelect(w)
  <2>1. CASE Finish(w)
    BY <1>1, <2>1
  <2>2. CASE req' = [req EXCEPT ![w].pc = "insert", ![w].stamp = now]
    <3> DEFINE q == [req[w] EXCEPT !.pc = "insert", !.stamp = now]
    <3>1. req' = [req EXCEPT ![w] = q]
      BY <1>0, <2>2 DEF TypeOK, Request
    <3>2. /\ q \in Request /\ q.pc = "insert" /\ q.host = req[w].host
          /\ q.subject = req[w].subject /\ q.session = req[w].session
          /\ q.at = req[w].at /\ q.stamp = now
      BY <1>0 DEF Request, Points
    <3> HIDE DEF q
    <3>3. Onward(w, q) /\ ~At(w, "idle")
      BY <1>5, <3>2 DEF TouchSelect, Onward, At
    <3> QED
      BY <1>2, <3>1, <3>2, <3>3 DEF Moves
  <2> QED
    BY <1>5, <2>1, <2>2 DEF TouchSelect
<1> QED
  BY <1>1, <1>3, <1>4, <1>5
     DEF WorkerStep, Claim, Release, TouchInsert, TouchFails, At

LEMMA SweptType ==
    ASSUME TypeOK, NEW h \in Hosts, NEW t
    PROVE  /\ Swept(h, t) \in [Keys -> Nat]
           /\ \A k \in Keys : Swept(h, t)[k] \in {0, touched[h][k]}
  BY DEF Swept, TypeOK

LEMMA NotedFacts ==
    ASSUME TypeOK, NEW s \in Sessions, NEW t \in Nat, t # 0
    PROVE  /\ Noted(s, t) \in Nat /\ Noted(s, t) # 0
           /\ Noted(s, t) >= seen[s]
           /\ t <= Noted(s, t) + Throttle
           /\ seen[s] # 0 /\ Noted(s, t) # seen[s] =>
                 Noted(s, t) > seen[s] + Throttle
  BY ThrottleAssumption DEF TypeOK, Noted

-----------------------------------------------------------------------------
(* What a step does to the rows.                                           *)

\* A session that is live was, and one gone stays; a row is written by an
\* upsert, or goes with its session.
RowStep(s) ==
    /\ session'[s] \in {session[s], "over", "gone"}
    /\ session[s] = "gone" => session'[s] = "gone"
    /\ session[s] = "over" => session'[s] # "live"
    /\ \/ seen'[s] = seen[s] /\ (session'[s] = "gone" => session[s] = "gone")
       \/ seen'[s] = 0 /\ session'[s] = "gone"
       \/ /\ session'[s] # "gone"
          /\ \E w \in Workers :
                /\ At(w, "insert")
                /\ req[w].session = s
                /\ seen'[s] = Noted(s, req[w].stamp)

LEMMA RowSteps ==
    ASSUME TypeOK, CallInv, [Next]_vars
    PROVE  /\ session' \in [Sessions -> {"live", "over", "gone"}]
           /\ seen' \in [Sessions -> Nat]
           /\ \A s \in Sessions : RowStep(s)
<1>0. /\ session \in [Sessions -> {"live", "over", "gone"}]
      /\ seen \in [Sessions -> Nat]
  BY DEF TypeOK
<1> DEFINE Good == /\ session' \in [Sessions -> {"live", "over", "gone"}]
                   /\ seen' \in [Sessions -> Nat]
                   /\ \A s \in Sessions : RowStep(s)
<1>1. CASE session' = session /\ seen' = seen
  BY <1>0, <1>1 DEF RowStep
<1>2. ASSUME NEW i \in Sessions, End(i) PROVE Good
  BY <1>0, <1>2 DEF End, RowStep
<1>3. ASSUME NEW i \in Sessions, RunOut(i) PROVE Good
  BY <1>0, <1>3 DEF RunOut, RowStep
<1>4. ASSUME NEW w \in Workers, TouchInsert(w) PROVE Good
  <2>1. CASE seen' = seen
    BY <1>1, <1>4, <2>1 DEF TouchInsert
  <2>2. CASE /\ Referenced(req[w].session)
             /\ seen' = [seen EXCEPT ![req[w].session] =
                           Noted(req[w].session, req[w].stamp)]
    <3>1. req[w].session \in Sessions /\ req[w].stamp \in Nat /\ req[w].stamp # 0
      BY <1>4, TypedCall
         DEF TouchInsert, At, CallTyped, Keys, Request, CallInv, DatedCall
    <3>2. Noted(req[w].session, req[w].stamp) \in Nat
      BY <3>1, NotedFacts
    <3>3. session' = session /\ At(w, "insert")
      BY <1>4 DEF TouchInsert
    <3>4. \A s \in Sessions :
            seen'[s] = IF s = req[w].session
                       THEN Noted(s, req[w].stamp) ELSE seen[s]
      BY <1>0, <2>2, <3>1
    <3>5. ASSUME NEW s \in Sessions PROVE RowStep(s)
      <4>1. CASE s = req[w].session
        BY <1>0, <2>2, <3>3, <3>4, <4>1 DEF RowStep, Referenced
      <4>2. CASE s # req[w].session
        BY <1>0, <3>3, <3>4, <4>2 DEF RowStep
      <4> QED
        BY <4>1, <4>2
    <3> QED
      BY <1>0, <2>2, <3>2, <3>3, <3>5
  <2> QED
    BY <1>4, <2>1, <2>2 DEF TouchInsert
<1> QED
  BY <1>1, <1>2, <1>3, <1>4
     DEF Next, vars, CallTouch, Claim, Release, TouchSelect, TouchFails,
         Restart, Tick

\* What stands for a claim goes on standing for it.
LEMMA StandsOn ==
    ASSUME TypeOK, CallInv, [Next]_vars,
           NEW s \in Sessions, NEW t \in Nat, Stands(s, t)
    PROVE  Stands(s, t)'
<1>1. RowStep(s) /\ seen[s] \in Nat /\ session[s] \in {"live", "over", "gone"}
  BY RowSteps DEF TypeOK
<1>2. ASSUME NEW w \in Workers, At(w, "insert"), req[w].session = s,
             seen'[s] = Noted(s, req[w].stamp)
      PROVE  seen'[s] \in Nat /\ seen'[s] >= seen[s] /\ seen'[s] # 0
  BY <1>2, NotedFacts, TypedCall
     DEF At, CallTyped, Request, CallInv, DatedCall
<1>3. session'[s] = "live" =>
        /\ session[s] = "live"
        /\ seen'[s] = seen[s] \/ (seen'[s] \in Nat /\ seen'[s] >= seen[s] /\ seen'[s] # 0)
  BY <1>1, <1>2 DEF RowStep
<1> QED
  BY <1>1, <1>3, ThrottleAssumption DEF Stands

-----------------------------------------------------------------------------
(* What a step does to the maps.                                           *)

\* An entry stays, goes, or is a new claim whose call is to be carried out.
EntryStep(h, k) ==
    \/ touched'[h][k] \in {0, touched[h][k]}
    \/ \E w \in Workers :
          /\ At(w, "claim") /\ req[w].host = h /\ Key(w) = k
          /\ touched'[h][k] = req[w].at
          /\ Goto(w, "select")

LEMMA EntrySteps ==
    ASSUME TypeOK, [Next]_vars
    PROVE  /\ touched' \in [Hosts -> [Keys -> Nat]]
           /\ \A h \in Hosts, k \in Keys : EntryStep(h, k)
<1>0. touched \in [Hosts -> [Keys -> Nat]]
  BY DEF TypeOK
<1> DEFINE Good == /\ touched' \in [Hosts -> [Keys -> Nat]]
                   /\ \A h \in Hosts, k \in Keys : EntryStep(h, k)
<1>1. CASE touched' = touched
  BY <1>0, <1>1 DEF EntryStep
<1>2. ASSUME NEW i \in Hosts, Restart(i) PROVE Good
  BY <1>0, <1>2 DEF Restart, EntryStep
<1>3. ASSUME NEW w \in Workers, Release(w) PROVE Good
  <2>1. req[w].host \in Hosts /\ Key(w) \in Keys
    BY <1>3, TypedCall DEF Release, At, CallTyped, Key
  <2>2. PICK m \in [Keys -> Nat] :
          /\ touched' = [touched EXCEPT ![req[w].host] = m]
          /\ \A k \in Keys : m[k] \in {0, touched[req[w].host][k]}
    <3> DEFINE m == [touched[req[w].host] EXCEPT ![Key(w)] =
                       IF @ = req[w].at THEN 0 ELSE @]
    <3>1. touched' = [touched EXCEPT ![req[w].host] = m]
      BY <1>0, <1>3, <2>1 DEF Release
    <3>2. m \in [Keys -> Nat] /\ \A k \in Keys : m[k] \in {0, touched[req[w].host][k]}
      BY <1>0, <2>1
    <3> HIDE DEF m
    <3> QED
      BY <3>1, <3>2
  <2> QED
    BY <1>0, <2>1, <2>2 DEF EntryStep
<1>4. ASSUME NEW w \in Workers, Claim(w) PROVE Good
  <2> DEFINE h == req[w].host
  <2>1. h \in Hosts /\ Key(w) \in Keys /\ req[w].at \in Nat
    BY <1>4, TypedCall DEF Claim, At, CallTyped, Key, Request
  <2>2. PICK map \in [Keys -> Nat] :
          /\ map = Swept(h, req[w].at)
          /\ \A k \in Keys : map[k] \in {0, touched[h][k]}
    BY <2>1, SweptType
  <2>3. CASE touched' = [touched EXCEPT ![h] = map]
    BY <1>0, <2>1, <2>2, <2>3 DEF EntryStep
  <2>4. CASE /\ touched' = [touched EXCEPT ![h] = [map EXCEPT ![Key(w)] = req[w].at]]
             /\ Goto(w, "select")
    <3>1. \A g \in Hosts : touched'[g] = IF g = h
                                         THEN [map EXCEPT ![Key(w)] = req[w].at]
                                         ELSE touched[g]
      BY <1>0, <2>1, <2>4
    <3>2. \A k \in Keys : touched'[h][k] = IF k = Key(w) THEN req[w].at ELSE map[k]
      BY <2>1, <3>1
    <3>3. ASSUME NEW g \in Hosts, NEW k \in Keys PROVE EntryStep(g, k)
      <4>1. CASE g = h /\ k = Key(w)
        BY <1>4, <2>1, <2>4, <3>2, <4>1 DEF EntryStep, Claim
      <4>2. CASE g = h /\ k # Key(w)
        BY <2>2, <3>2, <4>2 DEF EntryStep
      <4>3. CASE g # h
        BY <3>1, <4>3 DEF EntryStep
      <4> QED
        BY <4>1, <4>2, <4>3
    <3> QED
      BY <1>0, <2>1, <2>4, <3>3
  <2> QED
    BY <1>4, <2>2, <2>3, <2>4 DEF Claim
<1> QED
  BY <1>1, <1>2, <1>3, <1>4
     DEF Next, vars, CallTouch, TouchSelect, TouchInsert, TouchFails, End,
         RunOut, Tick

-----------------------------------------------------------------------------
(* The invariant is kept.                                                  *)

LEMMA InitInv == Init => SeenInv
<1> SUFFICES ASSUME Init PROVE SeenInv
  OBVIOUS
<1>1. \A w \in Workers : req[w] = Idle
  BY DEF Init
<1>2. TypeOK
  BY <1>1, IdleFacts, ThrottleAssumption DEF Init, TypeOK
<1>3. CallInv
  BY <1>1, IdleFacts, ThrottleAssumption DEF Init, CallInv, DatedCall
<1>4. ClaimIsBacked
  BY BackedParts, OwnKey DEF Init
<1> QED
  BY <1>2, <1>3, <1>4 DEF Init, SeenInv, NoRowWithoutSession

LEMMA ClockMoves ==
    ASSUME TypeOK, [Next]_vars
    PROVE  now' \in Nat /\ now' >= now
<1>1. now \in Nat
  BY DEF TypeOK
<1>2. ASSUME NEW w \in Workers, WorkerStep(w)
      PROVE  now' = now
  BY <1>2 DEF WorkerStep, CallTouch, Claim, Release, TouchSelect, TouchInsert,
              TouchFails
<1> QED
  BY <1>1, <1>2 DEF Next, vars, End, RunOut, Restart, Tick, WorkerStep

\* Every call stays, or moves in one of three ways.
LEMMA CallSteps ==
    ASSUME TypeOK, [Next]_vars
    PROVE  /\ req' \in [Workers -> Request]
           /\ \A w \in Workers :
                 /\ CallTyped(req'[w])
                 /\ req'[w] = req[w] \/ Moves(w, req'[w])
<1>0. req \in [Workers -> Request] /\ \A w \in Workers : CallTyped(req[w])
  BY TypedCall DEF TypeOK
<1> DEFINE Good == /\ req' \in [Workers -> Request]
                   /\ \A w \in Workers :
                         /\ CallTyped(req'[w])
                         /\ req'[w] = req[w] \/ Moves(w, req'[w])
<1>1. ASSUME NEW v \in Workers, WorkerStep(v)
      PROVE  Good
  <2>1. PICK q \in Request :
          req' = [req EXCEPT ![v] = q] /\ Moves(v, q) /\ CallTyped(q)
    BY <1>1, WorkerMoves
  <2> QED
    BY <1>0, <2>1
<1>2. ASSUME NEW h \in Hosts, Restart(h)
      PROVE  Good
  BY <1>0, <1>2, IdleFacts DEF Restart, Moves, CallTyped
<1>3. CASE req' = req
  BY <1>0, <1>3
<1> QED
  BY <1>1, <1>2, <1>3 DEF Next, vars, End, RunOut, Tick, WorkerStep

LEMMA NextTyped ==
    ASSUME SeenInv, [Next]_vars
    PROVE  TypeOK'
<1>1. swept' \in [Hosts -> Nat]
  <2>0. swept \in [Hosts -> Nat]
    BY DEF SeenInv, TypeOK
  <2>1. ASSUME NEW w \in Workers, Claim(w)
        PROVE  swept' \in [Hosts -> Nat]
    <3>1. req[w].at \in Nat
      BY TypedCall DEF SeenInv, CallTyped, Request
    <3> QED
      BY <2>0, <2>1, <3>1 DEF Claim
  <2>2. ASSUME NEW h \in Hosts, Restart(h)
        PROVE  swept' \in [Hosts -> Nat]
    BY <2>0, <2>2 DEF Restart
  <2> QED
    BY <2>0, <2>1, <2>2
       DEF Next, vars, CallTouch, Release, TouchSelect, TouchInsert, TouchFails,
           End, RunOut, Tick
<1> QED
  BY <1>1, CallSteps, ClockMoves, RowSteps, EntrySteps
     DEF SeenInv, TypeOK, CallTyped

LEMMA NextCalls ==
    ASSUME SeenInv, [Next]_vars
    PROVE  CallInv'
<1>1. now \in Nat /\ now' \in Nat /\ now' >= now /\ now >= Throttle
  BY ClockMoves DEF SeenInv, TypeOK, CallInv
<1>2. ASSUME NEW w \in Workers
      PROVE  DatedCall(w)'
  <2>1. DatedCall(w) /\ req[w].at \in Nat
    BY TypedCall DEF SeenInv, CallInv, CallTyped, Request
  <2>2. req'[w] = req[w] \/ Moves(w, req'[w])
    BY CallSteps DEF SeenInv
  <2>3. CASE req'[w] = req[w]
    BY <1>1, <2>1, <2>3 DEF DatedCall
  <2>4. CASE Moves(w, req'[w])
    BY <1>1, <2>1, <2>4, IdleFacts, ThrottleAssumption
       DEF Moves, Opened, Onward, DatedCall
  <2> QED
    BY <2>2, <2>3, <2>4
<1> QED
  BY <1>1, <1>2, ThrottleAssumption DEF CallInv

\* An upsert is of a session that is there (the foreign key).
LEMMA NextRows ==
    ASSUME SeenInv, [Next]_vars
    PROVE  NoRowWithoutSession'
<1>1. \A s \in Sessions : RowStep(s)
  BY RowSteps DEF SeenInv
<1> QED
  BY <1>1 DEF SeenInv, NoRowWithoutSession, RowStep

\* A call that was to back a claim still is, or the row stands for the claim, or
\* the claim has been taken back.
LEMMA PendsOn ==
    ASSUME SeenInv, [Next]_vars,
           NEW h \in Hosts, NEW s \in Sessions, NEW w \in Workers, NEW t,
           t = touched[h][<<Owner[s], s>>], t # 0, Pends(w, h, s, t)
    PROVE  \/ Pends(w, h, s, t)'
           \/ Stands(s, t)'
           \/ touched'[h][<<Owner[s], s>>] = 0
<1>0. /\ TypeOK /\ CallInv /\ DatedCall(w) /\ CallTyped(req[w])
      /\ req[w].host = h /\ Key(w) = <<Owner[s], s>> /\ req[w].at = t
      /\ req[w].session = s /\ req[w].subject = Owner[s]
      /\ <<Owner[s], s>> \in Keys
      /\ req[w].pc \in {"select", "insert", "release"}
  BY TypedCall, OwnKey DEF SeenInv, CallInv, Pends, Key
<1>1. CASE req'[w] = req[w]
  BY <1>0, <1>1 DEF Pends, Key
<1>2. CASE Release(w)
  BY <1>0, <1>2 DEF Release, TypeOK
<1>3. ASSUME TouchSelect(w), Finish(w)
      PROVE  Stands(s, t)'
  <2>1. session[s] # "live" /\ session' = session
    <3>1. req'[w].pc = "idle"
      BY <1>0, <1>3, IdleFacts DEF Finish, TypeOK
    <3>2. req' # [req EXCEPT ![w].pc = "insert", ![w].stamp = now]
      BY <1>0, <3>1 DEF TypeOK, Request
    <3> QED
      BY <1>0, <1>3, <3>2 DEF TouchSelect
  <2> QED
    BY <2>1 DEF Stands
<1>4. ASSUME TouchInsert(w)
      PROVE  Stands(s, t)'
  <2>1. CASE ~Referenced(s)
    BY <1>0, <1>4, <2>1 DEF TouchInsert, Referenced, Stands
  <2>2. CASE seen' = [seen EXCEPT ![s] = Noted(s, req[w].stamp)]
    <3>1. /\ req[w].stamp \in Nat /\ req[w].stamp # 0
          /\ t \in Nat /\ t <= req[w].stamp
      BY <1>0, <1>4 DEF TouchInsert, At, DatedCall, CallTyped, Request
    <3>2. seen'[s] = Noted(s, req[w].stamp)
      BY <1>0, <2>2 DEF TypeOK
    <3>3. /\ seen'[s] \in Nat /\ seen'[s] # 0
          /\ req[w].stamp <= seen'[s] + Throttle
      BY <1>0, <3>1, <3>2, NotedFacts
    <3> QED
      BY <3>1, <3>3, ThrottleAssumption DEF Stands
  <2> QED
    BY <1>0, <1>4, <2>1, <2>2 DEF TouchInsert
<1>5. ASSUME NEW g \in Hosts, Restart(g)
      PROVE  \/ touched'[h][<<Owner[s], s>>] = 0
             \/ req'[w] = req[w]
  BY <1>0, <1>5 DEF Restart, TypeOK
<1>6. ASSUME NEW v \in Workers, v # w, WorkerStep(v)
      PROVE  req'[w] = req[w]
  <2>1. PICK q \in Request : req' = [req EXCEPT ![v] = q]
    BY <1>0, <1>6, WorkerMoves
  <2> QED
    BY <1>0, <1>6, <2>1 DEF TypeOK
<1>7. CASE WorkerStep(w)
  <2>1. CASE TouchSelect(w)
    <3>1. CASE Finish(w)
      BY <1>3, <2>1, <3>1
    <3>2. CASE ~Finish(w)
      <4>1. req' = [req EXCEPT ![w].pc = "insert", ![w].stamp = now]
        BY <2>1, <3>2 DEF TouchSelect
      <4>2. /\ req'[w].pc = "insert" /\ req'[w].host = req[w].host
            /\ req'[w].subject = req[w].subject
            /\ req'[w].session = req[w].session /\ req'[w].at = req[w].at
        BY <1>0, <4>1 DEF TypeOK, Request
      <4> QED
        BY <1>0, <4>2 DEF Pends, Key
    <3> QED
      BY <3>1, <3>2
  <2>2. CASE TouchFails(w)
    <3>1. /\ req'[w].pc = "release" /\ req'[w].host = req[w].host
          /\ req'[w].subject = req[w].subject
          /\ req'[w].session = req[w].session /\ req'[w].at = req[w].at
      BY <1>0, <2>2 DEF TouchFails, Goto, TypeOK, Request
    <3> QED
      BY <1>0, <3>1 DEF Pends, Key
  <2> QED
    BY <1>0, <1>2, <1>4, <1>7, <2>1, <2>2
       DEF WorkerStep, CallTouch, Claim, At
<1>8. CASE req' = req
  BY <1>1, <1>8
<1> QED
  BY <1>1, <1>5, <1>6, <1>7, <1>8
     DEF Next, vars, End, RunOut, Tick, WorkerStep

LEMMA NextBacked ==
    ASSUME SeenInv, [Next]_vars
    PROVE  ClaimIsBacked'
<1> SUFFICES ASSUME NEW h \in Hosts, NEW s \in Sessions,
                    touched'[h][<<Owner[s], s>>] # 0
             PROVE  \/ \E w \in Workers :
                          Pends(w, h, s, touched[h][<<Owner[s], s>>])'
                    \/ Stands(s, touched[h][<<Owner[s], s>>])'
  BY DEF ClaimIsBacked, Pends, Stands
<1> DEFINE k == <<Owner[s], s>>
<1>1. k \in Keys /\ EntryStep(h, k) /\ TypeOK /\ CallInv
  BY OwnKey, EntrySteps DEF SeenInv
<1>2. CASE touched'[h][k] = touched[h][k]
  <2>1. PICK t \in Nat : t = touched[h][k]
    BY <1>1 DEF TypeOK
  <2>2. (\E w \in Workers : Pends(w, h, s, t)) \/ Stands(s, t)
    BY <1>2, <2>1, BackedParts DEF SeenInv
  <2>3. CASE Stands(s, t)
    <3>1. Stands(s, t)'
      BY <1>1, <2>3, StandsOn
    <3> QED
      BY <1>2, <2>1, <3>1 DEF Stands
  <2>4. ASSUME NEW w \in Workers, Pends(w, h, s, t)
        PROVE  Pends(w, h, s, t)' \/ Stands(s, t)'
    BY <1>2, <2>1, <2>4, PendsOn
  <2> QED
    BY <1>2, <2>1, <2>2, <2>3, <2>4 DEF Stands, Pends
<1>3. ASSUME NEW w \in Workers, At(w, "claim"), req[w].host = h, Key(w) = k,
             touched'[h][k] = req[w].at, Goto(w, "select")
      PROVE  Pends(w, h, s, touched[h][k])'
  <2>1. /\ req'[w].pc = "select" /\ req'[w].host = req[w].host
        /\ req'[w].subject = req[w].subject
        /\ req'[w].session = req[w].session /\ req'[w].at = req[w].at
    BY <1>1, <1>3 DEF Goto, TypeOK, Request
  <2> QED
    BY <1>3, <2>1 DEF Pends, Key
<1> QED
  BY <1>1, <1>2, <1>3 DEF EntryStep

LEMMA NextInv == SeenInv /\ [Next]_vars => SeenInv'
  BY NextTyped, NextCalls, NextRows, NextBacked DEF SeenInv

LEMMA SpecInv == Spec => []SeenInv
  BY InitInv, NextInv, PTL DEF Spec

-----------------------------------------------------------------------------
(* Theorems.                                                               *)

\* Every state the hosts and the database can reach is of the declared types.
THEOREM SeenTypeCorrect == Spec => []TypeOK
<1>1. SeenInv => TypeOK
  BY DEF SeenInv
<1> QED
  BY <1>1, SpecInv, PTL

\* No touch leaves a row for a session that is gone: the end function's cascade
\* and the foreign key between them, in whatever order the statements land.
THEOREM SeenRowReferred == Spec => []NoRowWithoutSession
<1>1. SeenInv => NoRowWithoutSession
  BY DEF SeenInv
<1> QED
  BY <1>1, SpecInv, PTL

\* LastSeen.Touch throttles only for a claim the database carried out or a call
\* under way may still: failures, sweeps, restarts and late readings of any
\* number of hosts never leave a live session unseen behind a claim.
THEOREM SeenClaimBacked == Spec => []ClaimIsBacked
<1>1. SeenInv => ClaimIsBacked
  BY DEF SeenInv
<1> QED
  BY <1>1, SpecInv, PTL

\* The upsert moves a row forward by more than the throttle's width, or not at
\* all, so hosts that race on a session write its row once.
THEOREM SeenMovesForward == Spec => SeenMovesOn
<1>1. SeenInv /\ [Next]_vars =>
        [\A s \in Sessions : seen[s] # 0 /\ seen'[s] \notin {0, seen[s]} =>
            seen'[s] > seen[s] + Throttle]_vars
  <2> SUFFICES ASSUME SeenInv, [Next]_vars, NEW s \in Sessions,
                      seen[s] # 0, seen'[s] \notin {0, seen[s]}
               PROVE  seen'[s] > seen[s] + Throttle
    OBVIOUS
  <2>1. PICK w \in Workers : /\ At(w, "insert") /\ req[w].session = s
                             /\ seen'[s] = Noted(s, req[w].stamp)
    BY RowSteps DEF SeenInv, RowStep
  <2>2. req[w].stamp \in Nat /\ req[w].stamp # 0
    BY <2>1, TypedCall DEF SeenInv, At, CallTyped, Request, CallInv, DatedCall
  <2> QED
    BY <2>1, <2>2, NotedFacts DEF SeenInv
<1> QED
  BY <1>1, SpecInv, PTL DEF Spec, SeenMovesOn

=============================================================================
