------------------------- MODULE OperatorDoor_proofs -------------------------
(***************************************************************************)
(* Theorems about the console's sign-in, for any addresses, members,       *)
(* passwords and workers, any lock-out and any bound on the clock.         *)
(***************************************************************************)
EXTENDS OperatorDoor, TLAPS

-----------------------------------------------------------------------------
(* Lemmas about the lock-out arithmetic.                                   *)

\* A row leaves its address no tries exactly when it carries a lock.
Honest(a) == a.failed >= LockAfter <=> a.lockedUntil # 0

\* A failure turns an honest row into an honest row, whose lock, if it carries
\* one, was there before or lasts LockFor from the reading.
LEMMA FailFacts ==
    ASSUME NEW a \in Attempt, NEW t \in Nat, Honest(a)
    PROVE  /\ Fail(a, t) \in Attempt
           /\ Honest(Fail(a, t))
           /\ Fail(a, t).lockedUntil \in {0, a.lockedUntil, t + LockFor}
<1> DEFINE expired == a.lockedUntil # 0 /\ ~Locked(a, t)
           n == IF expired THEN 1 ELSE a.failed + 1
           until == IF expired THEN 0 ELSE a.lockedUntil
<1>1. /\ n \in Nat /\ until \in Nat /\ t + LockFor \in Nat \ {0}
      /\ n < LockAfter => until = 0
  BY LockAfterAssumption, LockForAssumption DEF Attempt, Honest, Locked
<1>2. until \in {0, a.lockedUntil}
  OBVIOUS
<1> HIDE DEF n, until, expired
<1>3. Fail(a, t) = [failed |-> n,
         lockedUntil |-> IF n >= LockAfter THEN t + LockFor ELSE until]
  BY DEF Fail, n, until, expired
<1> QED
  BY <1>1, <1>2, <1>3, LockAfterAssumption DEF Attempt, Honest

\* A failure of a row that is not barred counts up to LockAfter and then bars.
LEMMA FailInTurn ==
    ASSUME NEW a \in Attempt, NEW t \in Nat, Honest(a), ~Locked(a, t)
    PROVE  LET n == IF a.lockedUntil = 0 THEN a.failed + 1 ELSE 1
           IN  /\ n <= LockAfter
               /\ Fail(a, t).failed = n
               /\ Fail(a, t).lockedUntil =
                    IF n = LockAfter THEN t + LockFor ELSE 0
  BY LockAfterAssumption, LockForAssumption
     DEF Attempt, Honest, Locked, Fail

LEMMA NoAttemptFacts ==
    /\ NoAttempt \in Attempt
    /\ NoAttempt.failed = 0 /\ NoAttempt.lockedUntil = 0
    /\ Honest(NoAttempt)
  BY LockAfterAssumption DEF NoAttempt, Attempt, Honest

-----------------------------------------------------------------------------
(* The invariant.                                                          *)

\* The points of a sign-in that has yet to count.
Counting == {"attempt", "verifier", "failRead", "failWrite", "clear"}

\* A call carries what it was made with.
CallInv ==
    /\ \A e \in Addresses : HasCredential(e) => cred[e].passwordHash \in Passwords
    /\ \A w \in Workers :
         /\ ~At(w, "idle") => req[w].password \in Passwords
         /\ req[w].pc \in {"changeVerifier", "setPassword"} =>
              req[w].new \in Passwords /\ req[w].caller \in Members
         /\ req[w].at <= now

\* What opens the address of a call is among what may have opened it, and a
\* call past its verifier has named one of these, for the credential's member.
EarnedCall(w) ==
    /\ req[w].pc # "idle" => OpenedBy(cred[req[w].email]) \subseteq valid[w]
    /\ req[w].pc \in {"clear", "mint"} =>
         /\ req[w].password \in valid[w]
         /\ req[w].subject \in Members
         /\ req[w].subject = cred[req[w].email].subject
    /\ req[w].pc = "setPassword" =>
         /\ req[w].password \in valid[w]
         /\ req[w].caller = cred[req[w].email].subject

EarnedMint(w) ==
    minted[w] # NoMint =>
       /\ minted[w].email \in Addresses
       /\ minted[w].subject \in Members
       /\ minted[w].password \in valid[w]
       /\ minted[w].subject = cred[minted[w].email].subject

EarnInv == \A w \in Workers : EarnedCall(w) /\ EarnedMint(w)

\* Every row, on the table or carried, is honest, and its bar is no further off
\* than LockFor.
Sound(a, t) == Honest(a) /\ a.lockedUntil <= t + LockFor

RowInv ==
    /\ \A e \in Addresses : Sound(attempt[e], now)
    /\ \A w \in Workers : Sound(req[w].current, now)

\* Where the sign-ins of an address did not overlap, the one under way knows
\* the row: it is not barred, and what was read of it is still there.
AloneInv ==
    \A w \in Workers : req[w].pc \in Counting /\ req[w].email \notin raced =>
       /\ \A v \in Workers \ {w} :
            req[v].pc \in Counting => req[v].email # req[w].email
       /\ req[w].pc # "attempt" => ~Locked(attempt[req[w].email], req[w].at)
       /\ req[w].pc = "failWrite" => req[w].current = attempt[req[w].email]

\* A sign-in that came in under a lock which stands has yet to read it, and is
\* barred by it whenever it does, as it judges by its one reading of the clock.
ShutInv ==
    \A w \in shut :
       /\ At(w, "attempt")
       /\ Locked(attempt[req[w].email], req[w].at)

DoorInv == TypeOK /\ CallInv /\ EarnInv /\ RowInv /\ AloneInv /\ ShutInv

-----------------------------------------------------------------------------
(* What a step does to the calls.                                          *)

LEMMA IdleFacts ==
    /\ Idle \in Request
    /\ Idle.pc = "idle" /\ Idle.at = 0 /\ Idle.current = NoAttempt
  BY NoAttemptFacts DEF Idle, Request, Points

\* A call goes on to q: it is over, or it has passed one statement.
Onward(w, q) ==
    \/ q = Idle
    \/ /\ q.email = req[w].email
       /\ q.password = req[w].password
       /\ q.new = req[w].new
       /\ q.caller = req[w].caller
       /\ q.at = req[w].at
       /\ \/ /\ At(w, "attempt") /\ q.pc = "verifier"
             /\ ~Locked(attempt[req[w].email], req[w].at)
             /\ q.current = req[w].current
          \/ /\ At(w, "verifier") /\ q.pc = "failRead"
             /\ q.current = req[w].current
          \/ /\ At(w, "verifier") /\ q.pc = "clear"
             /\ Matches(req[w].email, req[w].password)
             /\ q.subject = cred[req[w].email].subject
             /\ q.current = req[w].current
          \/ /\ At(w, "failRead") /\ q.pc = "failWrite"
             /\ q.current = attempt[req[w].email]
          \/ /\ At(w, "clear") /\ q.pc = "mint"
             /\ q.subject = req[w].subject
             /\ q.current = req[w].current
          \/ /\ At(w, "changeVerifier") /\ q.pc = "setPassword"
             /\ Matches(req[w].email, req[w].password)
             /\ cred[req[w].email].subject = req[w].caller
             /\ q.current = req[w].current

LEMMA StepsOnward ==
    ASSUME TypeOK, NEW w \in Workers, Step(w) \/ Abandon(w)
    PROVE  /\ ~At(w, "idle")
           /\ \E q \in Request : req' = [req EXCEPT ![w] = q] /\ Onward(w, q)
<1>0. ~At(w, "idle")
  BY DEF Step, Abandon, ReadAttempt, ReadVerifier, FailRead, FailWrite, Clear,
         Mint, ChangeReadVerifier, SetPassword, At
<1>1. /\ req[w] \in Request
      /\ req[w].email \in Addresses
      /\ cred[req[w].email].subject \in Members \cup {None}
      /\ attempt[req[w].email] \in Attempt
  BY <1>0 DEF TypeOK, At, Credential
<1>2. ASSUME Finish(w)
      PROVE  \E q \in Request : req' = [req EXCEPT ![w] = q] /\ Onward(w, q)
  BY <1>2, IdleFacts DEF Finish, Onward
<1>3. ASSUME NEW p \in Points, Goto(w, p)
      PROVE  \E q \in Request : /\ req' = [req EXCEPT ![w] = q]
                               /\ q = [req[w] EXCEPT !.pc = p]
  BY <1>1, <1>3 DEF Goto, Request, TypeOK
<1>4. CASE ReadAttempt(w)
  <2>1. CASE Goto(w, "verifier") /\ ~Locked(attempt[req[w].email], req[w].at)
    <3>1. "verifier" \in Points
      BY DEF Points
    <3>2. PICK q \in Request : /\ req' = [req EXCEPT ![w] = q]
                              /\ q = [req[w] EXCEPT !.pc = "verifier"]
      BY <1>3, <2>1, <3>1
    <3> QED
      BY <1>0, <1>1, <1>4, <2>1, <3>2 DEF Onward, ReadAttempt, At, Request
  <2> QED
    BY <1>0, <1>2, <1>4, <2>1 DEF ReadAttempt
<1>5. CASE ReadVerifier(w)
  <2>1. CASE Goto(w, "failRead")
    <3>1. "failRead" \in Points
      BY DEF Points
    <3>2. PICK q \in Request : /\ req' = [req EXCEPT ![w] = q]
                              /\ q = [req[w] EXCEPT !.pc = "failRead"]
      BY <1>3, <2>1, <3>1
    <3> QED
      BY <1>0, <1>1, <1>5, <2>1, <3>2 DEF Onward, ReadVerifier, At, Request
  <2>2. ASSUME Matches(req[w].email, req[w].password),
               req' = [req EXCEPT ![w].pc = "clear",
                                  ![w].subject = cred[req[w].email].subject]
        PROVE  \E q \in Request : req' = [req EXCEPT ![w] = q] /\ Onward(w, q)
    <3> DEFINE q == [req[w] EXCEPT !.pc = "clear",
                                   !.subject = cred[req[w].email].subject]
    <3>1. req' = [req EXCEPT ![w] = q]
      BY <2>2, <1>1 DEF TypeOK, Request
    <3>2. /\ q \in Request
          /\ q.pc = "clear" /\ q.subject = cred[req[w].email].subject
          /\ q.email = req[w].email /\ q.password = req[w].password
          /\ q.new = req[w].new /\ q.caller = req[w].caller
          /\ q.at = req[w].at /\ q.current = req[w].current
      BY <1>1 DEF Request, Points
    <3> HIDE DEF q
    <3> QED
      BY <1>0, <1>5, <2>2, <3>1, <3>2 DEF Onward, ReadVerifier
  <2> QED
    BY <1>0, <1>5, <2>1, <2>2 DEF ReadVerifier
<1>6. CASE FailRead(w)
  <2> DEFINE q == [req[w] EXCEPT !.pc = "failWrite",
                                 !.current = attempt[req[w].email]]
  <2>1. req' = [req EXCEPT ![w] = q]
    BY <1>6, <1>1 DEF FailRead, TypeOK, Request
  <2>2. /\ q \in Request
        /\ q.pc = "failWrite" /\ q.current = attempt[req[w].email]
        /\ q.email = req[w].email /\ q.password = req[w].password
        /\ q.new = req[w].new /\ q.caller = req[w].caller
        /\ q.at = req[w].at
    BY <1>1 DEF Request, Points
  <2> HIDE DEF q
  <2> QED
    BY <1>0, <1>6, <2>1, <2>2 DEF Onward, FailRead
<1>7. CASE Clear(w)
  <2>1. "mint" \in Points
    BY DEF Points
  <2>2. PICK q \in Request : /\ req' = [req EXCEPT ![w] = q]
                            /\ q = [req[w] EXCEPT !.pc = "mint"]
    BY <1>3, <1>7, <2>1 DEF Clear
  <2> QED
    BY <1>0, <1>1, <1>7, <2>2 DEF Onward, Clear, At, Request
<1>8. CASE ChangeReadVerifier(w)
  <2>1. ASSUME Goto(w, "setPassword"),
               Matches(req[w].email, req[w].password),
               cred[req[w].email].subject = req[w].caller
        PROVE  \E q \in Request : req' = [req EXCEPT ![w] = q] /\ Onward(w, q)
    <3>1. "setPassword" \in Points
      BY DEF Points
    <3>2. PICK q \in Request : /\ req' = [req EXCEPT ![w] = q]
                              /\ q = [req[w] EXCEPT !.pc = "setPassword"]
      BY <1>3, <2>1, <3>1
    <3> QED
      BY <1>0, <1>1, <1>8, <2>1, <3>2
         DEF Onward, ChangeReadVerifier, At, Request
  <2> QED
    BY <1>0, <1>2, <1>8, <2>1 DEF ChangeReadVerifier
<1> QED
  BY <1>0, <1>2, <1>4, <1>5, <1>6, <1>7, <1>8
     DEF Step, Abandon, FailWrite, Mint, SetPassword

\* A call that came in at an idle worker.
Opened(w, q) ==
    /\ q.email \in Addresses
    /\ q.password \in Passwords
    /\ q.current = NoAttempt
    /\ \/ q.pc = "attempt" /\ q.at = now
       \/ /\ q.pc = "changeVerifier" /\ q.at = 0
          /\ q.new \in Passwords /\ q.caller \in Members

LEMMA CallsOpened ==
    ASSUME TypeOK, NEW w \in Workers, CallSignIn(w) \/ CallChangePassword(w)
    PROVE  \E q \in Request : Arrive(w, q) /\ Opened(w, q)
<1>1. CASE CallSignIn(w)
  <2>1. PICK e \in Addresses, p \in Passwords :
          Arrive(w, [Idle EXCEPT !.pc = "attempt", !.email = e,
                                 !.password = p, !.at = now])
    BY <1>1 DEF CallSignIn
  <2> DEFINE q == [Idle EXCEPT !.pc = "attempt", !.email = e,
                               !.password = p, !.at = now]
  <2>2. /\ q \in Request
        /\ q.pc = "attempt" /\ q.email = e /\ q.password = p /\ q.at = now
        /\ q.current = NoAttempt
    BY NoAttemptFacts DEF Idle, Request, Points, TypeOK
  <2> HIDE DEF q
  <2> QED
    BY <2>1, <2>2 DEF Opened, q
<1>2. CASE CallChangePassword(w)
  <2>1. PICK e \in Addresses, p \in Passwords, n \in Passwords, m \in Members :
          Arrive(w, [Idle EXCEPT !.pc = "changeVerifier", !.email = e,
                                 !.password = p, !.new = n, !.caller = m])
    BY <1>2 DEF CallChangePassword
  <2> DEFINE q == [Idle EXCEPT !.pc = "changeVerifier", !.email = e,
                               !.password = p, !.new = n, !.caller = m]
  <2>2. /\ q \in Request
        /\ q.pc = "changeVerifier" /\ q.email = e /\ q.password = p
        /\ q.new = n /\ q.caller = m /\ q.at = 0
        /\ q.current = NoAttempt
    BY NoAttemptFacts DEF Idle, Request, Points
  <2> HIDE DEF q
  <2> QED
    BY <2>1, <2>2 DEF Opened, q
<1> QED
  BY <1>1, <1>2

-----------------------------------------------------------------------------
(* Types, and what a call carries.                                         *)

CarriesInv == TypeOK /\ CallInv

\* A worker's call moved to q, and the clock did not move.
LEMMA CallCarries ==
    ASSUME CarriesInv, NEW w \in Workers, NEW q \in Request,
           req' = [req EXCEPT ![w] = q], now' = now,
           q = Idle \/ Opened(w, q) \/ (~At(w, "idle") /\ Onward(w, q))
    PROVE  /\ req' \in [Workers -> Request]
           /\ \A v \in Workers : req'[v].pc # "idle" => req'[v].email \in Addresses
           /\ \A v \in Workers :
                 /\ req'[v].pc # "idle" => req'[v].password \in Passwords
                 /\ req'[v].pc \in {"changeVerifier", "setPassword"} =>
                      req'[v].new \in Passwords /\ req'[v].caller \in Members
                 /\ req'[v].at <= now'
<1> USE DEF CarriesInv, TypeOK, CallInv, At
<1>1. /\ q.pc # "idle" => q.email \in Addresses /\ q.password \in Passwords
      /\ q.pc \in {"changeVerifier", "setPassword"} =>
           q.new \in Passwords /\ q.caller \in Members
      /\ q.at <= now
  <2>1. CASE q = Idle
    BY <2>1, IdleFacts
  <2>2. CASE Opened(w, q)
    BY <2>2 DEF Opened
  <2>3. CASE ~At(w, "idle") /\ Onward(w, q) /\ q # Idle
    BY <2>3 DEF Onward
  <2> QED
    BY <2>1, <2>2, <2>3
<1>2. \A v \in Workers : req'[v] = IF v = w THEN q ELSE req[v]
  OBVIOUS
<1> QED
  BY <1>1, <1>2

\* What the statements of the credential table leave on it.
LEMMA HashType ==
    ASSUME CarriesInv, NEW e \in Addresses, NEW h \in Passwords, SetHash(e, h)
    PROVE  /\ cred' \in [Addresses -> Credential]
           /\ \A f \in Addresses :
                 /\ cred'[f].subject = cred[f].subject
                 /\ cred'[f].disabledAt = cred[f].disabledAt
                 /\ cred'[f].passwordHash = IF f = e THEN h
                                                   ELSE cred[f].passwordHash
  BY DEF CarriesInv, TypeOK, SetHash, Credential

LEMMA WithdrawType ==
    ASSUME CarriesInv, NEW e \in Addresses, NEW at \in Nat, Withdraw(e, at)
    PROVE  /\ cred' \in [Addresses -> Credential]
           /\ \A f \in Addresses :
                 /\ cred'[f].subject = cred[f].subject
                 /\ cred'[f].passwordHash = cred[f].passwordHash
                 /\ Disabled(f) => cred'[f].disabledAt = cred[f].disabledAt
<1> DEFINE d == IF Disabled(e) THEN cred[e].disabledAt ELSE at
<1>1. cred[e] \in Credential /\ d \in Nat
  BY DEF CarriesInv, TypeOK, Credential
<1>2. cred' = [cred EXCEPT ![e] = [cred[e] EXCEPT !.disabledAt = d]]
  BY DEF Withdraw, CarriesInv, TypeOK
<1>3. Disabled(e) => d = cred[e].disabledAt
  OBVIOUS
<1> HIDE DEF d
<1> QED
  BY <1>1, <1>2, <1>3 DEF CarriesInv, TypeOK, Credential

LEMMA CreateType ==
    ASSUME CarriesInv, NEW e \in Addresses, Create(e)
    PROVE  /\ ~HasCredential(e)
           /\ cred' \in [Addresses -> Credential]
           /\ cred'[e].subject \in Members
           /\ cred'[e].passwordHash \in Passwords
           /\ cred'[e].disabledAt = cred[e].disabledAt
           /\ \A f \in Addresses \ {e} : cred'[f] = cred[f]
<1>1. PICK m \in Members, p \in Passwords :
        cred' = [cred EXCEPT ![e].subject = m, ![e].passwordHash = p]
  BY DEF Create
<1>2. cred[e] \in Credential
  BY DEF CarriesInv, TypeOK
<1>3. cred' = [cred EXCEPT ![e] = [cred[e] EXCEPT !.subject = m,
                                                 !.passwordHash = p]]
  BY <1>1, <1>2 DEF CarriesInv, TypeOK, Credential
<1> QED
  BY <1>2, <1>3 DEF Create, CarriesInv, TypeOK, Credential

LEMMA OpenedByType ==
    ASSUME CarriesInv, NEW e \in Addresses
    PROVE  OpenedBy(cred[e]) \in SUBSET Passwords
  BY DEF CarriesInv, CallInv, OpenedBy, HasCredential

\* The opening password is a password after Widen too.
LEMMA WidenType ==
    ASSUME CarriesInv, Widen,
           \A e \in Addresses :
              cred'[e].subject # None => cred'[e].passwordHash \in Passwords
    PROVE  /\ valid' \in [Workers -> SUBSET Passwords]
           /\ \A w \in Workers :
                 /\ valid[w] \subseteq valid'[w]
                 /\ ~At(w, "idle") =>
                      OpenedBy(cred'[req[w].email]) \subseteq valid'[w]
<1>1. \A e \in Addresses : OpenedBy(cred'[e]) \in SUBSET Passwords
  BY DEF OpenedBy
<1>2. \A w \in Workers : ~At(w, "idle") => req[w].email \in Addresses
  BY DEF CarriesInv, TypeOK, At
<1> QED
  BY <1>1, <1>2 DEF Widen, CarriesInv, TypeOK

\* Disable withdraws the credential as of a reading of the clock.
LEMMA DisableType ==
    ASSUME CarriesInv, NEW e \in Addresses, Disable(e)
    PROVE  /\ cred' \in [Addresses -> Credential]
           /\ \A f \in Addresses :
                 /\ cred'[f].subject = cred[f].subject
                 /\ cred'[f].passwordHash = cred[f].passwordHash
                 /\ Disabled(f) => cred'[f].disabledAt = cred[f].disabledAt
<1>1. PICK at \in 1 .. now : Withdraw(e, at)
  BY DEF Disable
<1>2. at \in Nat
  BY DEF CarriesInv, TypeOK
<1> QED
  BY <1>1, <1>2, WithdrawType

LEMMA InitCarries == Init => CarriesInv
<1>1. NoCredential \in Credential /\ NoCredential.subject = None
  BY DEF NoCredential, Credential
<1>2. NoMint \in Mints
  BY DEF NoMint, Mints
<1> QED
  BY <1>1, <1>2, IdleFacts, NoAttemptFacts
     DEF Init, CarriesInv, TypeOK, CallInv, HasCredential, At

LEMMA ArriveCarries ==
    ASSUME CarriesInv, NEW w \in Workers, CallSignIn(w) \/ CallChangePassword(w)
    PROVE  CarriesInv'
<1>1. PICK q \in Request : Arrive(w, q) /\ Opened(w, q)
  BY CallsOpened DEF CarriesInv
<1>2. UNCHANGED <<now, cred, attempt>> /\ req' = [req EXCEPT ![w] = q]
  BY <1>1 DEF Arrive
<1>3. minted' \in [Workers -> Mints]
  BY <1>1 DEF Arrive, CarriesInv, TypeOK, NoMint, Mints
<1>4. valid' \in [Workers -> SUBSET Passwords]
  <2>1. OpenedBy(cred[q.email]) \in SUBSET Passwords
    BY <1>1, OpenedByType DEF Opened
  <2> QED
    BY <1>1, <2>1 DEF Arrive, CarriesInv, TypeOK
<1>5. raced' \subseteq Addresses /\ shut' \subseteq Workers
  BY DEF CallSignIn, CallChangePassword, CarriesInv, TypeOK
<1> QED
  BY <1>1, <1>2, <1>3, <1>4, <1>5, CallCarries
     DEF CarriesInv, TypeOK, CallInv, HasCredential, At

LEMMA StepCarries ==
    ASSUME CarriesInv, RowInv, NEW w \in Workers, Step(w) \/ Abandon(w)
    PROVE  CarriesInv'
<1>1. PICK q \in Request : req' = [req EXCEPT ![w] = q] /\ Onward(w, q)
  BY StepsOnward DEF CarriesInv
<1>2. /\ ~At(w, "idle")
      /\ req[w].email \in Addresses
      /\ req[w] \in Request
      /\ req[w].password \in Passwords
  BY StepsOnward DEF CarriesInv, TypeOK, CallInv, At
<1>3. now' = now
  BY DEF Step, Abandon, ReadAttempt, ReadVerifier, FailRead, FailWrite, Clear,
         Mint, ChangeReadVerifier, SetPassword
<1>4. /\ req' \in [Workers -> Request]
      /\ \A v \in Workers : req'[v].pc # "idle" => req'[v].email \in Addresses
      /\ \A v \in Workers :
           /\ req'[v].pc # "idle" => req'[v].password \in Passwords
           /\ req'[v].pc \in {"changeVerifier", "setPassword"} =>
                req'[v].new \in Passwords /\ req'[v].caller \in Members
           /\ req'[v].at <= now'
  BY <1>1, <1>2, <1>3, CallCarries
<1>5. attempt' \in [Addresses -> Attempt]
  <2>1. CASE FailWrite(w)
    <3>1. Fail(req[w].current, req[w].at) \in Attempt
      BY <1>2, FailFacts DEF Request, RowInv, Sound
    <3> QED
      BY <2>1, <3>1 DEF FailWrite, CarriesInv, TypeOK
  <2>2. CASE Clear(w)
    BY <2>2, NoAttemptFacts DEF Clear, CarriesInv, TypeOK
  <2>3. CASE attempt' = attempt
    BY <2>3 DEF CarriesInv, TypeOK
  <2> QED
    BY <2>1, <2>2, <2>3
       DEF Step, Abandon, ReadAttempt, ReadVerifier, FailRead, Mint,
           ChangeReadVerifier, SetPassword
<1>6. minted' \in [Workers -> Mints]
  <2>1. CASE Mint(w)
    BY <1>2, <2>1 DEF Mint, Mints, Request, CarriesInv, TypeOK
  <2>2. CASE minted' = minted
    BY <2>2 DEF CarriesInv, TypeOK
  <2> QED
    BY <2>1, <2>2
       DEF Step, Abandon, ReadAttempt, ReadVerifier, FailRead, FailWrite,
           Clear, ChangeReadVerifier, SetPassword
<1>7. raced' \subseteq Addresses /\ shut' \subseteq Workers
  BY DEF Step, Abandon, ReadAttempt, ReadVerifier, FailRead, FailWrite, Reopen,
         Clear, Mint, ChangeReadVerifier, SetPassword, CarriesInv, TypeOK
<1>8. /\ cred' \in [Addresses -> Credential]
      /\ valid' \in [Workers -> SUBSET Passwords]
      /\ \A e \in Addresses :
           cred'[e].subject # None => cred'[e].passwordHash \in Passwords
  <2>1. CASE SetPassword(w)
    <3>1. req[w].new \in Passwords /\ SetHash(req[w].email, req[w].new)
      BY <2>1 DEF SetPassword, CarriesInv, CallInv, At
    <3>2. /\ cred' \in [Addresses -> Credential]
          /\ \A e \in Addresses :
               cred'[e].subject # None => cred'[e].passwordHash \in Passwords
      BY <1>2, <3>1, HashType DEF CarriesInv, CallInv, HasCredential
    <3> QED
      BY <2>1, <3>2, WidenType DEF SetPassword
  <2>2. CASE UNCHANGED <<cred, valid>>
    BY <2>2 DEF CarriesInv, TypeOK, CallInv, HasCredential
  <2> QED
    BY <2>1, <2>2
       DEF Step, Abandon, ReadAttempt, ReadVerifier, FailRead, FailWrite,
           Clear, Mint, ChangeReadVerifier
<1> QED
  BY <1>3, <1>4, <1>5, <1>6, <1>7, <1>8
     DEF CarriesInv, TypeOK, CallInv, HasCredential, At

LEMMA CredentialCarries ==
    ASSUME CarriesInv, NEW e \in Addresses, Disable(e) \/ Create(e)
    PROVE  CarriesInv'
<1>1. CASE Disable(e)
  <2>1. /\ cred' \in [Addresses -> Credential]
        /\ \A f \in Addresses :
             /\ cred'[f].subject = cred[f].subject
             /\ cred'[f].passwordHash = cred[f].passwordHash
    BY <1>1, DisableType
  <2> QED
    BY <1>1, <2>1 DEF Disable, CarriesInv, TypeOK, CallInv, HasCredential, At
<1>2. CASE Create(e)
  <2>1. /\ cred' \in [Addresses -> Credential]
        /\ \A f \in Addresses :
             cred'[f].subject # None => cred'[f].passwordHash \in Passwords
    BY <1>2, CreateType DEF CarriesInv, CallInv, HasCredential
  <2>2. valid' \in [Workers -> SUBSET Passwords]
    BY <1>2, <2>1, WidenType DEF Create
  <2> QED
    BY <1>2, <2>1, <2>2 DEF Create, CarriesInv, TypeOK, CallInv, HasCredential, At
<1> QED
  BY <1>1, <1>2

LEMMA NextCarries == CarriesInv /\ RowInv /\ [Next]_vars => CarriesInv'
<1> SUFFICES ASSUME CarriesInv, RowInv, [Next]_vars PROVE CarriesInv'
  OBVIOUS
<1>1. CASE UNCHANGED vars
  BY <1>1 DEF vars, CarriesInv, TypeOK, CallInv, HasCredential, At
<1>2. CASE Tick
  BY <1>2 DEF Tick, CarriesInv, TypeOK, CallInv, HasCredential, At, Request
<1> QED
  BY <1>1, <1>2, ArriveCarries, StepCarries, CredentialCarries DEF Next

-----------------------------------------------------------------------------
(* A session is earned.                                                    *)

LEMMA MatchesOpens ==
    ASSUME TypeOK, NEW e \in Addresses, NEW p \in Passwords, Matches(e, p)
    PROVE  p \in OpenedBy(cred[e]) /\ cred[e].subject \in Members
  BY DEF Matches, HasCredential, Disabled, Verify, OpenedBy, TypeOK, Credential

LEMMA ArriveEarns ==
    ASSUME CarriesInv, EarnInv, NEW w \in Workers, NEW q \in Request,
           Arrive(w, q), Opened(w, q)
    PROVE  EarnInv'
<1>1. \A v \in Workers \ {w} : UNCHANGED <<req[v], minted[v], valid[v]>>
  BY DEF Arrive, CarriesInv, TypeOK
<1>2. /\ req'[w] = q
      /\ minted'[w] = NoMint
      /\ valid'[w] = OpenedBy(cred[q.email])
      /\ cred' = cred
  BY DEF Arrive, CarriesInv, TypeOK
<1>3. q.pc \in {"attempt", "changeVerifier"}
  BY DEF Opened
<1>4. EarnedCall(w)' /\ EarnedMint(w)'
  BY <1>2, <1>3 DEF EarnedCall, EarnedMint
<1>5. ASSUME NEW v \in Workers \ {w} PROVE EarnedCall(v)' /\ EarnedMint(v)'
  BY <1>1, <1>2 DEF EarnInv, EarnedCall, EarnedMint
<1> QED
  BY <1>4, <1>5 DEF EarnInv

\* A statement that leaves the credentials alone.
LEMMA OnwardEarns ==
    ASSUME CarriesInv, EarnInv, NEW w \in Workers, ~At(w, "idle"),
           NEW q \in Request, req' = [req EXCEPT ![w] = q], Onward(w, q),
           UNCHANGED <<cred, valid>>, minted' = minted \/ Mint(w)
    PROVE  EarnInv'
<1>1. \A v \in Workers \ {w} : UNCHANGED <<req[v], minted[v]>>
  BY DEF Mint, CarriesInv, TypeOK
<1>2. req'[w] = q
  BY DEF CarriesInv, TypeOK
<1>3. req[w].email \in Addresses /\ req[w].password \in Passwords
  BY DEF CarriesInv, TypeOK, CallInv, At
<1>4. EarnedCall(w)
  BY DEF EarnInv
<1>5. Matches(req[w].email, req[w].password) =>
         req[w].password \in valid[w] /\ cred[req[w].email].subject \in Members
  BY <1>3, <1>4, MatchesOpens DEF EarnedCall, CarriesInv, At
<1>6. EarnedCall(w)'
  <2>1. CASE q = Idle
    BY <1>2, <2>1, IdleFacts DEF EarnedCall
  <2>2. CASE q # Idle
    BY <1>2, <1>4, <1>5, <2>2 DEF EarnedCall, Onward, At
  <2> QED
    BY <2>1, <2>2
<1>7. EarnedMint(w)'
  <2>1. CASE Mint(w)
    <3>1. minted'[w] = [email |-> req[w].email, subject |-> req[w].subject,
                        password |-> req[w].password]
      BY <2>1 DEF Mint, CarriesInv, TypeOK
    <3>2. req[w].pc = "mint"
      BY <2>1 DEF Mint, At
    <3> QED
      BY <1>3, <1>4, <3>1, <3>2 DEF EarnedCall, EarnedMint
  <2>2. CASE minted' = minted
    BY <2>2 DEF EarnInv, EarnedMint
  <2> QED
    BY <2>1, <2>2
<1>8. ASSUME NEW v \in Workers \ {w} PROVE EarnedCall(v)' /\ EarnedMint(v)'
  BY <1>1 DEF EarnInv, EarnedCall, EarnedMint
<1> QED
  BY <1>6, <1>7, <1>8 DEF EarnInv

\* A change of the credentials that binds none to another member and is seen
\* by the calls it concerns.
LEMMA CredentialEarns ==
    ASSUME CarriesInv, EarnInv,
           \A e \in Addresses : HasCredential(e) => cred'[e].subject = cred[e].subject,
           \A w \in Workers :
              /\ valid[w] \subseteq valid'[w]
              /\ ~At(w, "idle") =>
                   OpenedBy(cred'[req[w].email]) \subseteq valid'[w],
           \A w \in Workers : req'[w] = req[w] \/ req'[w] = Idle,
           minted' = minted
    PROVE  EarnInv'
<1> SUFFICES ASSUME NEW w \in Workers PROVE EarnedCall(w)' /\ EarnedMint(w)'
  BY DEF EarnInv
<1>1. EarnedCall(w) /\ EarnedMint(w)
  BY DEF EarnInv
<1>2. EarnedMint(w)'
  BY <1>1, NoneIsNoValue DEF EarnedMint, HasCredential
<1>3. EarnedCall(w)'
  <2>1. CASE req'[w] = Idle
    BY <2>1, IdleFacts DEF EarnedCall
  <2>2. CASE req'[w] = req[w] /\ req[w].pc = "idle"
    BY <2>2 DEF EarnedCall
  <2>3. CASE req'[w] = req[w] /\ req[w].pc # "idle"
    <3>1. /\ req[w].email \in Addresses
          /\ req[w].pc = "setPassword" => req[w].caller \in Members
      BY <2>3 DEF CarriesInv, TypeOK, CallInv
    <3> QED
      BY <1>1, <2>3, <3>1, NoneIsNoValue DEF EarnedCall, HasCredential, At
  <2> QED
    BY <2>1, <2>2, <2>3
<1> QED
  BY <1>2, <1>3

LEMMA NextEarns == CarriesInv /\ EarnInv /\ [Next]_vars => EarnInv'
<1> SUFFICES ASSUME CarriesInv, EarnInv, [Next]_vars PROVE EarnInv'
  OBVIOUS
<1>1. CASE UNCHANGED vars \/ Tick
  BY <1>1 DEF vars, Tick, EarnInv, EarnedCall, EarnedMint
<1>2. ASSUME NEW w \in Workers, CallSignIn(w) \/ CallChangePassword(w)
      PROVE  EarnInv'
  BY <1>2, CallsOpened, ArriveEarns DEF CarriesInv
<1>3. ASSUME NEW w \in Workers, SetPassword(w)
      PROVE  EarnInv'
  <2>1. /\ req[w].email \in Addresses /\ req[w].new \in Passwords
        /\ SetHash(req[w].email, req[w].new)
        /\ req' = [req EXCEPT ![w] = Idle]
        /\ minted' = minted
    BY <1>3 DEF SetPassword, Finish, CarriesInv, TypeOK, CallInv, At
  <2>2. \A e \in Addresses :
          /\ cred'[e].subject = cred[e].subject
          /\ cred'[e].subject # None => cred'[e].passwordHash \in Passwords
    BY <2>1, HashType DEF CarriesInv, CallInv, HasCredential
  <2>3. \A v \in Workers : req'[v] = req[v] \/ req'[v] = Idle
    BY <2>1 DEF CarriesInv, TypeOK
  <2>4. \A v \in Workers :
           /\ valid[v] \subseteq valid'[v]
           /\ ~At(v, "idle") =>
                OpenedBy(cred'[req[v].email]) \subseteq valid'[v]
    BY <1>3, <2>2, WidenType DEF SetPassword
  <2> QED
    BY <2>1, <2>2, <2>3, <2>4, CredentialEarns
<1>4. ASSUME NEW w \in Workers, Step(w) \/ Abandon(w), ~SetPassword(w)
      PROVE  EarnInv'
  <2>1. UNCHANGED <<cred, valid>> /\ (minted' = minted \/ Mint(w))
    BY <1>4 DEF Step, Abandon, ReadAttempt, ReadVerifier, FailRead, FailWrite,
                Clear, Mint, ChangeReadVerifier
  <2> QED
    BY <1>4, <2>1, StepsOnward, OnwardEarns DEF CarriesInv
<1>5. ASSUME NEW e \in Addresses, Disable(e)
      PROVE  EarnInv'
  <2>1. \A f \in Addresses :
          /\ cred'[f].subject = cred[f].subject
          /\ cred'[f].passwordHash = cred[f].passwordHash
          /\ Disabled(f) => cred'[f].disabledAt = cred[f].disabledAt
    BY <1>5, DisableType
  <2>2. \A f \in Addresses : OpenedBy(cred'[f]) \subseteq OpenedBy(cred[f])
    BY <2>1 DEF OpenedBy, Disabled
  <2>3. \A w \in Workers :
           /\ valid[w] \subseteq valid'[w]
           /\ ~At(w, "idle") =>
                OpenedBy(cred'[req[w].email]) \subseteq valid'[w]
    BY <1>5, <2>2 DEF Disable, EarnInv, EarnedCall, CarriesInv, TypeOK, At
  <2> QED
    BY <1>5, <2>1, <2>3, CredentialEarns DEF Disable
<1>6. ASSUME NEW e \in Addresses, Create(e)
      PROVE  EarnInv'
  <2>1. \A f \in Addresses :
          /\ HasCredential(f) => cred'[f].subject = cred[f].subject
          /\ cred'[f].subject # None => cred'[f].passwordHash \in Passwords
    BY <1>6, CreateType DEF CarriesInv, CallInv, HasCredential
  <2>2. \A w \in Workers :
           /\ valid[w] \subseteq valid'[w]
           /\ ~At(w, "idle") =>
                OpenedBy(cred'[req[w].email]) \subseteq valid'[w]
    BY <1>6, <2>1, WidenType DEF Create
  <2> QED
    BY <1>6, <2>1, <2>2, CredentialEarns DEF Create
<1> QED
  BY <1>1, <1>2, <1>3, <1>4, <1>5, <1>6 DEF Next

-----------------------------------------------------------------------------
(* Rows, and sign-ins that are alone.                                      *)

LEMMA ClockMoves ==
    ASSUME [Next]_vars
    PROVE  now' = now \/ Tick
<1>1. ASSUME NEW w \in Workers, CallSignIn(w) \/ CallChangePassword(w)
      PROVE  now' = now
  BY <1>1 DEF CallSignIn, CallChangePassword, Arrive
<1>2. ASSUME NEW w \in Workers, Step(w) \/ Abandon(w)
      PROVE  now' = now
  BY <1>2 DEF Step, Abandon, ReadAttempt, ReadVerifier, FailRead, FailWrite,
              Clear, Mint, ChangeReadVerifier, SetPassword
<1> QED
  BY <1>1, <1>2 DEF Next, vars, Disable, Create

LEMMA SoundNoAttempt == \A t \in Nat : Sound(NoAttempt, t)
  BY NoAttemptFacts, LockForAssumption DEF Sound

LEMMA NextSound == CarriesInv /\ RowInv /\ [Next]_vars => RowInv'
<1> SUFFICES ASSUME CarriesInv, RowInv, [Next]_vars PROVE RowInv'
  OBVIOUS
<1> USE DEF CarriesInv, TypeOK
<1>1. now' \in Nat /\ now' >= now
  BY ClockMoves DEF Tick
<1>2. \A a \in Attempt : Sound(a, now) => Sound(a, now')
  BY <1>1, LockForAssumption DEF Sound, Honest, Attempt
<1>3. Sound(NoAttempt, now')
  BY <1>1, SoundNoAttempt
<1>4. \A e \in Addresses : attempt[e] \in Attempt /\ Sound(attempt[e], now)
  BY DEF RowInv
<1>5. \A w \in Workers : req[w].current \in Attempt /\ Sound(req[w].current, now)
  BY DEF RowInv, Request
<1>6. CASE UNCHANGED <<attempt, req>>
  BY <1>2, <1>4, <1>5, <1>6 DEF RowInv
<1>7. ASSUME NEW w \in Workers, CallSignIn(w) \/ CallChangePassword(w)
      PROVE  RowInv'
  <2>1. PICK q \in Request : Arrive(w, q) /\ Opened(w, q)
    BY <1>7, CallsOpened
  <2>2. \A v \in Workers : Sound(req'[v].current, now')
    BY <1>2, <1>3, <1>5, <2>1 DEF Arrive, Opened
  <2> QED
    BY <1>2, <1>4, <2>1, <2>2 DEF Arrive, RowInv
<1>8. ASSUME NEW w \in Workers, Step(w) \/ Abandon(w)
      PROVE  RowInv'
  <2>1. PICK q \in Request : req' = [req EXCEPT ![w] = q] /\ Onward(w, q)
    BY <1>8, StepsOnward
  <2>2. ~At(w, "idle") /\ req[w].email \in Addresses /\ req[w] \in Request
    BY <1>8, StepsOnward DEF At
  <2>3. Sound(q.current, now) \/ q.current = NoAttempt
    BY <1>4, <1>5, <2>1, <2>2, IdleFacts DEF Onward
  <2>4. \A v \in Workers : Sound(req'[v].current, now')
    BY <1>2, <1>3, <1>5, <2>1, <2>3 DEF Request
  <2>5. \A e \in Addresses : Sound(attempt'[e], now')
    <3>1. CASE FailWrite(w)
      <4> DEFINE a == Fail(req[w].current, req[w].at)
      <4>1. /\ a \in Attempt
            /\ Honest(a)
            /\ a.lockedUntil \in {0, req[w].current.lockedUntil,
                                   req[w].at + LockFor}
        BY <1>5, <2>2, FailFacts DEF Request, Sound
      <4>2. req[w].at <= now /\ req[w].at \in Nat
        BY <2>2 DEF CallInv, Request
      <4>3. Sound(a, now)
        BY <1>5, <4>1, <4>2, LockForAssumption DEF Sound, Attempt
      <4>4. attempt' = [attempt EXCEPT ![req[w].email] = a]
        BY <3>1 DEF FailWrite
      <4> HIDE DEF a
      <4> QED
        BY <1>2, <1>4, <2>2, <4>1, <4>3, <4>4
    <3>2. CASE Clear(w)
      BY <1>2, <1>3, <1>4, <2>2, <3>2 DEF Clear
    <3>3. CASE attempt' = attempt
      BY <1>2, <1>4, <3>3
    <3> QED
      BY <1>8, <3>1, <3>2, <3>3
         DEF Step, Abandon, ReadAttempt, ReadVerifier, FailRead, Mint,
             ChangeReadVerifier, SetPassword
  <2> QED
    BY <2>4, <2>5 DEF RowInv
<1>9. CASE UNCHANGED vars \/ Tick \/ \E e \in Addresses : Disable(e) \/ Create(e)
  BY <1>6, <1>9 DEF vars, Tick, Disable, Create
<1> QED
  BY <1>7, <1>8, <1>9 DEF Next

\* A call of w is a sign-in on e that has yet to count.
Counts(w, e) == req[w].pc \in Counting /\ req[w].email = e

\* A sign-in that goes on, or comes in, while the rows stay.
LEMMA OnwardAlone ==
    ASSUME TypeOK, AloneInv, NEW w \in Workers, NEW q \in Request,
           req' = [req EXCEPT ![w] = q],
           UNCHANGED <<attempt, raced>>,
           ~At(w, "idle") /\ Onward(w, q)
    PROVE  AloneInv'
<1>1. \A v \in Workers : req'[v] = IF v = w THEN q ELSE req[v]
  BY DEF TypeOK
<1>2. q.pc \in Counting =>
        /\ req[w].pc \in Counting /\ q.email = req[w].email /\ q.at = req[w].at
        /\ q.pc # "attempt"
        /\ req[w].pc = "attempt" => ~Locked(attempt[req[w].email], req[w].at)
        /\ q.pc = "failWrite" => q.current = attempt[req[w].email]
  BY IdleFacts DEF Onward, Counting, At
<1>3. ASSUME NEW v \in Workers, req'[v].pc \in Counting, req'[v].email \notin raced
      PROVE  /\ req[v].pc \in Counting
             /\ req[v].email = req'[v].email /\ req[v].at = req'[v].at
             /\ req'[v].pc # "attempt" => ~Locked(attempt[req[v].email], req[v].at)
             /\ req'[v].pc = "failWrite" => req'[v].current = attempt[req[v].email]
  BY <1>1, <1>2, <1>3 DEF AloneInv
<1>4. \A u \in Workers : req'[u].pc \in Counting =>
         req[u].pc \in Counting /\ req[u].email = req'[u].email
  BY <1>1, <1>2
<1> QED
  BY <1>3, <1>4 DEF AloneInv

\* A worker leaves the sign-ins; the rows of the others' addresses stay, and so
\* do all addresses that raced but this worker's, if it was alone on it.
LEMMA LeaveAlone ==
    ASSUME TypeOK, AloneInv, NEW w \in Workers, NEW q \in Request,
           req' = [req EXCEPT ![w] = q], q.pc \notin Counting,
           \A e \in Addresses :
              e \in raced \ raced' => \A v \in Workers \ {w} : ~Counts(v, e),
           \A e \in Addresses :
              attempt'[e] = attempt[e] \/ Counts(w, e)
    PROVE  AloneInv'
<1>1. \A v \in Workers : req'[v] = IF v = w THEN q ELSE req[v]
  BY DEF TypeOK
<1>2. ASSUME NEW v \in Workers, req'[v].pc \in Counting, req'[v].email \notin raced'
      PROVE  /\ v # w /\ req'[v] = req[v]
             /\ req[v].email \in Addresses
             /\ req[v].email \notin raced
             /\ attempt'[req[v].email] = attempt[req[v].email]
  <2>1. v # w /\ req'[v] = req[v]
    BY <1>1, <1>2
  <2>2. req[v].email \in Addresses /\ Counts(v, req[v].email)
    BY <1>2, <2>1 DEF TypeOK, Counting, Counts
  <2>3. req[v].email \notin raced
    BY <1>2, <2>1, <2>2
  <2>4. ~Counts(w, req[v].email)
    BY <2>1, <2>2, <2>3 DEF AloneInv, Counts
  <2> QED
    BY <2>1, <2>2, <2>3, <2>4
<1> QED
  BY <1>1, <1>2 DEF AloneInv

\* A sign-in that comes in beside another one is noted.
LEMMA SignInAlone ==
    ASSUME CarriesInv, AloneInv, NEW w \in Workers, CallSignIn(w)
    PROVE  AloneInv'
<1>1. PICK e \in Addresses, p \in Passwords :
        /\ Arrive(w, [Idle EXCEPT !.pc = "attempt", !.email = e,
                                  !.password = p, !.at = now])
        /\ raced' = raced \cup {f \in {e} : Contended(w, f)}
  BY DEF CallSignIn
<1> DEFINE q == [Idle EXCEPT !.pc = "attempt", !.email = e,
                             !.password = p, !.at = now]
<1>2. q.pc = "attempt" /\ q.email = e
  BY DEF Idle
<1>3. req' = [req EXCEPT ![w] = q] /\ attempt' = attempt
  BY <1>1 DEF Arrive
<1> HIDE DEF q
<1>4. \A v \in Workers : req'[v] = IF v = w THEN q ELSE req[v]
  BY <1>3 DEF CarriesInv, TypeOK
<1>5. e \notin raced' =>
        \A v \in Workers \ {w} : req[v].pc \in Counting => req[v].email # e
  BY <1>1 DEF Contended, Counting
<1>6. raced \subseteq raced'
  BY <1>1
<1> QED
  BY <1>2, <1>3, <1>4, <1>5, <1>6 DEF AloneInv

LEMMA NextAlone == CarriesInv /\ AloneInv /\ [Next]_vars => AloneInv'
<1> SUFFICES ASSUME CarriesInv, AloneInv, [Next]_vars PROVE AloneInv'
  OBVIOUS
<1>1. CASE UNCHANGED <<attempt, req, raced>>
  BY <1>1 DEF AloneInv
<1>2. ASSUME NEW w \in Workers, CallChangePassword(w)
      PROVE  AloneInv'
  <2>1. PICK q \in Request : Arrive(w, q) /\ q.pc = "changeVerifier"
    <3>1. PICK e \in Addresses, p \in Passwords, n \in Passwords, m \in Members :
            Arrive(w, [Idle EXCEPT !.pc = "changeVerifier", !.email = e,
                                   !.password = p, !.new = n, !.caller = m])
      BY <1>2 DEF CallChangePassword
    <3> DEFINE q == [Idle EXCEPT !.pc = "changeVerifier", !.email = e,
                                 !.password = p, !.new = n, !.caller = m]
    <3>2. q \in Request /\ q.pc = "changeVerifier"
      BY NoAttemptFacts DEF Idle, Request, Points
    <3> HIDE DEF q
    <3> QED
      BY <3>1, <3>2 DEF q
  <2>2. /\ UNCHANGED <<attempt, raced>>
        /\ req' = [req EXCEPT ![w] = q]
    BY <1>2, <2>1 DEF Arrive, CallChangePassword
  <2> QED
    BY <2>1, <2>2, LeaveAlone DEF CarriesInv, Counting
<1>3. ASSUME NEW w \in Workers, Step(w) \/ Abandon(w)
      PROVE  AloneInv'
  <2>1. PICK q \in Request : req' = [req EXCEPT ![w] = q] /\ Onward(w, q)
    BY <1>3, StepsOnward DEF CarriesInv
  <2>2. ~At(w, "idle")
    BY <1>3, StepsOnward DEF CarriesInv
  <2>3. CASE UNCHANGED <<attempt, raced>>
    BY <2>1, <2>2, <2>3, OnwardAlone DEF CarriesInv
  <2>4. CASE FailWrite(w)
    <3>1. /\ req' = [req EXCEPT ![w] = Idle] /\ raced' = raced
          /\ \A e \in Addresses : attempt'[e] = attempt[e] \/ Counts(w, e)
      BY <2>4 DEF FailWrite, Finish, At, Counts, Counting, CarriesInv, TypeOK
    <3> QED
      BY <3>1, IdleFacts, LeaveAlone DEF CarriesInv, Counting
  <2>5. CASE Clear(w)
    <3>1. q.pc \notin Counting
      BY <2>1, <2>5, IdleFacts DEF Onward, Clear, At, Counting
    <3>2. \A e \in Addresses : attempt'[e] = attempt[e] \/ Counts(w, e)
      BY <2>5 DEF Clear, At, Counts, Counting, CarriesInv, TypeOK
    <3>3. \A e \in Addresses :
            e \in raced \ raced' => \A v \in Workers \ {w} : ~Counts(v, e)
      BY <2>5 DEF Clear, Contended, Counts, Counting
    <3> QED
      BY <2>1, <3>1, <3>2, <3>3, LeaveAlone DEF CarriesInv
  <2> QED
    BY <1>3, <2>3, <2>4, <2>5
       DEF Step, Abandon, ReadAttempt, ReadVerifier, FailRead, Mint,
           ChangeReadVerifier, SetPassword
<1> QED
  BY <1>1, <1>2, <1>3, SignInAlone DEF Next, vars, Tick, Disable, Create

-----------------------------------------------------------------------------
(* Sign-ins that came in under a lock.                                     *)

LEMMA NextShut == CarriesInv /\ ShutInv /\ [Next]_vars => ShutInv'
<1> SUFFICES ASSUME CarriesInv, ShutInv, [Next]_vars PROVE ShutInv'
  OBVIOUS
<1>1. CASE UNCHANGED <<attempt, req, shut>>
  BY <1>1 DEF ShutInv, At
<1>2. ASSUME NEW w \in Workers, NEW q, req' = [req EXCEPT ![w] = q],
             attempt' = attempt, shut' \subseteq shut \ {w}
      PROVE  ShutInv'
  BY <1>2 DEF ShutInv, At, CarriesInv, TypeOK
<1>3. ASSUME NEW w \in Workers, CallSignIn(w)
      PROVE  ShutInv'
  <2>1. PICK e \in Addresses, p \in Passwords :
          /\ Arrive(w, [Idle EXCEPT !.pc = "attempt", !.email = e,
                                    !.password = p, !.at = now])
          /\ shut' = shut \cup {v \in {w} : Locked(attempt[e], now)}
    BY <1>3 DEF CallSignIn
  <2> DEFINE q == [Idle EXCEPT !.pc = "attempt", !.email = e,
                               !.password = p, !.at = now]
  <2>2. q.pc = "attempt" /\ q.email = e /\ q.at = now
    BY DEF Idle
  <2>3. req' = [req EXCEPT ![w] = q] /\ attempt' = attempt
    BY <2>1 DEF Arrive
  <2> HIDE DEF q
  <2>4. \A v \in Workers : req'[v] = IF v = w THEN q ELSE req[v]
    BY <2>3 DEF CarriesInv, TypeOK
  <2>5. w \notin shut
    BY <2>1 DEF Arrive, ShutInv, At
  <2>6. shut \subseteq Workers
    BY DEF CarriesInv, TypeOK
  <2>7. ASSUME NEW v \in shut'
        PROVE  req'[v].pc = "attempt" /\ Locked(attempt'[req'[v].email], req'[v].at)
    <3>1. CASE v \in shut
      BY <2>3, <2>4, <2>5, <2>6, <3>1 DEF ShutInv, At
    <3>2. CASE v = w /\ v \notin shut
      BY <2>1, <2>2, <2>3, <2>4, <2>7, <3>2
    <3> QED
      BY <2>1, <2>7, <3>1, <3>2
  <2> QED
    BY <2>7 DEF ShutInv, At
<1>4. ASSUME NEW w \in Workers, CallChangePassword(w)
      PROVE  ShutInv'
  <2>1. PICK q : Arrive(w, q)
    BY <1>4 DEF CallChangePassword
  <2>2. shut' = shut /\ w \notin shut
    BY <1>4, <2>1 DEF CallChangePassword, Arrive, ShutInv, At
  <2>3. attempt' = attempt /\ req' = [req EXCEPT ![w] = q]
    BY <2>1 DEF Arrive
  <2> QED
    BY <1>2, <2>2, <2>3
<1>5. ASSUME NEW w \in Workers, Step(w) \/ Abandon(w)
      PROVE  ShutInv'
  <2>1. PICK q \in Request : req' = [req EXCEPT ![w] = q] /\ Onward(w, q)
    BY <1>5, StepsOnward DEF CarriesInv
  <2>2. \A v \in Workers : req'[v] = IF v = w THEN q ELSE req[v]
    BY <2>1 DEF CarriesInv, TypeOK
  <2>3. shut \subseteq Workers
    BY DEF CarriesInv, TypeOK
  <2>4. CASE FailWrite(w) \/ Clear(w)
    <3>1. shut' = {v \in shut \ {w} : Locked(attempt'[req[v].email], req[v].at)}
      BY <2>4 DEF FailWrite, Clear, Reopen
    <3> QED
      BY <2>2, <2>3, <3>1 DEF ShutInv, At
  <2>5. CASE ~FailWrite(w) /\ ~Clear(w)
    <3>1. attempt' = attempt
      BY <1>5, <2>5 DEF Step, Abandon, ReadAttempt, ReadVerifier, FailRead,
                        Mint, ChangeReadVerifier, SetPassword
    <3>2. shut' \subseteq shut \ {w}
      <4>1. CASE At(w, "attempt") /\ ReadAttempt(w)
        <5>1. CASE w \in shut
          <6>1. req' = [req EXCEPT ![w] = Idle]
            BY <4>1, <5>1 DEF ReadAttempt, ShutInv, Finish
          <6>2. req'[w].pc = "idle"
            BY <6>1, IdleFacts DEF CarriesInv, TypeOK
          <6> QED
            BY <4>1, <6>2 DEF ReadAttempt
        <5>2. CASE w \notin shut
          BY <4>1, <5>2 DEF ReadAttempt
        <5> QED
          BY <5>1, <5>2
      <4>2. CASE Abandon(w)
        BY <4>2 DEF Abandon
      <4>3. CASE ~ReadAttempt(w) /\ ~Abandon(w)
        <5>1. shut' = shut /\ ~At(w, "attempt")
          BY <1>5, <2>5, <4>3 DEF Step, ReadVerifier, FailRead, Mint,
                                  ChangeReadVerifier, SetPassword, At
        <5> QED
          BY <5>1 DEF ShutInv
      <4> QED
        BY <4>1, <4>2, <4>3 DEF ReadAttempt
    <3> QED
      BY <1>2, <2>1, <3>1, <3>2
  <2> QED
    BY <2>4, <2>5
<1>6. CASE UNCHANGED vars \/ Tick \/ \E e \in Addresses : Disable(e) \/ Create(e)
  BY <1>1, <1>6 DEF vars, Tick, Disable, Create
<1> QED
  BY <1>3, <1>4, <1>5, <1>6 DEF Next

-----------------------------------------------------------------------------
(* The theorems.                                                           *)

LEMMA InitInv == Init => DoorInv
<1> SUFFICES ASSUME Init PROVE DoorInv
  OBVIOUS
<1>1. \A w \in Workers : req[w] = Idle /\ minted[w] = NoMint
  BY DEF Init
<1>2. EarnInv
  BY <1>1, IdleFacts DEF EarnInv, EarnedCall, EarnedMint
<1>3. RowInv
  BY <1>1, IdleFacts, SoundNoAttempt DEF RowInv, Init
<1>4. AloneInv
  BY <1>1, IdleFacts DEF AloneInv, Counting
<1>5. ShutInv
  BY DEF Init, ShutInv
<1> QED
  BY <1>2, <1>3, <1>4, <1>5, InitCarries DEF DoorInv, CarriesInv

LEMMA NextInv == DoorInv /\ [Next]_vars => DoorInv'
  BY NextCarries, NextEarns, NextSound, NextAlone, NextShut
     DEF DoorInv, CarriesInv

LEMMA SpecInv == Spec => []DoorInv
  BY InitInv, NextInv, PTL DEF Spec

\* Every column and every local variable of a call has the values the code
\* puts there, and a call has an address.
THEOREM OperatorTypeCorrect == Spec => []TypeOK
  BY SpecInv, PTL DEF DoorInv

\* OperatorSignIn mints a session only for a password that opened its address
\* since the call came in, and for the member the credential is bound to,
\* however password changes and withdrawals fall between its statements.
THEOREM OperatorSessionEarned == Spec => []SessionWasEarned
<1>1. DoorInv => SessionWasEarned
  BY DEF DoorInv, EarnInv, EarnedMint, SessionWasEarned
<1> QED
  BY <1>1, SpecInv, PTL

\* However failures overlap, a row of the attempt table leaves no tries exactly
\* when it carries a lock.
THEOREM OperatorTriesHonest == Spec => []TriesLeftHonest
<1>1. DoorInv => TriesLeftHonest
  <2> SUFFICES ASSUME DoorInv, NEW e \in Addresses
               PROVE  TriesLeft(attempt[e]) = 0 <=> attempt[e].lockedUntil # 0
    BY DEF TriesLeftHonest
  <2>1. attempt[e] \in Attempt /\ Honest(attempt[e])
    BY DEF DoorInv, TypeOK, RowInv, Sound
  <2>2. attempt[e].failed \in Nat
    BY <2>1 DEF Attempt
  <2>3. TriesLeft(attempt[e]) = 0 <=> attempt[e].failed >= LockAfter
    BY <2>2, LockAfterAssumption DEF TriesLeft
  <2> QED
    BY <2>1, <2>3 DEF Honest
<1> QED
  BY <1>1, SpecInv, PTL

\* All that a step does to the credential table.
LEMMA CredentialSteps ==
    ASSUME DoorInv, [Next]_vars
    PROVE  \/ UNCHANGED cred
           \/ \E w \in Workers :
                 /\ At(w, "setPassword")
                 /\ req[w].email \in Addresses /\ req[w].new \in Passwords
                 /\ SetHash(req[w].email, req[w].new)
           \/ \E e \in Addresses : Disable(e) \/ Create(e)
<1>1. ASSUME NEW w \in Workers, Step(w) \/ Abandon(w)
      PROVE  cred' = cred \/ SetPassword(w)
  BY <1>1 DEF Step, Abandon, ReadAttempt, ReadVerifier, FailRead, FailWrite,
              Clear, Mint, ChangeReadVerifier
<1>2. ASSUME NEW w \in Workers, SetPassword(w)
      PROVE  /\ At(w, "setPassword")
             /\ req[w].email \in Addresses /\ req[w].new \in Passwords
             /\ SetHash(req[w].email, req[w].new)
  BY <1>2 DEF SetPassword, DoorInv, TypeOK, CallInv, At
<1>3. ASSUME NEW w \in Workers, CallSignIn(w) \/ CallChangePassword(w)
      PROVE  cred' = cred
  BY <1>3 DEF CallSignIn, CallChangePassword, Arrive
<1> QED
  BY <1>1, <1>2, <1>3 DEF Next, vars, Tick, Disable

\* A stored verifier is replaced only by a change that proved the current
\* password, for the credential's own member.
THEOREM OperatorChangeProved == Spec => ChangeWasProved
<1> DEFINE Proved(e) ==
             HasCredential(e) /\ cred'[e].passwordHash # cred[e].passwordHash =>
                \E w \in Workers :
                   /\ At(w, "setPassword")
                   /\ req[w].email = e
                   /\ req[w].password \in valid[w]
                   /\ req[w].caller = cred[e].subject
<1>1. DoorInv /\ [Next]_vars => [\A e \in Addresses : Proved(e)]_vars
  <2> SUFFICES ASSUME DoorInv, [Next]_vars, NEW e \in Addresses,
                      HasCredential(e),
                      cred'[e].passwordHash # cred[e].passwordHash
               PROVE  \E w \in Workers :
                         /\ At(w, "setPassword")
                         /\ req[w].email = e
                         /\ req[w].password \in valid[w]
                         /\ req[w].caller = cred[e].subject
    OBVIOUS
  <2>1. ASSUME NEW f \in Addresses, Disable(f) \/ Create(f)
        PROVE  FALSE
    BY <2>1, DisableType, CreateType DEF DoorInv, CarriesInv
  <2>2. PICK w \in Workers :
          /\ At(w, "setPassword")
          /\ req[w].email \in Addresses /\ req[w].new \in Passwords
          /\ SetHash(req[w].email, req[w].new)
    BY <2>1, CredentialSteps
  <2>3. req[w].email = e
    BY <2>2, HashType DEF DoorInv, CarriesInv
  <2> QED
    BY <2>2, <2>3 DEF DoorInv, EarnInv, EarnedCall, At
<1> QED
  BY <1>1, SpecInv, PTL DEF Spec, ChangeWasProved

\* A withdrawn credential keeps the date of its withdrawal, whatever password
\* change lands after it.
THEOREM OperatorWithdrawnStays == Spec => WithdrawnStays
<1>1. DoorInv /\ [Next]_vars =>
        [\A e \in Addresses : Disabled(e) =>
            cred'[e].disabledAt = cred[e].disabledAt]_vars
  <2> SUFFICES ASSUME DoorInv, [Next]_vars, NEW e \in Addresses, Disabled(e)
               PROVE  cred'[e].disabledAt = cred[e].disabledAt
    OBVIOUS
  <2> QED
    BY CredentialSteps, HashType, DisableType, CreateType
       DEF DoorInv, CarriesInv
<1> QED
  BY <1>1, SpecInv, PTL DEF Spec, WithdrawnStays

\* A sign-in that came in under a lock which has stood since counts nothing,
\* undoes no lock and yields no session, however the others' reads, writes and
\* deletions of the row fall.
THEOREM OperatorLateGuess == Spec => LateGuessWritesNothing
<1>1. DoorInv /\ [Next]_vars =>
        [\A w \in shut : req'[w] # req[w] => UNCHANGED <<attempt, minted>>]_vars
  <2> SUFFICES ASSUME DoorInv, [Next]_vars, NEW w \in shut, req'[w] # req[w]
               PROVE  UNCHANGED <<attempt, minted>>
    BY Zenon
  <2>1. w \in Workers /\ req[w].pc = "attempt"
    BY DEF DoorInv, TypeOK, ShutInv, At
  <2>2. ASSUME NEW v \in Workers, NEW q, req' = [req EXCEPT ![v] = q]
        PROVE  v = w
    BY <2>1, <2>2 DEF DoorInv, TypeOK
  <2>3. ASSUME NEW v \in Workers, CallSignIn(v) \/ CallChangePassword(v)
        PROVE  FALSE
    <3>1. PICK q : Arrive(v, q)
      BY <2>3 DEF CallSignIn, CallChangePassword
    <3>2. v = w /\ req[v].pc = "idle"
      BY <2>2, <3>1 DEF Arrive, At
    <3> QED
      BY <2>1, <3>2
  <2>4. ASSUME NEW v \in Workers, Step(v) \/ Abandon(v)
        PROVE  UNCHANGED <<attempt, minted>>
    <3>1. v = w
      BY <2>2, <2>4, StepsOnward DEF DoorInv
    <3> QED
      BY <2>1, <2>4, <3>1
         DEF Step, Abandon, ReadAttempt, ReadVerifier, FailRead, FailWrite,
             Clear, Mint, ChangeReadVerifier, SetPassword, At
  <2> QED
    BY <2>3, <2>4 DEF Next, vars, Tick, Disable, Create
<1> QED
  BY <1>1, SpecInv, PTL DEF Spec, LateGuessWritesNothing

-----------------------------------------------------------------------------
(* The refinement of LockPolicy.                                           *)

LEMMA RowMaps ==
    ASSUME TypeOK, NEW e \in Addresses, NEW a \in Attempt,
           attempt' = [attempt EXCEPT ![e] = a]
    PROVE  /\ InARow' = [InARow EXCEPT ![e] = a.failed]
           /\ Until' = [Until EXCEPT ![e] = a.lockedUntil]
           /\ InARow'[e] = a.failed
           /\ Until'[e] = a.lockedUntil
<1>1. \A f \in Addresses :
        /\ attempt'[f].failed = IF f = e THEN a.failed ELSE attempt[f].failed
        /\ attempt'[f].lockedUntil = IF f = e THEN a.lockedUntil
                                              ELSE attempt[f].lockedUntil
  BY DEF TypeOK
<1>2. InARow' = [InARow EXCEPT ![e] = a.failed] /\ InARow'[e] = a.failed
  BY <1>1 DEF InARow
<1>3. Until' = [Until EXCEPT ![e] = a.lockedUntil] /\ Until'[e] = a.lockedUntil
  BY <1>1 DEF Until
<1> QED
  BY <1>2, <1>3

LEMMA RowsKept ==
    ASSUME attempt' = attempt
    PROVE  UNCHANGED <<InARow, Until>>
  BY DEF InARow, Until

\* Whose right answer is being acted on changes only by a call that comes to
\* its minter, or leaves it.
LEMMA AdmittedMoves ==
    ASSUME TypeOK, NEW w \in Workers, NEW q \in Request,
           req' = [req EXCEPT ![w] = q]
    PROVE  /\ ~At(w, "mint") /\ q.pc # "mint" => Admitted' = Admitted
           /\ ~At(w, "mint") /\ q.pc = "mint" /\ q.email \in Addresses =>
                Admitted' = Admitted \cup {q.email}
           /\ At(w, "mint") /\ q.pc # "mint" =>
                Admitted' \in {Admitted, Admitted \ {req[w].email}}
<1>1. \A v \in Workers : req'[v] = IF v = w THEN q ELSE req[v]
  BY DEF TypeOK
<1>2. ASSUME ~At(w, "mint"), q.pc # "mint" PROVE Admitted' = Admitted
  BY <1>1, <1>2 DEF Admitted, At
<1>3. ASSUME ~At(w, "mint"), q.pc = "mint", q.email \in Addresses
      PROVE  Admitted' = Admitted \cup {q.email}
  BY <1>1, <1>3 DEF Admitted, At
<1>4. ASSUME At(w, "mint"), q.pc # "mint"
      PROVE  Admitted' \in {Admitted, Admitted \ {req[w].email}}
  <2>1. \A e \in Addresses \ {req[w].email} : e \in Admitted' <=> e \in Admitted
    BY <1>1, <1>4 DEF Admitted, At
  <2>2. req[w].email \in Admitted
    BY <1>4 DEF Admitted, At, TypeOK
  <2>3. Admitted \subseteq Addresses /\ Admitted' \subseteq Addresses
    BY DEF Admitted
  <2> QED
    BY <2>1, <2>2, <2>3
<1> QED
  BY <1>2, <1>3, <1>4

LEMMA InitMaps == Init => Policy!Init
  BY NoAttemptFacts, IdleFacts
     DEF Init, Policy!Init, InARow, Until, Admitted, At

\* A call that comes in, maybe beside another.
LEMMA ArriveMaps ==
    ASSUME DoorInv, NEW w \in Workers, CallSignIn(w) \/ CallChangePassword(w)
    PROVE  Policy!Next \/ UNCHANGED Policy!vars
<1>1. PICK q \in Request : Arrive(w, q) /\ Opened(w, q)
  BY CallsOpened DEF DoorInv
<1>2. UNCHANGED <<now, InARow, Until, Admitted>>
  BY <1>1, RowsKept, AdmittedMoves DEF Arrive, Opened, At, DoorInv
<1>3. CASE CallSignIn(w)
  <2>1. PICK e \in Addresses : raced' = raced \cup {f \in {e} : Contended(w, f)}
    BY <1>3 DEF CallSignIn
  <2>2. CASE Contended(w, e)
    <3>1. raced' = raced \cup {e}
      BY <2>1, <2>2
    <3>2. Policy!Overlap(e)
      BY <1>2, <3>1 DEF Policy!Overlap
    <3> QED
      BY <3>2 DEF Policy!Next
  <2>3. CASE ~Contended(w, e)
    <3>1. raced' = raced
      BY <2>1, <2>3
    <3> QED
      BY <1>2, <3>1 DEF Policy!vars
  <2> QED
    BY <2>2, <2>3
<1>4. CASE CallChangePassword(w)
  <2>1. raced' = raced
    BY <1>4 DEF CallChangePassword
  <2> QED
    BY <1>2, <2>1 DEF Policy!vars
<1> QED
  BY <1>3, <1>4

\* A statement that leaves the rows of attempts alone: a right answer may have
\* been acted on, or given up.
LEMMA OnwardMaps ==
    ASSUME DoorInv, NEW w \in Workers, ~At(w, "idle"),
           NEW q \in Request, req' = [req EXCEPT ![w] = q], Onward(w, q),
           ~At(w, "clear") \/ q = Idle,
           UNCHANGED <<now, attempt, raced>>
    PROVE  Policy!Next \/ UNCHANGED Policy!vars
<1>1. UNCHANGED <<InARow, Until>>
  BY RowsKept
<1>2. q.pc # "mint"
  BY IdleFacts DEF Onward, At
<1>3. CASE At(w, "mint")
  <2>1. req[w].email \in Addresses
    BY <1>3 DEF DoorInv, TypeOK, At
  <2>2. Admitted' \in {Admitted, Admitted \ {req[w].email}}
    BY <1>2, <1>3, AdmittedMoves DEF DoorInv
  <2>3. CASE Admitted' = Admitted
    BY <1>1, <2>3 DEF Policy!vars
  <2>4. CASE Admitted' = Admitted \ {req[w].email}
    <3>1. Policy!Leave(req[w].email)
      BY <1>1, <2>4 DEF Policy!Leave
    <3> QED
      BY <2>1, <3>1 DEF Policy!Next
  <2> QED
    BY <2>2, <2>3, <2>4
<1>4. CASE ~At(w, "mint")
  <2>1. Admitted' = Admitted
    BY <1>2, <1>4, AdmittedMoves DEF DoorInv
  <2> QED
    BY <1>1, <2>1 DEF Policy!vars
<1> QED
  BY <1>3, <1>4

\* A failure that is written is a wrong answer where the sign-ins of the address
\* did not overlap, and goes astray where they did.
LEMMA FailWriteMaps ==
    ASSUME DoorInv, NEW w \in Workers, FailWrite(w)
    PROVE  Policy!Next
<1>1. PICK e \in Addresses, c \in Attempt, t \in Nat :
        /\ e = req[w].email /\ c = req[w].current /\ t = req[w].at
        /\ t <= now
        /\ Sound(c, now)
        /\ attempt' = [attempt EXCEPT ![e] = Fail(c, t)]
  BY DEF FailWrite, DoorInv, TypeOK, CallInv, RowInv, At, Request
<1>2. now \in Nat /\ t \in 0 .. now
  BY <1>1 DEF DoorInv, TypeOK
<1>3. /\ UNCHANGED <<now, raced>>
      /\ req' = [req EXCEPT ![w] = Idle]
  BY DEF FailWrite, Finish
<1>4. Admitted' = Admitted
  BY <1>3, IdleFacts, AdmittedMoves DEF FailWrite, At, DoorInv
<1>5. /\ Fail(c, t) \in Attempt
      /\ Honest(Fail(c, t))
      /\ Fail(c, t).lockedUntil \in {0, c.lockedUntil, t + LockFor}
  BY <1>1, FailFacts DEF Sound
<1>6. /\ InARow' = [InARow EXCEPT ![e] = Fail(c, t).failed]
      /\ Until' = [Until EXCEPT ![e] = Fail(c, t).lockedUntil]
      /\ InARow'[e] = Fail(c, t).failed
      /\ Until'[e] = Fail(c, t).lockedUntil
  BY <1>1, <1>5, RowMaps DEF DoorInv
<1>7. CASE e \in raced
  <2>1. Fail(c, t).lockedUntil \in 0 .. now + LockFor
    BY <1>1, <1>2, <1>5, LockForAssumption DEF Sound, Attempt
  <2>2. Policy!Stray(e)
    BY <1>3, <1>4, <1>5, <1>6, <1>7, <2>1 DEF Policy!Stray, Honest, Attempt
  <2> QED
    BY <2>2 DEF Policy!Next
<1>8. CASE e \notin raced
  <2>1. c = attempt[e] /\ ~Locked(c, t)
    BY <1>1, <1>8 DEF FailWrite, At, DoorInv, AloneInv, Counting
  <2>2. /\ InARow[e] = c.failed
        /\ Until[e] = c.lockedUntil
    BY <2>1 DEF InARow, Until
  <2>3. ~Policy!Barred(e, t)
    BY <1>2, <2>1, <2>2 DEF Policy!Barred, Locked, Attempt
  <2> DEFINE n == IF Until[e] = 0 THEN InARow[e] + 1 ELSE 1
  <2>4. /\ n <= LockAfter
        /\ Fail(c, t).failed = n
        /\ Fail(c, t).lockedUntil = IF n = LockAfter THEN t + LockFor ELSE 0
    BY <1>1, <2>1, <2>2, FailInTurn DEF Sound
  <2>5. Policy!Wrong(e, t)
    BY <1>1, <1>3, <1>4, <1>6, <2>3, <2>4 DEF Policy!Wrong
  <2> QED
    BY <1>2, <2>5 DEF Policy!Next
<1> QED
  BY <1>7, <1>8

\* A row that is deleted is a right answer; on an address that raced, it settles
\* it if no other sign-in is under way there.
LEMMA ClearMaps ==
    ASSUME DoorInv, NEW w \in Workers, Clear(w)
    PROVE  Policy!Next
<1>1. PICK e \in Addresses, t \in Nat :
        /\ e = req[w].email /\ t = req[w].at
        /\ t <= now
        /\ attempt' = [attempt EXCEPT ![e] = NoAttempt]
        /\ raced' = raced \ {f \in {e} : ~Contended(w, f)}
        /\ now' = now
  BY DEF Clear, DoorInv, TypeOK, CallInv, At, Request
<1>2. now \in Nat /\ t \in 0 .. now
  BY <1>1 DEF DoorInv, TypeOK
<1>3. /\ InARow' = [InARow EXCEPT ![e] = 0]
      /\ Until' = [Until EXCEPT ![e] = 0]
      /\ InARow'[e] = 0 /\ Until'[e] = 0
  <2>1. /\ InARow' = [InARow EXCEPT ![e] = NoAttempt.failed]
        /\ Until' = [Until EXCEPT ![e] = NoAttempt.lockedUntil]
        /\ InARow'[e] = NoAttempt.failed
        /\ Until'[e] = NoAttempt.lockedUntil
    BY <1>1, NoAttemptFacts, RowMaps DEF DoorInv
  <2> QED
    BY <2>1, NoAttemptFacts
<1>4. Admitted' = Admitted \cup {e}
  <2>1. PICK q \in Request : req' = [req EXCEPT ![w] = q] /\ Onward(w, q)
    BY StepsOnward DEF DoorInv, Step
  <2>2. q.pc = "mint" /\ ~At(w, "mint")
    BY <2>1 DEF Clear, Goto, At, DoorInv, TypeOK, Request
  <2>3. q.email = e
    BY <1>1, <2>1, <2>2, IdleFacts DEF Onward
  <2> QED
    BY <2>1, <2>2, <2>3, AdmittedMoves DEF DoorInv
<1>5. CASE e \in raced /\ Contended(w, e)
  <2>1. raced' = raced
    BY <1>1, <1>5
  <2>2. /\ InARow'[e] \in Nat
        /\ Until'[e] \in 0 .. now + LockFor
        /\ InARow'[e] >= LockAfter <=> Until'[e] # 0
    BY <1>2, <1>3, LockForAssumption, LockAfterAssumption
  <2>3. /\ InARow' = [InARow EXCEPT ![e] = InARow'[e]]
        /\ Until' = [Until EXCEPT ![e] = Until'[e]]
    BY <1>3, Zenon
  <2>4. Admitted' \in {Admitted, Admitted \cup {e}, Admitted \ {e}}
    BY <1>4
  <2>5. Policy!Stray(e)
    BY <1>1, <1>5, <2>1, <2>2, <2>3, <2>4 DEF Policy!Stray
  <2> QED
    BY <2>5 DEF Policy!Next
<1>6. CASE e \in raced /\ ~Contended(w, e)
  <2>1. raced' = raced \ {e}
    BY <1>1, <1>6
  <2>2. Policy!Settle(e)
    BY <1>1, <1>3, <1>4, <1>6, <2>1 DEF Policy!Settle
  <2> QED
    BY <2>2 DEF Policy!Next
<1>7. CASE e \notin raced
  <2>1. raced' = raced
    BY <1>1, <1>7
  <2>2. ~Locked(attempt[e], t)
    BY <1>1, <1>7 DEF Clear, At, DoorInv, AloneInv, Counting
  <2>3. ~Policy!Barred(e, t)
    <3>1. Until[e] = attempt[e].lockedUntil /\ attempt[e] \in Attempt
      BY DEF Until, DoorInv, TypeOK
    <3> QED
      BY <1>1, <2>2, <3>1 DEF Policy!Barred, Locked, Attempt
  <2>4. Policy!Right(e, t)
    BY <1>1, <1>3, <1>4, <2>1, <2>3 DEF Policy!Right
  <2> QED
    BY <1>2, <2>4 DEF Policy!Next
<1> QED
  BY <1>5, <1>6, <1>7

LEMMA NextMaps == DoorInv /\ [Next]_vars => [Policy!Next]_(Policy!vars)
<1> SUFFICES ASSUME DoorInv, [Next]_vars
             PROVE  Policy!Next \/ UNCHANGED Policy!vars
  OBVIOUS
<1>1. CASE UNCHANGED <<now, attempt, req, raced>>
  BY <1>1 DEF Policy!vars, InARow, Until, Admitted, At
<1>2. CASE Tick
  <2>1. UNCHANGED <<InARow, Until, Admitted, raced>> /\ now' = now + 1
    BY <1>2 DEF Tick, InARow, Until, Admitted, At
  <2> QED
    BY <2>1 DEF Policy!Next, Policy!Tick
<1>3. ASSUME NEW w \in Workers, Step(w) \/ Abandon(w)
      PROVE  Policy!Next \/ UNCHANGED Policy!vars
  <2>1. CASE FailWrite(w)
    BY <2>1, FailWriteMaps
  <2>2. CASE Clear(w)
    BY <2>2, ClearMaps
  <2>3. CASE ~FailWrite(w) /\ ~Clear(w)
    <3>1. PICK q \in Request : req' = [req EXCEPT ![w] = q] /\ Onward(w, q)
      BY <1>3, StepsOnward DEF DoorInv
    <3>2. ~At(w, "idle")
      BY <1>3, StepsOnward DEF DoorInv
    <3>3. UNCHANGED <<now, attempt, raced>>
      BY <1>3, <2>3
         DEF Step, Abandon, ReadAttempt, ReadVerifier, FailRead, Mint,
             ChangeReadVerifier, SetPassword
    <3>4. ~At(w, "clear") \/ q = Idle
      <4>1. At(w, "clear") => Abandon(w)
        BY <1>3, <2>3
           DEF Step, ReadAttempt, ReadVerifier, FailRead, Mint,
               ChangeReadVerifier, SetPassword, At
      <4>2. Abandon(w) => q = Idle
        BY <3>1 DEF Abandon, Finish, DoorInv, TypeOK
      <4> QED
        BY <4>1, <4>2
    <3> QED
      BY <3>1, <3>2, <3>3, <3>4, OnwardMaps
  <2> QED
    BY <2>1, <2>2, <2>3
<1> QED
  BY <1>1, <1>2, <1>3, ArriveMaps DEF Next, vars, Disable, Create

\* The statements of the sign-in implement the lock-out: in turn, LockAfter wrong
\* answers bar an address for LockFor and a right one clears it; overlapping
\* ones leave it bounded and touch no other address.
THEOREM OperatorLocksOut == Spec => PolicySpec
<1>1. Spec => [][Policy!Next]_(Policy!vars)
  BY SpecInv, NextMaps, PTL DEF Spec
<1> QED
  BY <1>1, InitMaps, PTL DEF Spec, PolicySpec, Policy!Spec

=============================================================================
