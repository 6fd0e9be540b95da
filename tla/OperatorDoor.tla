----------------------------- MODULE OperatorDoor -----------------------------
(***************************************************************************)
(* The console's sign-in (routes/operator.go) over its store               *)
(* (operator_impl.go, operator_attempt_impl.go): signing in with a         *)
(* password, changing it, withdrawing a credential, and creating one,      *)
(* which only the gateway calls.                                           *)
(*                                                                         *)
(* A worker serves one call after another; calls run beside each other and *)
(* each statement is an action.  Addresses are normalized ones: an address *)
(* is unique, never renamed and so stands for its credential's id.  A      *)
(* verifier is the password it accepts.                                    *)
(***************************************************************************)
EXTENDS Lockout

CONSTANTS
    Addresses, Members, Passwords, Workers,
    None,     \* the empty column, and a caller of no session
    MaxTime   \* bound on the clock

ASSUME NoneIsNoValue == None \notin Members \cup Passwords \cup Addresses

VARIABLES
    now,      \* the wall clock
    cred,     \* the credential table
    attempt,  \* the attempt table
    req,      \* each worker's call: where it is and its local variables
    minted,   \* what the minter gave each worker's latest call, and for which
              \* password (history)
    valid,    \* history: the passwords that could have opened the address at
              \* some moment since the worker's latest call came in
    raced,    \* history: the addresses whose sign-ins overlapped, until one
              \* that is alone clears the row
    shut      \* history: the sign-ins that came in under a lock which has
              \* stood since

vars == <<now, cred, attempt, req, minted, valid, raced, shut>>

-----------------------------------------------------------------------------
Credential == [subject : Members \cup {None},
               passwordHash : Passwords \cup {None},
               disabledAt : Nat]

NoCredential == [subject |-> None, passwordHash |-> None, disabledAt |-> 0]

HasCredential(e) == cred[e].subject # None
Disabled(e)      == cred[e].disabledAt # 0

Points == {"idle", "attempt", "verifier", "failRead", "failWrite", "clear",
           "mint", "changeVerifier", "setPassword"}

\* "at" is OperatorSignIn's one reading of the clock, as the call comes in;
\* "caller" and "new" belong to a password change; "current" is the row
\* RecordFailure read.
Request == [pc : Points,
            email : Addresses \cup {None},
            password : Passwords \cup {None},
            new : Passwords \cup {None},
            caller : Members \cup {None},
            subject : Members \cup {None},
            at : Nat,
            current : Attempt]

Idle == [pc |-> "idle", email |-> None, password |-> None, new |-> None,
         caller |-> None, subject |-> None, at |-> 0, current |-> NoAttempt]

Mints == [email : Addresses \cup {None},
          subject : Members \cup {None},
          password : Passwords \cup {None}]

NoMint == [email |-> None, subject |-> None, password |-> None]

TypeOK ==
    /\ now \in Nat
    /\ cred \in [Addresses -> Credential]
    /\ attempt \in [Addresses -> Attempt]
    /\ req \in [Workers -> Request]
    /\ \A w \in Workers : req[w].pc # "idle" => req[w].email \in Addresses
    /\ minted \in [Workers -> Mints]
    /\ valid \in [Workers -> SUBSET Passwords]
    /\ raced \subseteq Addresses
    /\ shut \subseteq Workers

Init ==
    /\ now = 1
    /\ cred = [e \in Addresses |-> NoCredential]
    /\ attempt = [e \in Addresses |-> NoAttempt]
    /\ req = [w \in Workers |-> Idle]
    /\ minted = [w \in Workers |-> NoMint]
    /\ valid = [w \in Workers |-> {}]
    /\ raced = {}
    /\ shut = {}

-----------------------------------------------------------------------------
At(w, p) == req[w].pc = p

Goto(w, p) == req' = [req EXCEPT ![w].pc = p]

Finish(w) == req' = [req EXCEPT ![w] = Idle]

\* The password a credential's row is opened by, if any.
OpenedBy(row) ==
    IF row.subject # None /\ row.disabledAt = 0 THEN {row.passwordHash} ELSE {}

Arrive(w, call) ==
    /\ At(w, "idle")
    /\ req' = [req EXCEPT ![w] = call]
    /\ minted' = [minted EXCEPT ![w] = NoMint]
    /\ valid' = [valid EXCEPT ![w] = OpenedBy(cred[call.email])]
    /\ UNCHANGED <<now, cred, attempt>>

\* History: a row was written, and the lock some came in under may be gone.
Reopen(w) ==
    shut' = {v \in shut \ {w} : Locked(attempt'[req[v].email], req[v].at)}

\* Another worker's sign-in on the address has yet to count.
Contended(w, e) ==
    \E v \in Workers \ {w} :
        /\ req[v].pc \in {"attempt", "verifier", "failRead", "failWrite", "clear"}
        /\ req[v].email = e

CallSignIn(w) ==
    \E e \in Addresses, p \in Passwords :
        /\ Arrive(w, [Idle EXCEPT !.pc = "attempt", !.email = e,
                                  !.password = p, !.at = now])
        /\ raced' = raced \cup {f \in {e} : Contended(w, f)}
        /\ shut' = shut \cup {v \in {w} : Locked(attempt[e], now)}

CallChangePassword(w) ==
    \E e \in Addresses, p \in Passwords, n \in Passwords, m \in Members :
        /\ Arrive(w, [Idle EXCEPT !.pc = "changeVerifier", !.email = e,
                                  !.password = p, !.new = n, !.caller = m])
        /\ UNCHANGED <<raced, shut>>

-----------------------------------------------------------------------------
(* OperatorSignIn.                                                         *)

\* Mutant: the lock is left to the answer of RecordFailure to tell.
ReadAttemptUnjudged(w) ==
    /\ At(w, "attempt")
    /\ Goto(w, "verifier")
    /\ UNCHANGED <<now, cred, attempt, minted, valid, raced, shut>>

\* Attempt and Locked: a barred address is answered before its credential is
\* looked up.
ReadAttempt(w) ==
    /\ At(w, "attempt")
    /\ IF Locked(attempt[req[w].email], req[w].at)
       THEN Finish(w)
       ELSE Goto(w, "verifier")
    /\ shut' = {v \in shut : req'[v].pc # "idle"}
    /\ UNCHANGED <<now, cred, attempt, minted, valid, raced>>

\* A verifier is the password it was derived from.
Verify(encoded, password) == encoded = password

\* Mutant: Verifier hands out a withdrawn credential as any other.
MatchesWithdrawn(e, p) == HasCredential(e) /\ Verify(cred[e].passwordHash, p)

\* No such address, a withdrawn credential and a wrong password are one and
\* the same refusal.
Matches(e, p) ==
    HasCredential(e) /\ ~Disabled(e) /\ Verify(cred[e].passwordHash, p)

\* Mutant: the failure path forgets which address it counts against.
ReadVerifierUnbound(w) ==
    /\ At(w, "verifier")
    /\ \/ /\ Matches(req[w].email, req[w].password)
          /\ req' = [req EXCEPT ![w].pc = "clear",
                                ![w].subject = cred[req[w].email].subject]
       \/ req' = [req EXCEPT ![w].pc = "failRead", ![w].email = None]
    /\ UNCHANGED <<now, cred, attempt, minted, valid, raced, shut>>

\* A lookup that fails counts as a wrong password, right as it may have been.
ReadVerifier(w) ==
    /\ At(w, "verifier")
    /\ \/ /\ Matches(req[w].email, req[w].password)
          /\ req' = [req EXCEPT ![w].pc = "clear",
                                ![w].subject = cred[req[w].email].subject]
       \/ Goto(w, "failRead")
    /\ UNCHANGED <<now, cred, attempt, minted, valid, raced, shut>>

\* RecordFailure: the row is read, advanced in memory and written back whole.
FailRead(w) ==
    /\ At(w, "failRead")
    /\ req' = [req EXCEPT ![w].pc = "failWrite",
                          ![w].current = attempt[req[w].email]]
    /\ UNCHANGED <<now, cred, attempt, minted, valid, raced, shut>>

FailWrite(w) ==
    /\ At(w, "failWrite")
    /\ attempt' = [attempt EXCEPT ![req[w].email] =
                     Fail(req[w].current, req[w].at)]
    /\ Finish(w)
    /\ Reopen(w)
    /\ UNCHANGED <<now, cred, minted, valid, raced>>

\* Mutant: a right password leaves the failures before it counted.
KeepAttempts(w) ==
    /\ At(w, "clear")
    /\ Goto(w, "mint")
    /\ UNCHANGED <<now, cred, attempt, minted, valid, raced, shut>>

\* ClearAttempts: the row is deleted.
Clear(w) ==
    /\ At(w, "clear")
    /\ attempt' = [attempt EXCEPT ![req[w].email] = NoAttempt]
    /\ raced' = raced \ {e \in {req[w].email} : ~Contended(w, e)}
    /\ Goto(w, "mint")
    /\ Reopen(w)
    /\ UNCHANGED <<now, cred, minted, valid>>

Mint(w) ==
    /\ At(w, "mint")
    /\ minted' = [minted EXCEPT ![w] = [email |-> req[w].email,
                                        subject |-> req[w].subject,
                                        password |-> req[w].password]]
    /\ Finish(w)
    /\ UNCHANGED <<now, cred, attempt, valid, raced, shut>>

-----------------------------------------------------------------------------
(* ChangeOperatorPassword, DisableOperatorCredential, and Create.          *)

\* The credential's verifier changes: a call under way on an address may now
\* be opened by the new one too.
Widen == valid' = [w \in Workers |->
                     IF At(w, "idle") THEN valid[w]
                     ELSE valid[w] \cup OpenedBy(cred'[req[w].email])]

\* Mutant: the current password is not asked for.
ChangeUnproved(w) ==
    /\ At(w, "changeVerifier")
    /\ IF /\ HasCredential(req[w].email)
          /\ ~Disabled(req[w].email)
          /\ cred[req[w].email].subject = req[w].caller
       THEN Goto(w, "setPassword")
       ELSE Finish(w)
    /\ UNCHANGED <<now, cred, attempt, minted, valid, raced, shut>>

\* A new password too short to hash is one more refusal.
ChangeReadVerifier(w) ==
    /\ At(w, "changeVerifier")
    /\ \/ /\ Matches(req[w].email, req[w].password)
          /\ cred[req[w].email].subject = req[w].caller
          /\ Goto(w, "setPassword")
       \/ Finish(w)
    /\ UNCHANGED <<now, cred, attempt, minted, valid, raced, shut>>

\* Mutant: the whole row is saved, as it was when it was read.
SetWholeRow(e, hash) ==
    cred' = [cred EXCEPT ![e].passwordHash = hash, ![e].disabledAt = 0]

\* SetPassword: by id alone, so also on a credential withdrawn meanwhile.
SetHash(e, hash) == cred' = [cred EXCEPT ![e].passwordHash = hash]

SetPassword(w) ==
    /\ At(w, "setPassword")
    /\ SetHash(req[w].email, req[w].new)
    /\ Widen
    /\ Finish(w)
    /\ UNCHANGED <<now, attempt, minted, raced, shut>>

\* Only where no date is set, so a second call changes nothing.
Withdraw(e, at) ==
    cred' = [cred EXCEPT ![e].disabledAt = IF Disabled(e) THEN @ ELSE at]

\* Disable: the clock was read some time before the statement.
Disable(e) ==
    /\ HasCredential(e)
    /\ \E at \in 1 .. now : Withdraw(e, at)
    /\ UNCHANGED <<now, attempt, req, minted, valid, raced, shut>>

\* Create: the unique address refuses a second credential.
Create(e) ==
    /\ ~HasCredential(e)
    /\ \E m \in Members, p \in Passwords :
         cred' = [cred EXCEPT ![e].subject = m, ![e].passwordHash = p]
    /\ Widen
    /\ UNCHANGED <<now, attempt, req, minted, raced, shut>>

-----------------------------------------------------------------------------
\* A statement fails, the caller goes away or the process dies.
Abandon(w) ==
    /\ ~At(w, "idle")
    /\ Finish(w)
    /\ shut' = shut \ {w}
    /\ UNCHANGED <<now, cred, attempt, minted, valid, raced>>

Tick ==
    /\ now < MaxTime
    /\ now' = now + 1
    /\ UNCHANGED <<cred, attempt, req, minted, valid, raced, shut>>

Step(w) ==
    \/ ReadAttempt(w)
    \/ ReadVerifier(w)
    \/ FailRead(w)
    \/ FailWrite(w)
    \/ Clear(w)
    \/ Mint(w)
    \/ ChangeReadVerifier(w)
    \/ SetPassword(w)

Next ==
    \/ \E w \in Workers :
         CallSignIn(w) \/ CallChangePassword(w) \/ Step(w) \/ Abandon(w)
    \/ \E e \in Addresses : Disable(e) \/ Create(e)
    \/ Tick

Spec == Init /\ [][Next]_vars

-----------------------------------------------------------------------------
(* What the door promises.                                                 *)

\* A session answers to a password that opened its address, for the member the
\* credential is bound to, at some moment since the call came in: a call that
\* comes in after Disable or after a password change has nothing to spend.
SessionWasEarned ==
    \A w \in Workers : minted[w] # NoMint =>
        /\ minted[w].password \in valid[w]
        /\ minted[w].subject = cred[minted[w].email].subject

\* A stored verifier is replaced only on behalf of the credential's own member
\* by a call that named a password which opened the address since it came in.
ChangeWasProved ==
    [][\A e \in Addresses :
          HasCredential(e) /\ cred'[e].passwordHash # cred[e].passwordHash =>
             \E w \in Workers :
                /\ At(w, "setPassword")
                /\ req[w].email = e
                /\ req[w].password \in valid[w]
                /\ req[w].caller = cred[e].subject]_vars

\* OperatorRepository: "withdrawn is never restored", whatever password change
\* lands after the withdrawal.
WithdrawnStays ==
    [][\A e \in Addresses : Disabled(e) =>
          cred'[e].disabledAt = cred[e].disabledAt]_vars

\* tries_left is honest however failures overlap: a row leaves its address no
\* tries exactly when it carries a lock, run out or not.
TriesLeftHonest ==
    \A e \in Addresses :
        TriesLeft(attempt[e]) = 0 <=> attempt[e].lockedUntil # 0

\* What the policy sees of it.
InARow == [e \in Addresses |-> attempt[e].failed]

Until == [e \in Addresses |-> attempt[e].lockedUntil]

Admitted == {e \in Addresses : \E w \in Workers : At(w, "mint") /\ req[w].email = e}

Policy == INSTANCE LockPolicy WITH
    Keys <- Addresses, clock <- now, inARow <- InARow, until <- Until,
    admitted <- Admitted

\* The door implements the lock-out (LockPolicy): an address whose sign-ins come
\* one after another has the policy whatever goes on beside them, changes of its
\* password and its withdrawal included; where they overlapped, the next one
\* that is right and alone restores it.  The policy is the code's, which counts
\* failures however far apart they are; that this is not what the comment on
\* Fail says is LockWindow's to show.
PolicySpec == Policy!Spec

\* The lock is judged once, before the slow verification of the password, and a
\* right one deletes the row with the lock of failures that overtook it; yet
\* that is open to sign-ins that came in before the lock only.  One that came in
\* under a lock which has stood since counts nothing, undoes no lock, its own
\* or another's, and yields no session, whatever the others do meanwhile.
LateGuessWritesNothing ==
    [][\A w \in shut : req'[w] # req[w] => UNCHANGED <<attempt, minted>>]_vars

-----------------------------------------------------------------------------
(* What comments of the code say and its steps refute.                     *)

\* models/operator.go, RecordFailure: "counts one wrong password and returns
\* the state after it", of the row as it stands when it is written.
EveryFailureCounts ==
    [][\A w \in Workers : FailWrite(w) =>
          attempt'[req[w].email] = Fail(attempt[req[w].email], req[w].at)]_vars

=============================================================================
