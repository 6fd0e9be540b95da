------------------------------- MODULE Sessions -------------------------------
(***************************************************************************)
(* The declared sessions (session_impl.go) under the two routes over them  *)
(* (routes/sessions.go), as a mount uses them: a request's token is looked *)
(* up, its session is touched or not, as the host chooses, and the request *)
(* is served.  A worker serves one request after another; each statement   *)
(* is an action.  A token is unique, so it stands for its session.         *)
(***************************************************************************)
EXTENDS Integers

CONSTANTS
    Ids, Subjects, Workers,
    None,     \* no id and no subject
    MaxTime   \* bound on the clock and on expiries

ASSUME NoneIsNoValue == None \notin Ids \cup Subjects
ASSUME MaxTimeAssumption == MaxTime \in Nat \ {0}

VARIABLES
    now,      \* the wall clock
    session,  \* the session table
    req,      \* each worker's request: where it is and its local variables
    told      \* the session each worker's latest request was told has ended

vars == <<now, session, req, told>>

-----------------------------------------------------------------------------
\* Dates are ticks; an endedAt of 0 is unset.
Session == [subject : Subjects \cup {None},
            lastUsedAt : Nat,
            expiresAt : Nat,
            endedAt : Nat]

NoSession == [subject |-> None, lastUsedAt |-> 0, expiresAt |-> 0, endedAt |-> 0]

Exists(i) == session[i].subject # None
Ended(i)  == session[i].endedAt # 0
Over(i)   == Exists(i) /\ (Ended(i) \/ session[i].expiresAt <= now)

Points == {"idle", "byToken", "admitted", "touch", "touchReread", "end",
           "endReread"}

\* "current" is the session the token names, "caller" the subject ByToken found,
\* "inUse" what currentOf tells EndOwnSession, "at" the clock reading of the
\* statement to come, and "barred", history, the sessions ended or expired as
\* the request came in.
Request == [pc : Points,
            current : Ids \cup {None},
            caller : Subjects \cup {None},
            target : Ids \cup {None},
            inUse : Ids \cup {None},
            at : Nat,
            barred : SUBSET Ids]

Idle == [pc |-> "idle", current |-> None, caller |-> None, target |-> None,
         inUse |-> None, at |-> 0, barred |-> {}]

TypeOK ==
    /\ now \in Nat
    /\ session \in [Ids -> Session]
    /\ req \in [Workers -> Request]
    /\ \A w \in Workers :
          /\ req[w].pc # "idle" => req[w].current \in Ids
          /\ req[w].pc \notin {"idle", "byToken"} => req[w].caller \in Subjects
          /\ req[w].pc \in {"end", "endReread"} => req[w].target \in Ids
    /\ told \in [Workers -> Ids \cup {None}]

Init ==
    /\ now = 1
    /\ session = [i \in Ids |-> NoSession]
    /\ req = [w \in Workers |-> Idle]
    /\ told = [w \in Workers |-> None]

-----------------------------------------------------------------------------
At(w, pc) == req[w].pc = pc

Finish(w) == req' = [req EXCEPT ![w] = Idle]

\* Start: the row is dated by the sign-in, and has to outlast it.
Start(i) ==
    /\ ~Exists(i)
    /\ \E m \in Subjects, expiry \in (now + 1) .. (MaxTime + 1) :
         session' = [session EXCEPT ![i] =
                       [subject |-> m, lastUsedAt |-> now, expiresAt |-> expiry,
                        endedAt |-> 0]]
    /\ UNCHANGED <<now, req, told>>

\* A request comes in with some session's token, and the mount reads the clock.
CallWithToken(w) ==
    /\ At(w, "idle")
    /\ \E i \in Ids :
         /\ Exists(i)
         /\ req' = [req EXCEPT ![w] =
                      [Idle EXCEPT !.pc = "byToken", !.current = i, !.at = now,
                                   !.barred = {j \in Ids : Over(j)}]]
    /\ told' = [told EXCEPT ![w] = None]
    /\ UNCHANGED <<now, session>>

\* Mutant: only expiry ends a session.
LiveUnexpired(i, at) == Exists(i) /\ session[i].expiresAt > at

\* The rows the live query may return.
Live(i, at) == Exists(i) /\ ~Ended(i) /\ session[i].expiresAt > at

\* Mutant: the lookup does not say whose session it found.
ByTokenOnly(w) ==
    /\ At(w, "byToken")
    /\ Live(req[w].current, req[w].at)
    /\ req' = [req EXCEPT ![w].pc = "admitted", ![w].at = 0]
    /\ UNCHANGED <<now, session, told>>

\* ByToken: unknown, ended and expired are one refusal.
ByToken(w) ==
    LET i == req[w].current
    IN  /\ At(w, "byToken")
        /\ \/ /\ Live(i, req[w].at)
              /\ req' = [req EXCEPT ![w].pc = "admitted", ![w].at = 0,
                                    ![w].caller = session[i].subject]
           \/ /\ ~Live(i, req[w].at)
              /\ Finish(w)
        /\ UNCHANGED <<now, session, told>>

-----------------------------------------------------------------------------
(* Touch.                                                                  *)

CallTouch(w) ==
    /\ At(w, "admitted")
    /\ req' = [req EXCEPT ![w].pc = "touch", ![w].at = now]
    /\ UNCHANGED <<now, session, told>>

\* Mutant: an ended session is touched as any other.
TouchesEnded(i, stamp) == session[i].lastUsedAt < stamp

\* Mutant: the stamp is not compared.
TouchesAlways(i, stamp) == ~Ended(i)

\* The rows the UPDATE matches.
Touches(i, stamp) == ~Ended(i) /\ session[i].lastUsedAt < stamp

TouchUpdate(w) ==
    LET i == req[w].current
    IN  /\ At(w, "touch")
        /\ \/ /\ Touches(i, req[w].at)
              /\ session' = [session EXCEPT ![i].lastUsedAt = req[w].at]
              /\ req' = [req EXCEPT ![w].pc = "admitted", ![w].at = 0]
           \/ /\ ~Touches(i, req[w].at)
              /\ req' = [req EXCEPT ![w].pc = "touchReread", ![w].at = 0]
              /\ UNCHANGED session
        /\ UNCHANGED <<now, told>>

\* An older stamp is no error; an ended session is, and the mount refuses.
TouchReread(w) ==
    /\ At(w, "touchReread")
    /\ \/ /\ ~Ended(req[w].current)
          /\ req' = [req EXCEPT ![w].pc = "admitted", ![w].at = 0]
       \/ /\ Ended(req[w].current)
          /\ Finish(w)
    /\ UNCHANGED <<now, session, told>>

-----------------------------------------------------------------------------
(* EndOwnSession and End.                                                  *)

\* currentOf: a mount with a CurrentSession names the session in use, a mount
\* without one names none.
CurrentOf(w) == {None, req[w].current}

\* Mutant: the session in use is ended as any other.
CallEndInUse(w) ==
    /\ At(w, "admitted")
    /\ \E inUse \in CurrentOf(w), i \in {j \in Ids : Exists(j)} :
         req' = [req EXCEPT ![w].pc = "end", ![w].target = i, ![w].at = now,
                            ![w].inUse = inUse]
    /\ UNCHANGED <<now, session, told>>

\* The session in use, if it is named, is refused before the store is asked.
\* Ids are random, so the id of a session still to be started is not one a
\* request can name; an unknown id is answered as another subject's session is.
CallEnd(w) ==
    /\ At(w, "admitted")
    /\ \E inUse \in CurrentOf(w), i \in {j \in Ids : Exists(j)} :
         /\ i # inUse
         /\ req' = [req EXCEPT ![w].pc = "end", ![w].target = i, ![w].at = now,
                               ![w].inUse = inUse]
    /\ UNCHANGED <<now, session, told>>

\* End's rows, before it asks whether they have ended.
Owned(i, m) == session[i].subject = m

EndUpdate(w) ==
    LET i == req[w].target
        matches == Owned(i, req[w].caller) /\ ~Ended(i)
    IN  /\ At(w, "end")
        /\ \/ /\ matches
              /\ session' = [session EXCEPT ![i].endedAt = req[w].at]
              /\ told' = [told EXCEPT ![w] = i]
              /\ Finish(w)
           \/ /\ ~matches
              /\ req' = [req EXCEPT ![w].pc = "endReread", ![w].at = 0]
              /\ UNCHANGED <<session, told>>
        /\ UNCHANGED now

\* Mutant: a session that is not there was ended, surely.
EndRereadAssumes(w) ==
    /\ At(w, "endReread")
    /\ told' = [told EXCEPT ![w] = req[w].target]
    /\ Finish(w)
    /\ UNCHANGED <<now, session>>

\* The caller's own session had been ended before: that is no error.
EndReread(w) ==
    /\ At(w, "endReread")
    /\ told' = [told EXCEPT ![w] =
                  IF Owned(req[w].target, req[w].caller)
                  THEN req[w].target ELSE None]
    /\ Finish(w)
    /\ UNCHANGED <<now, session>>

-----------------------------------------------------------------------------
\* The request is answered otherwise, a statement fails, the client goes away
\* or the process dies.
Leave(w) ==
    /\ ~At(w, "idle")
    /\ Finish(w)
    /\ UNCHANGED <<now, session, told>>

Tick ==
    /\ now < MaxTime
    /\ now' = now + 1
    /\ UNCHANGED <<session, req, told>>

Next ==
    \/ \E i \in Ids : Start(i)
    \/ \E w \in Workers :
         \/ CallWithToken(w) \/ ByToken(w)
         \/ CallTouch(w) \/ TouchUpdate(w) \/ TouchReread(w)
         \/ CallEnd(w) \/ EndUpdate(w) \/ EndReread(w)
         \/ Leave(w)
    \/ Tick

Spec == Init /\ [][Next]_vars

-----------------------------------------------------------------------------
(* What the sessions promise.                                              *)

\* "Ending one already ended is idempotent and keeps the first instant", and
\* no touch that was on its way lands after it: an ended row is as it was.
EndedStays == [][\A i \in Ids : Ended(i) => session'[i] = session[i]]_vars

\* "Only moves forward", however the touches of racing requests land.
LastUsedMovesOn ==
    [][\A i \in Ids : session'[i].lastUsedAt >= session[i].lastUsedAt]_vars

\* A session is ended only from a sign-in of its own subject: by a request
\* admitted on a session of that subject that had not been over when the
\* request came in.  Where the mount says which session is in use that is
\* another session; only a mount that does not say lets a request end the
\* session it came in on.
EndedByItsHolder ==
    [][\A i \in Ids : ~Ended(i) /\ session'[i].endedAt # 0 =>
          \E w \in Workers :
             /\ At(w, "end")
             /\ req[w].target = i
             /\ req[w].current \notin req[w].barred
             /\ session[req[w].current].subject = session[i].subject
             /\ req[w].current = i => req[w].inUse = None]_vars

\* Who is told a session has ended can rely on it: it has, and stays so.  The
\* two statements of End leave no other answer, whoever else ends or touches
\* the session between them.
EndAnswerIsTrue == \A w \in Workers : told[w] # None => Ended(told[w])

=============================================================================
