------------------------------- MODULE LastSeen -------------------------------
(***************************************************************************)
(* When a sign-in session was last used: the throttle each host keeps in   *)
(* memory (last_seen.go), over functions in the identity project's         *)
(* database (identity_sessions_sql.go) that touch a session's row and end  *)
(* the session.  A worker is a request being served on some host; the      *)
(* sections under the throttle's mutex are one action each.  Hosts and     *)
(* database read one clock.                                                *)
(***************************************************************************)
EXTENDS Integers

CONSTANTS
    Hosts, Workers, Subjects, Sessions,
    None,      \* no host, subject or session
    Owner,     \* the subject each session belongs to
    Throttle,  \* LastSeenThrottle, two minutes in the code, in ticks
    MaxTime    \* bound on the clock

ASSUME NoneIsNoValue == None \notin Hosts \cup Subjects \cup Sessions
ASSUME OwnerAssumption == Owner \in [Sessions -> Subjects]
ASSUME ThrottleAssumption == Throttle \in Nat \ {0}
ASSUME MaxTimeAssumption == MaxTime \in Nat

VARIABLES
    now,      \* the wall clock
    session,  \* auth.sessions: how each session stands
    seen,     \* session_last_seen: when each was seen; 0 is no row
    touched,  \* each host's map of claims; 0 is no entry
    swept,    \* when each host last swept its map
    req       \* each worker's call: where it is and its local variables

vars == <<now, session, seen, touched, swept, req>>

-----------------------------------------------------------------------------
Keys == Subjects \X Sessions

Points == {"idle", "claim", "select", "insert", "release"}

\* "at" is the host's reading of the clock, before it takes the mutex;
\* "stamp" the database's now(), as its statement begins.
Request == [pc : Points,
            host : Hosts \cup {None},
            subject : Subjects \cup {None},
            session : Sessions \cup {None},
            at : Nat,
            stamp : Nat]

Idle == [pc |-> "idle", host |-> None, subject |-> None, session |-> None,
         at |-> 0, stamp |-> 0]

\* A session is live, past its not_after, or its row is deleted.
TypeOK ==
    /\ now \in Nat
    /\ session \in [Sessions -> {"live", "over", "gone"}]
    /\ seen \in [Sessions -> Nat]
    /\ touched \in [Hosts -> [Keys -> Nat]]
    /\ swept \in [Hosts -> Nat]
    /\ req \in [Workers -> Request]
    /\ \A w \in Workers : req[w].pc # "idle" =>
          /\ req[w].host \in Hosts
          /\ <<req[w].subject, req[w].session>> \in Keys

\* The clock starts far enough from the zero time for a first sweep.
Init ==
    /\ now = Throttle
    /\ session = [s \in Sessions |-> "live"]
    /\ seen = [s \in Sessions |-> 0]
    /\ touched = [h \in Hosts |-> [k \in Keys |-> 0]]
    /\ swept = [h \in Hosts |-> 0]
    /\ req = [w \in Workers |-> Idle]

-----------------------------------------------------------------------------
At(w, pc) == req[w].pc = pc

Goto(w, pc) == req' = [req EXCEPT ![w].pc = pc]

Finish(w) == req' = [req EXCEPT ![w] = Idle]

Key(w) == <<req[w].subject, req[w].session>>

-----------------------------------------------------------------------------
(* LastSeen.Touch.                                                         *)

\* Mutant: a name is not checked, so an empty one goes through.
CallTouchUnchecked(w) ==
    /\ At(w, "idle")
    /\ \E h \in Hosts, k \in Keys, subject \in Subjects \cup {None} :
         req' = [req EXCEPT ![w] = [Idle EXCEPT
                   !.pc = "claim", !.host = h,
                   !.subject = subject, !.session = k[2], !.at = now]]
    /\ UNCHANGED <<now, session, seen, touched, swept>>

\* The caller's names may be any UUIDs, of its own session or another's; any
\* other name is answered before the clock is read.
CallTouch(w) ==
    /\ At(w, "idle")
    /\ \E h \in Hosts, k \in Keys :
         req' = [req EXCEPT ![w] = [Idle EXCEPT
                   !.pc = "claim", !.host = h,
                   !.subject = k[1], !.session = k[2], !.at = now]]
    /\ UNCHANGED <<now, session, seen, touched, swept>>

\* The map after the sweep a claim begins with, when one is due.
Swept(h, at) ==
    [k \in Keys |-> IF at - swept[h] >= Throttle /\ at - touched[h][k] >= Throttle
                    THEN 0 ELSE touched[h][k]]

\* Readings come to the mutex in any order: an older one than the entry's is
\* as throttled as one soon after it.
Claim(w) ==
    LET h == req[w].host
        at == req[w].at
        map == Swept(h, at)
        throttled == map[Key(w)] # 0 /\ at - map[Key(w)] < Throttle
    IN  /\ At(w, "claim")
        /\ swept' = IF at - swept[h] >= Throttle
                    THEN [swept EXCEPT ![h] = at] ELSE swept
        /\ \/ /\ throttled
              /\ touched' = [touched EXCEPT ![h] = map]
              /\ Finish(w)
           \/ /\ ~throttled
              /\ touched' = [touched EXCEPT ![h] = [map EXCEPT ![Key(w)] = at]]
              /\ Goto(w, "select")
        /\ UNCHANGED <<now, session, seen>>

\* Mutant: a failed touch keeps its claim.
KeepClaim(w) ==
    /\ At(w, "release")
    /\ Finish(w)
    /\ UNCHANGED <<now, session, seen, touched, swept>>

\* Only an entry that is still this call's own is taken back.
Release(w) ==
    /\ At(w, "release")
    /\ touched' = [touched EXCEPT ![req[w].host][Key(w)] =
                     IF @ = req[w].at THEN 0 ELSE @]
    /\ Finish(w)
    /\ UNCHANGED <<now, session, seen, swept>>

-----------------------------------------------------------------------------
(* The touch function: INSERT ... SELECT ... ON CONFLICT.  The SELECT and   *)
(* the INSERT see what others commit in between.                           *)

\* Where the SELECT finds no live session of that subject nothing is inserted,
\* and the touch succeeds.
TouchSelect(w) ==
    /\ At(w, "select")
    /\ \/ /\ session[req[w].session] = "live"
          /\ Owner[req[w].session] = req[w].subject
          /\ req' = [req EXCEPT ![w].pc = "insert", ![w].stamp = now]
       \/ /\ \/ session[req[w].session] # "live"
             \/ Owner[req[w].session] # req[w].subject
          /\ Finish(w)
    /\ UNCHANGED <<now, session, seen, touched, swept>>

\* Mutant: the row refers to no session.
AnyReference(s) == TRUE

\* The foreign key.
Referenced(s) == session[s] # "gone"

\* Mutant: the conflict always updates.
NoteAlways(s, stamp) == stamp

\* The row after the upsert.
Noted(s, stamp) ==
    IF seen[s] = 0 \/ seen[s] < stamp - Throttle THEN stamp ELSE seen[s]

\* A session gone meanwhile (foreign key) is no failure either.  The answer of
\* a statement that was carried out may still be lost.
TouchInsert(w) ==
    /\ At(w, "insert")
    /\ \/ /\ Referenced(req[w].session)
          /\ seen' = [seen EXCEPT ![req[w].session] =
                        Noted(req[w].session, req[w].stamp)]
          /\ Finish(w) \/ Goto(w, "release")
       \/ /\ ~Referenced(req[w].session)
          /\ Finish(w)
          /\ UNCHANGED seen
    /\ UNCHANGED <<now, session, touched, swept>>

\* The statement fails or its caller gives up: the claim is given back.
TouchFails(w) ==
    /\ At(w, "select") \/ At(w, "insert")
    /\ Goto(w, "release")
    /\ UNCHANGED <<now, session, seen, touched, swept>>

-----------------------------------------------------------------------------
\* The end function, and the cascade to the row.  It locks the session's row
\* first, so it is one step; of two, the second finds nothing.
End(s) ==
    /\ session[s] # "gone"
    /\ session' = [session EXCEPT ![s] = "gone"]
    /\ seen' = [seen EXCEPT ![s] = 0]
    /\ UNCHANGED <<now, touched, swept, req>>

\* A session passes its not_after.
RunOut(s) ==
    /\ session[s] = "live"
    /\ session' = [session EXCEPT ![s] = "over"]
    /\ UNCHANGED <<now, seen, touched, swept, req>>

\* A host dies and comes back with an empty map; its calls are gone.
Restart(h) ==
    /\ touched' = [touched EXCEPT ![h] = [k \in Keys |-> 0]]
    /\ swept' = [swept EXCEPT ![h] = 0]
    /\ req' = [w \in Workers |-> IF req[w].host = h THEN Idle ELSE req[w]]
    /\ UNCHANGED <<now, session, seen>>

Tick ==
    /\ now < MaxTime
    /\ now' = now + 1
    /\ UNCHANGED <<session, seen, touched, swept, req>>

Next ==
    \/ \E w \in Workers :
         \/ CallTouch(w) \/ Claim(w) \/ Release(w)
         \/ TouchSelect(w) \/ TouchInsert(w) \/ TouchFails(w)
    \/ \E s \in Sessions : End(s) \/ RunOut(s)
    \/ \E h \in Hosts : Restart(h)
    \/ Tick

Spec == Init /\ [][Next]_vars

-----------------------------------------------------------------------------
(* What the throttle and the functions promise.                            *)

\* A host keeps a call from the database only for a claim that was, or still
\* may be, carried out: once the call that made the claim is over, the session
\* was seen no longer than a throttle's width before it, whatever failed, was
\* swept or landed out of order on however many hosts.  Nothing is said of a
\* session whose touches keep failing or hang.
ClaimIsBacked ==
    \A h \in Hosts, s \in Sessions :
        LET claim == touched[h][<<Owner[s], s>>]
            pending == \E w \in Workers :
                          /\ req[w].pc \in {"select", "insert", "release"}
                          /\ req[w].host = h
                          /\ Key(w) = <<Owner[s], s>>
                          /\ req[w].at = claim
        IN  claim # 0 /\ ~pending /\ session[s] = "live" =>
               seen[s] # 0 /\ claim <= seen[s] + Throttle

\* A touch that lands after the end of its session brings no row back.
NoRowWithoutSession == \A s \in Sessions : seen[s] # 0 => session[s] # "gone"

\* Whatever order touches land in, a row moves only forward, and by more than
\* the throttle's width: hosts that race write it once.
SeenMovesOn ==
    [][\A s \in Sessions : seen[s] # 0 /\ seen'[s] \notin {0, seen[s]} =>
          seen'[s] > seen[s] + Throttle]_vars

=============================================================================
