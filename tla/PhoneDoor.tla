------------------------------ MODULE PhoneDoor ------------------------------
(***************************************************************************)
(* The phone half of the auth store (phoneattempt_impl.go): the count of   *)
(* wrong codes against a number, and the member a number is bound to.  No  *)
(* handler of this repository calls it; the gateway does, so a worker here *)
(* makes one call after another, in any order, beside the others'.  Each   *)
(* statement is an action.                                                 *)
(***************************************************************************)
EXTENDS Lockout, FiniteSets

CONSTANTS
    Phones, Subjects, Workers,
    None,      \* the empty string
    MaxTime,   \* bound on the clock
    MaxWrong   \* bound on a number's wrong codes in a row, given or counted

ASSUME NoneIsNoValue == None \notin Phones \cup Subjects
ASSUME WorkersAssumption == IsFiniteSet(Workers)
ASSUME MaxTimeAssumption == MaxTime \in Nat \ {0}
ASSUME MaxWrongAssumption == MaxWrong \in Nat

VARIABLES
    now,      \* the wall clock
    binding,  \* the binding table: the subject of each number, or None
    attempt,  \* the attempt table
    req,      \* each worker's call: where it is and its local variables
    told,     \* what SubjectIDForPhone last answered each worker
    streak,   \* history: each number's wrong codes since it last started anew
    overtaken, \* history: the calls whose row was read before that
    revived   \* history: the numbers one of those has written since

history == <<streak, overtaken, revived>>

vars == <<now, binding, attempt, req, told, history>>

-----------------------------------------------------------------------------
Points == {"idle", "lookup", "insert", "reread", "failRead", "failWrite",
           "clear"}

\* "minted" is what mintSubject returned; "at" the clock reading the caller of
\* RecordPhoneFailure passes in, and "current" the row it read.
Request == [pc : Points,
            phone : Phones \cup {None},
            minted : Subjects \cup {None},
            at : Nat,
            current : Attempt]

Idle == [pc |-> "idle", phone |-> None, minted |-> None, at |-> 0,
         current |-> NoAttempt]

Answer == [key : Phones \cup {None}, value : Subjects \cup {None}]

NoAnswer == [key |-> None, value |-> None]

TypeOK ==
    /\ now \in Nat
    /\ binding \in [Phones -> Subjects \cup {None}]
    /\ attempt \in [Phones -> Attempt]
    /\ req \in [Workers -> Request]
    /\ \A w \in Workers : req[w].pc # "idle" => req[w].phone \in Phones
    /\ told \in [Workers -> Answer]
    /\ streak \in [Phones -> Nat]
    /\ overtaken \subseteq Workers
    /\ revived \subseteq Phones

Init ==
    /\ now = 1
    /\ binding = [p \in Phones |-> None]
    /\ attempt = [p \in Phones |-> NoAttempt]
    /\ req = [w \in Workers |-> Idle]
    /\ told = [w \in Workers |-> NoAnswer]
    /\ streak = [p \in Phones |-> 0]
    /\ overtaken = {}
    /\ revived = {}

-----------------------------------------------------------------------------
At(w, pc) == req[w].pc = pc

Finish(w) == req' = [req EXCEPT ![w] = Idle]

Arrive(w, call) ==
    /\ At(w, "idle")
    /\ req' = [req EXCEPT ![w] = call]
    /\ told' = [told EXCEPT ![w] = NoAnswer]
    /\ UNCHANGED <<now, binding, attempt>>

CallSubjectID(w, p) ==
    /\ Arrive(w, [Idle EXCEPT !.pc = "lookup", !.phone = p])
    /\ UNCHANGED history

CallRecordFailure(w, p) ==
    /\ streak[p] < MaxWrong
    /\ Arrive(w, [Idle EXCEPT !.pc = "failRead", !.phone = p, !.at = now])
    /\ streak' = [streak EXCEPT ![p] = @ + 1]
    /\ UNCHANGED <<overtaken, revived>>

CallClear(w, p) ==
    /\ Arrive(w, [Idle EXCEPT !.pc = "clear", !.phone = p])
    /\ UNCHANGED history

-----------------------------------------------------------------------------
(* SubjectIDForPhone.                                                      *)

Tell(w, subject) ==
    told' = [told EXCEPT ![w] = [key |-> req[w].phone, value |-> subject]]

\* A number that is bound is answered at once.  One that is not is minted a
\* subject, unless the caller only asks: mintSubject then returns "".
ReadBinding(w) ==
    /\ At(w, "lookup")
    /\ \/ /\ binding[req[w].phone] # None
          /\ Tell(w, binding[req[w].phone])
          /\ Finish(w)
       \/ /\ binding[req[w].phone] = None
          /\ Tell(w, None)
          /\ Finish(w)
       \/ /\ binding[req[w].phone] = None
          /\ \E s \in Subjects :
               req' = [req EXCEPT ![w].pc = "insert", ![w].minted = s]
          /\ UNCHANGED told
    /\ UNCHANGED <<now, binding, attempt, history>>

\* Mutant: the conflict updates the row, as that of RecordPhoneFailure does.
UpsertBinding(p, s) == binding' = [binding EXCEPT ![p] = s]

\* ON CONFLICT DO NOTHING on the number.
BindOnce(p, s) ==
    binding' = IF binding[p] = None THEN [binding EXCEPT ![p] = s] ELSE binding

InsertBinding(w) ==
    /\ At(w, "insert")
    /\ BindOnce(req[w].phone, req[w].minted)
    /\ req' = [req EXCEPT ![w].pc = "reread"]
    /\ UNCHANGED <<now, attempt, told, history>>

\* The answer is what is bound, which is another's subject when that came
\* first.
RereadBinding(w) ==
    /\ At(w, "reread")
    /\ Tell(w, binding[req[w].phone])
    /\ Finish(w)
    /\ UNCHANGED <<now, binding, attempt, history>>

-----------------------------------------------------------------------------
(* RecordPhoneFailure and ClearPhoneAttempts.                              *)

Counting(w, p) == req[w].pc \in {"failRead", "failWrite"} /\ req[w].phone = p

UnderWay(p) == {w \in Workers : Counting(w, p)}

\* History: a right code, or a lock that has run out, starts a number's count
\* anew.  The wrong codes still under way are counted in, as they may be taken
\* to have been given after it; the rows their calls have read are not.
StartAnew(w, p) ==
    /\ streak' = [streak EXCEPT ![p] = Cardinality(UnderWay(p))]
    /\ overtaken' = (overtaken \cup {v \in UnderWay(p) : At(v, "failWrite")}) \ {w}
    /\ revived' = revived \ {p}

\* History: a call writes the row it read back, a failure on.
WriteBack(w, p) ==
    /\ overtaken' = overtaken \ {w}
    /\ revived' = IF w \in overtaken /\ req[w].current.failed # 0
                  THEN revived \cup {p} ELSE revived
    /\ UNCHANGED streak

RanOut(a, at) == a.lockedUntil # 0 /\ ~Locked(a, at)

FailRead(w) ==
    /\ At(w, "failRead")
    /\ attempt[req[w].phone].failed < MaxWrong
    /\ req' = [req EXCEPT ![w].pc = "failWrite",
                          ![w].current = attempt[req[w].phone]]
    /\ UNCHANGED <<now, binding, attempt, told, history>>

\* The upsert overwrites every column with the row advanced in memory.
FailWrite(w) ==
    /\ At(w, "failWrite")
    /\ attempt' = [attempt EXCEPT ![req[w].phone] =
                     Fail(req[w].current, req[w].at)]
    /\ Finish(w)
    /\ IF RanOut(req[w].current, req[w].at)
       THEN StartAnew(w, req[w].phone) ELSE WriteBack(w, req[w].phone)
    /\ UNCHANGED <<now, binding, told>>

\* Mutant: a right code lifts the lock and leaves the count.
ClearLiftsLock(w) ==
    /\ At(w, "clear")
    /\ attempt' = [attempt EXCEPT ![req[w].phone].lockedUntil = 0]
    /\ Finish(w)
    /\ StartAnew(w, req[w].phone)
    /\ UNCHANGED <<now, binding, told>>

Clear(w) ==
    /\ At(w, "clear")
    /\ attempt' = [attempt EXCEPT ![req[w].phone] = NoAttempt]
    /\ Finish(w)
    /\ StartAnew(w, req[w].phone)
    /\ UNCHANGED <<now, binding, told>>

-----------------------------------------------------------------------------
\* A statement fails, the caller goes away or the process dies.
Abandon(w) ==
    /\ ~At(w, "idle")
    /\ Finish(w)
    /\ overtaken' = overtaken \ {w}
    /\ UNCHANGED <<now, binding, attempt, told, streak, revived>>

Tick ==
    /\ now < MaxTime
    /\ now' = now + 1
    /\ UNCHANGED <<binding, attempt, req, told, history>>

Next ==
    \/ \E w \in Workers, p \in Phones :
         CallSubjectID(w, p) \/ CallRecordFailure(w, p) \/ CallClear(w, p)
    \/ \E w \in Workers :
         \/ ReadBinding(w) \/ InsertBinding(w) \/ RereadBinding(w)
         \/ FailRead(w) \/ FailWrite(w) \/ Clear(w) \/ Abandon(w)
    \/ Tick

Spec == Init /\ [][Next]_vars

-----------------------------------------------------------------------------
(* What the store promises.                                                *)

\* However many first verifies of a number race, it is bound to one subject
\* for good and all of them are told that one: SubjectIDForPhone implements
\* WriteOnce.
Register == INSTANCE WriteOnce WITH
    Keys <- Phones, Values <- Subjects, Askers <- Workers, value <- binding

BindingSpec == Register!Spec

\* A number counts no more failures than wrong codes were given for it in a
\* row, since the last right code or run-out lock, and is barred by no fewer
\* than LockAfter: racing failures are lost, never counted twice.  The one
\* exception is a number whose row a call has written back that read it before
\* that right code: see CountIsConsecutive.
LockWasEarned ==
    \A p \in Phones \ revived :
        /\ attempt[p].failed <= streak[p]
        /\ attempt[p].lockedUntil # 0 => streak[p] >= LockAfter

\* "The count is *consecutive* wrong codes, so it survives a device change but
\* not a success": no failure before a right code is in it.  The code has none
\* of that when the right code lands between the read and the upsert of a
\* failure.
CountIsConsecutive == \A p \in Phones : attempt[p].failed <= streak[p]

\* A lock is undone before its time by a right code or by a straggler, a call
\* that read the row before the lock was in it or took its clock reading
\* before the call that set the lock took its own; by nothing else.
OnlyStragglersUnlock ==
    [][\A p \in Phones :
          Locked(attempt[p], now) /\ ~Locked(attempt'[p], now) =>
             \/ attempt'[p] = NoAttempt
             \/ \E w \in Workers :
                   /\ At(w, "failWrite")
                   /\ req[w].phone = p
                   /\ \/ req[w].current # attempt[p]
                      \/ req[w].at + LockFor < attempt[p].lockedUntil]_vars

=============================================================================
