---------------------------- MODULE Verification ----------------------------
(***************************************************************************)
(* The verification record of a member (verification_impl.go) under the    *)
(* operators' decisions (routes/verification.go): SetVerification reads    *)
(* the record and writes it back with a new status and note, beside other  *)
(* decisions and beside the applications members file through the gateway. *)
(*                                                                         *)
(* A note is the status it explains, and the three columns of an           *)
(* application are filled with its id.  The date of the last change is     *)
(* left out: the store stamps every row it writes.                         *)
(***************************************************************************)
CONSTANTS
    Subjects, Submissions, Workers,
    None  \* the empty column

Statuses == {"unverified", "pending", "verified", "rejected"}

ASSUME NoneIsNoValue == None \notin Subjects \cup Submissions \cup Statuses

VARIABLES
    record,  \* the verification table
    req,     \* each worker's call: where it is and the record it carries
    filed,   \* history: the applications each member filed so far
    seen     \* history: the applications the member's row has carried since
             \* the operator looked at it

vars == <<record, req, filed, seen>>

-----------------------------------------------------------------------------
Columns == {"status", "note", "fullName", "phone", "workflowID"}

Row == [status : Statuses \cup {None},
        note : Statuses \cup {None},
        fullName : Submissions \cup {None},
        phone : Submissions \cup {None},
        workflowID : Submissions \cup {None}]

NoRow == [c \in Columns |-> None]

\* A row of the table always has a status.
Exists(s) == record[s] # NoRow

Applications ==
    LET Ids == Submissions \cup {None} IN Ids \X Ids \X Ids

Application(row) == <<row.fullName, row.phone, row.workflowID>>

Request == [pc : {"idle", "get", "set"},
            subject : Subjects \cup {None},
            status : Statuses \cup {None},
            cur : Row]

Idle == [pc |-> "idle", subject |-> None, status |-> None, cur |-> NoRow]

TypeOK ==
    /\ record \in [Subjects -> Row]
    /\ \A s \in Subjects : Exists(s) => record[s].status # None
    /\ req \in [Workers -> Request]
    /\ \A w \in Workers : req[w].pc # "idle" => req[w].subject \in Subjects
    /\ filed \in [Subjects -> SUBSET Submissions]
    /\ seen \in [Workers -> SUBSET Applications]

Init ==
    /\ record = [s \in Subjects |-> NoRow]
    /\ req = [w \in Workers |-> Idle]
    /\ filed = [s \in Subjects |-> {}]
    /\ seen = [w \in Workers |-> {}]

-----------------------------------------------------------------------------
(* The store.                                                              *)

\* Mutant: the query has lost its WHERE.
GetUnkeyed(s) ==
    IF \E t \in Subjects : Exists(t)
    THEN record[CHOOSE t \in Subjects : Exists(t)]
    ELSE [NoRow EXCEPT !.status = "unverified"]

\* A member with no row reads as one nobody has reviewed.
Get(s) ==
    IF Exists(s) THEN record[s] ELSE [NoRow EXCEPT !.status = "unverified"]

\* Mutant: a column is missing from the list of those an upsert assigns.
AssignedButPhone == {"status", "note", "fullName", "workflowID"}

\* Set's AssignmentColumns: all but the key.
Assigned == {"status", "note", "fullName", "phone", "workflowID"}

\* Set: an INSERT, or on conflict an UPDATE of the assigned columns.
Set(s, r) ==
    record' = [record EXCEPT ![s] =
                 IF Exists(s)
                 THEN [c \in Columns |-> IF c \in Assigned THEN r[c] ELSE @[c]]
                 ELSE r]

\* The row of s changes under the operators looking at it.
Widen(s) ==
    seen' = [w \in Workers |->
               IF req[w].pc # "idle" /\ req[w].subject = s
               THEN seen[w] \cup {Application(record'[s])}
               ELSE seen[w]]

-----------------------------------------------------------------------------
(* SetVerification.                                                        *)

At(w, pc) == req[w].pc = pc

Finish(w) == req' = [req EXCEPT ![w] = Idle]

\* An operator decides on the record as it stands, and the decision comes in.
CallSetVerification(w) ==
    /\ At(w, "idle")
    /\ \E s \in Subjects, v \in Statuses :
         /\ req' = [req EXCEPT ![w] = [Idle EXCEPT
                      !.pc = "get", !.subject = s, !.status = v]]
         /\ seen' = [seen EXCEPT ![w] = {Application(record[s])}]
    /\ UNCHANGED <<record, filed>>

\* Mutant: a new record, and the status of the request is not put on it.
NoteOnly(row, v) == [NoRow EXCEPT !.note = v]

\* Mutant: the record is built from the request alone.
FromTheWire(row, v) == [NoRow EXCEPT !.status = v, !.note = v]

\* What the member filed is read off the current record.
CarryForward(row, v) == [row EXCEPT !.status = v, !.note = v]

ReadCurrent(w) ==
    /\ At(w, "get")
    /\ req' = [req EXCEPT
                 ![w].pc = "set",
                 ![w].cur = CarryForward(Get(req[w].subject), req[w].status)]
    /\ UNCHANGED <<record, filed, seen>>

WriteBack(w) ==
    /\ At(w, "set")
    /\ Set(req[w].subject, req[w].cur)
    /\ Widen(req[w].subject)
    /\ Finish(w)
    /\ UNCHANGED filed

\* A statement fails, the status is none of the four, the caller goes away or
\* the process dies.
Abandon(w) ==
    /\ ~At(w, "idle")
    /\ Finish(w)
    /\ UNCHANGED <<record, filed, seen>>

-----------------------------------------------------------------------------
\* The gateway's submitVerification: a member files an application, which opens
\* it for review.  Each has an id of its own.
SubmitVerification(s, a) ==
    /\ \A t \in Subjects : a \notin filed[t]
    /\ Set(s, [status |-> "pending", note |-> None,
               fullName |-> a, phone |-> a, workflowID |-> a])
    /\ filed' = [filed EXCEPT ![s] = @ \cup {a}]
    /\ Widen(s)
    /\ UNCHANGED req

Next ==
    \/ \E w \in Workers :
         CallSetVerification(w) \/ ReadCurrent(w) \/ WriteBack(w) \/ Abandon(w)
    \/ \E s \in Subjects, a \in Submissions : SubmitVerification(s, a)

Spec == Init /\ [][Next]_vars

-----------------------------------------------------------------------------
(* What the record promises.                                               *)

\* A decision is about to be written over an application its member's record
\* carried at some moment since the operator looked: one that was filed
\* meanwhile, or one that is gone, but never an older one or another member's.
VerdictOnSeen ==
    \A w \in Workers : At(w, "set") => Application(req[w].cur) \in seen[w]

\* What the desk sees of it.
Held == [s \in Subjects |-> Application(record[s])]

Filings == [s \in Subjects |-> {<<a, a, a>> : a \in filed[s]}]

Verdict == [s \in Subjects |-> <<Get(s).status, Get(s).note>>]

\* A decision about to be written carries an application its member's record
\* no longer has.
Exposed == {s \in Subjects : \E w \in Workers :
              /\ At(w, "set") /\ req[w].subject = s
              /\ Application(req[w].cur) # Application(record[s])}

Desk == INSTANCE ReviewDesk WITH
    Submissions <- {<<a, a, a>> : a \in Submissions},
    Verdicts <- {<<v, v>> : v \in Statuses},
    Unreviewed <- <<"unverified", None>>,
    Open <- <<"pending", None>>,
    None <- <<None, None, None>>,
    held <- Held, filed <- Filings, verdict <- Verdict, exposed <- Exposed

\* The record implements ReviewDesk: a decision changes what the member filed
\* only if that was filed between the decision's read and its write.  The
\* columns of an application stay together, and a status with its note.
DeskSpec == Desk!Spec

=============================================================================
