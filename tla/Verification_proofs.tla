------------------------- MODULE Verification_proofs -------------------------
(***************************************************************************)
(* Theorems about the verification record: what a decision is written      *)
(* over, and that the record is a ReviewDesk.                              *)
(***************************************************************************)
EXTENDS Verification, TLAPS

-----------------------------------------------------------------------------
(* Rows and the store.                                                     *)

LEMMA ApplicationType ==
    ASSUME NEW r \in Row
    PROVE  Application(r) \in Applications
BY DEF Application, Applications, Row

LEMMA NoRowType == NoRow \in Row
BY DEF NoRow, Row, Columns

\* Set leaves on the table the row it was given: its columns are all assigned.
LEMMA SetStores ==
    ASSUME TypeOK, NEW s \in Subjects, NEW r \in Row, Set(s, r)
    PROVE  record' = [record EXCEPT ![s] = r]
<1>1. [c \in Columns |-> IF c \in Assigned THEN r[c] ELSE record[s][c]] = r
  BY DEF Row, Columns, Assigned
<1> QED
  BY <1>1 DEF Set, TypeOK

\* A row that has a status is on the table.
LEMMA StatusExists ==
    ASSUME NEW s \in Subjects, record[s].status \in Statuses
    PROVE  Exists(s)
BY NoneIsNoValue DEF Exists, NoRow, Columns

\* Where there is no row, what is read carries no application.
LEMMA GetRow ==
    ASSUME TypeOK, NEW s \in Subjects
    PROVE  /\ Get(s) \in Row
           /\ Application(Get(s)) = Application(record[s])
BY DEF Get, Exists, TypeOK, NoRow, Row, Columns, Statuses, Application

LEMMA CarryForwardKeeps ==
    ASSUME NEW r \in Row, NEW v \in Statuses
    PROVE  /\ CarryForward(r, v) \in Row
           /\ Application(CarryForward(r, v)) = Application(r)
           /\ CarryForward(r, v).status = v
           /\ CarryForward(r, v).note = v
BY DEF CarryForward, Row, Application

-----------------------------------------------------------------------------
(* The invariant.                                                          *)

\* A call decides on a member, and what it is about to write says its status.
CallInv ==
    \A w \in Workers :
      /\ req[w].pc # "idle" => req[w].status \in Statuses
      /\ req[w].pc = "set" => /\ req[w].cur.status = req[w].status
                              /\ req[w].cur.note = req[w].status

\* An operator has seen what is on the record and what the call carries.
SeenInv ==
    \A w \in Workers :
      /\ req[w].pc # "idle" => Application(record[req[w].subject]) \in seen[w]
      /\ req[w].pc = "set" => Application(req[w].cur) \in seen[w]

\* An application is whole, and of the member.
Whole(s) == {<<None, None, None>>} \cup {<<a, a, a>> : a \in filed[s]}

WholeInv ==
    /\ \A s \in Subjects : Application(record[s]) \in Whole(s)
    /\ \A w \in Workers :
         req[w].pc = "set" => Application(req[w].cur) \in Whole(req[w].subject)

DeskInv == TypeOK /\ CallInv /\ SeenInv /\ WholeInv

-----------------------------------------------------------------------------
(* All that each step does to the state.                                   *)

\* What a member's filing puts on the record.
FiledRow(a) == [status |-> "pending", note |-> None,
                fullName |-> a, phone |-> a, workflowID |-> a]

LEMMA FiledRowFacts ==
    ASSUME NEW a \in Submissions
    PROVE  /\ FiledRow(a) \in Row
           /\ Application(FiledRow(a)) = <<a, a, a>>
           /\ FiledRow(a).status = "pending"
           /\ FiledRow(a).note = None
BY DEF FiledRow, Row, Statuses, Application

LEMMA WidenSees ==
    ASSUME TypeOK, NEW s \in Subjects, Widen(s), record'[s] \in Row,
           NEW w \in Workers
    PROVE  /\ seen'[w] \in SUBSET Applications
           /\ seen[w] \subseteq seen'[w]
           /\ (req[w].pc # "idle" /\ req[w].subject = s)
                => Application(record'[s]) \in seen'[w]
<1>1. Application(record'[s]) \in Applications
  BY ApplicationType
<1> QED
  BY <1>1 DEF Widen, TypeOK

LEMMA InitInv == Init => DeskInv
<1> SUFFICES ASSUME Init PROVE DeskInv
  OBVIOUS
<1> USE DEF Init
<1>1. TypeOK
  <2>1. record \in [Subjects -> Row]
    BY NoRowType
  <2>2. \A s \in Subjects : ~Exists(s)
    BY DEF Exists
  <2>3. Idle \in Request
    BY NoRowType DEF Idle, Request
  <2> QED
    BY <2>1, <2>2, <2>3 DEF TypeOK, Idle
<1>2. CallInv /\ SeenInv
  BY DEF CallInv, SeenInv, Idle
<1>3. WholeInv
  BY DEF WholeInv, Whole, Application, NoRow, Columns, Idle
<1> QED
  BY <1>1, <1>2, <1>3 DEF DeskInv

\* A step on one worker keeps the invariant if that worker's part of it holds
\* after the step.
LEMMA CallStep ==
    ASSUME DeskInv, NEW w \in Workers,
           NEW q \in Request, NEW z \in SUBSET Applications,
           req' = [req EXCEPT ![w] = q], seen' = [seen EXCEPT ![w] = z],
           UNCHANGED <<record, filed>>,
           q.pc # "idle" => /\ q.subject \in Subjects
                            /\ q.status \in Statuses
                            /\ Application(record[q.subject]) \in z,
           q.pc = "set" => /\ q.cur.status = q.status
                           /\ q.cur.note = q.status
                           /\ Application(q.cur) \in z
                           /\ Application(q.cur) \in Whole(q.subject)
    PROVE  DeskInv'
<1> USE DEF DeskInv
<1>1. TypeOK'
  BY DEF TypeOK, Exists
<1>2. CallInv'
  BY DEF CallInv, TypeOK
<1>3. SeenInv'
  BY DEF SeenInv, TypeOK
<1>4. WholeInv'
  BY DEF WholeInv, TypeOK, Whole
<1> QED
  BY <1>1, <1>2, <1>3, <1>4

LEMMA CallSetVerificationInv ==
    ASSUME DeskInv, NEW w \in Workers, CallSetVerification(w)
    PROVE  DeskInv'
<1> USE DEF DeskInv
<1>1. PICK s \in Subjects, v \in Statuses :
        /\ req' = [req EXCEPT ![w] = [Idle EXCEPT
                     !.pc = "get", !.subject = s, !.status = v]]
        /\ seen' = [seen EXCEPT ![w] = {Application(record[s])}]
  BY DEF CallSetVerification
<1> DEFINE q == [Idle EXCEPT !.pc = "get", !.subject = s, !.status = v]
<1>2. /\ q \in Request
      /\ q.pc = "get"
      /\ q.subject = s
      /\ q.status = v
  BY NoRowType DEF Request, Idle
<1>3. {Application(record[s])} \in SUBSET Applications
  BY ApplicationType DEF TypeOK
<1>4. UNCHANGED <<record, filed>>
  BY DEF CallSetVerification
<1> HIDE DEF q
<1> QED
  BY <1>1, <1>2, <1>3, <1>4, CallStep DEF q

\* The record that a decision carries on is the one on the table.
LEMMA ReadCurrentStep ==
    ASSUME TypeOK, CallInv, NEW w \in Workers, ReadCurrent(w)
    PROVE  \E q \in Request :
             /\ req' = [req EXCEPT ![w] = q]
             /\ q.pc = "set"
             /\ q.subject = req[w].subject
             /\ q.status = req[w].status
             /\ q.cur.status = q.status
             /\ q.cur.note = q.status
             /\ Application(q.cur) = Application(record[q.subject])
<1> DEFINE s == req[w].subject
           v == req[w].status
           r == CarryForward(Get(s), v)
           q == [req[w] EXCEPT !.pc = "set", !.cur = r]
<1>1. s \in Subjects /\ v \in Statuses /\ req[w] \in Request
  BY DEF ReadCurrent, At, TypeOK, CallInv
<1>2. /\ Get(s) \in Row
      /\ Application(Get(s)) = Application(record[s])
  BY <1>1, GetRow
<1>3. /\ r \in Row
      /\ Application(r) = Application(record[s])
      /\ r.status = v
      /\ r.note = v
  BY <1>1, <1>2, CarryForwardKeeps
<1>4. req' = [req EXCEPT ![w] = q]
  BY DEF ReadCurrent, TypeOK, Request
<1> HIDE DEF r
<1>5. /\ q \in Request
      /\ q.pc = "set" /\ q.subject = s /\ q.status = v /\ q.cur = r
  BY <1>1, <1>3 DEF Request
<1> QED
  BY <1>3, <1>4, <1>5

LEMMA ReadCurrentInv ==
    ASSUME DeskInv, NEW w \in Workers, ReadCurrent(w)
    PROVE  DeskInv'
<1> USE DEF DeskInv
<1>1. PICK q \in Request :
             /\ req' = [req EXCEPT ![w] = q]
             /\ q.pc = "set"
             /\ q.subject = req[w].subject
             /\ q.status = req[w].status
             /\ q.cur.status = q.status
             /\ q.cur.note = q.status
             /\ Application(q.cur) = Application(record[q.subject])
  BY ReadCurrentStep
<1>2. q.subject \in Subjects /\ q.status \in Statuses
  BY <1>1 DEF ReadCurrent, At, TypeOK, CallInv
<1>3. Application(record[q.subject]) \in seen[w]
  BY <1>1 DEF ReadCurrent, At, SeenInv
<1>4. Application(record[q.subject]) \in Whole(q.subject)
  BY <1>2 DEF WholeInv
<1>5. /\ seen[w] \in SUBSET Applications
      /\ seen' = [seen EXCEPT ![w] = seen[w]]
      /\ UNCHANGED <<record, filed>>
  BY DEF ReadCurrent, TypeOK
<1> QED
  BY <1>1, <1>2, <1>3, <1>4, <1>5, CallStep

LEMMA AbandonInv ==
    ASSUME DeskInv, NEW w \in Workers, Abandon(w)
    PROVE  DeskInv'
<1> USE DEF DeskInv
<1>1. Idle \in Request /\ Idle.pc = "idle"
  BY NoRowType DEF Idle, Request
<1>2. /\ seen[w] \in SUBSET Applications
      /\ seen' = [seen EXCEPT ![w] = seen[w]]
      /\ UNCHANGED <<record, filed>>
      /\ req' = [req EXCEPT ![w] = Idle]
  BY DEF Abandon, Finish, TypeOK
<1> QED
  BY <1>1, <1>2, CallStep

\* A step that writes a row keeps the invariant if the row says its status and
\* carries an application of its member, and no call is opened.
LEMMA RowStep ==
    ASSUME DeskInv, NEW s \in Subjects, NEW r \in Row,
           record' = [record EXCEPT ![s] = r], Widen(s),
           r.status \in Statuses,
           Application(r) \in Whole(s)',
           filed' \in [Subjects -> SUBSET Submissions],
           \A t \in Subjects : filed[t] \subseteq filed'[t],
           req' \in [Workers -> Request],
           \A w \in Workers : req'[w] = req[w] \/ req'[w] = Idle
    PROVE  DeskInv'
<1> USE DEF DeskInv
<1>1. record'[s] = r
  BY DEF TypeOK
<1>2. \A t \in Subjects \ {s} : record'[t] = record[t]
  BY DEF TypeOK
<1>3. \A w \in Workers : req'[w].pc # "idle" => req'[w] = req[w]
  BY DEF Idle
<1>4. TypeOK'
  <2>1. record' \in [Subjects -> Row]
    BY DEF TypeOK
  <2>2. (\A t \in Subjects : Exists(t) => record[t].status # None)'
    BY <1>1, <1>2, NoneIsNoValue DEF TypeOK, Exists
  <2>3. \A w \in Workers : req'[w].pc # "idle" => req'[w].subject \in Subjects
    BY <1>3 DEF TypeOK
  <2>4. \A w \in Workers : seen'[w] \in SUBSET Applications
    BY <1>1, WidenSees
  <2>5. seen' \in [Workers -> SUBSET Applications]
    BY <2>4 DEF Widen
  <2> QED
    BY <2>1, <2>2, <2>3, <2>5 DEF TypeOK
<1>5. CallInv'
  BY <1>3 DEF CallInv
<1>6. SeenInv'
  <2> SUFFICES ASSUME NEW w \in Workers, req'[w].pc # "idle"
               PROVE  /\ Application(record'[req'[w].subject]) \in seen'[w]
                      /\ req'[w].pc = "set" =>
                           Application(req'[w].cur) \in seen'[w]
    BY DEF SeenInv
  <2>1. req'[w] = req[w] /\ req[w].subject \in Subjects
    BY <1>3 DEF TypeOK
  <2>2. seen[w] \subseteq seen'[w]
    BY <1>1, WidenSees
  <2>3. req[w].subject = s => Application(record'[s]) \in seen'[w]
    BY <1>1, <2>1, WidenSees
  <2>4. req[w].subject # s =>
          Application(record'[req[w].subject]) \in seen'[w]
    BY <1>2, <2>1, <2>2 DEF SeenInv
  <2>5. req[w].pc = "set" => Application(req[w].cur) \in seen'[w]
    BY <2>2 DEF SeenInv
  <2> QED
    BY <2>1, <2>3, <2>4, <2>5
<1>7. WholeInv'
  <2>1. \A t \in Subjects : Whole(t) \subseteq Whole(t)'
    BY DEF Whole
  <2>2. \A t \in Subjects : (Application(record[t]) \in Whole(t))'
    BY <1>1, <1>2, <2>1 DEF WholeInv
  <2>3. ASSUME NEW w \in Workers, req'[w].pc = "set"
        PROVE  (Application(req[w].cur) \in Whole(req[w].subject))'
    <3>1. req'[w] = req[w] /\ req[w].pc = "set" /\ req[w].subject \in Subjects
      BY <1>3, <2>3 DEF TypeOK
    <3>2. Application(req[w].cur) \in Whole(req[w].subject)
      BY <3>1 DEF WholeInv
    <3> QED
      BY <2>1, <3>1, <3>2 DEF Whole
  <2> QED
    BY <2>2, <2>3 DEF WholeInv
<1> QED
  BY <1>4, <1>5, <1>6, <1>7

LEMMA WriteBackStores ==
    ASSUME DeskInv, NEW w \in Workers, WriteBack(w)
    PROVE  /\ req[w].subject \in Subjects
           /\ req[w].cur \in Row
           /\ req[w].status \in Statuses
           /\ req[w].cur.status = req[w].status
           /\ req[w].cur.note = req[w].status
           /\ Application(req[w].cur) \in Whole(req[w].subject)
           /\ record' = [record EXCEPT ![req[w].subject] = req[w].cur]
           /\ req' = [req EXCEPT ![w] = Idle]
           /\ filed' = filed
<1>1. /\ req[w].subject \in Subjects
      /\ req[w].cur \in Row
      /\ req[w].pc = "set"
  BY DEF WriteBack, At, DeskInv, TypeOK, Request
<1>2. record' = [record EXCEPT ![req[w].subject] = req[w].cur]
  BY <1>1, SetStores DEF WriteBack, DeskInv
<1> QED
  BY <1>1, <1>2 DEF WriteBack, Finish, DeskInv, CallInv, WholeInv

LEMMA WriteBackInv ==
    ASSUME DeskInv, NEW w \in Workers, WriteBack(w)
    PROVE  DeskInv'
<1>1. PICK s \in Subjects, r \in Row :
        /\ s = req[w].subject
        /\ r.status \in Statuses
        /\ Application(r) \in Whole(s)
        /\ record' = [record EXCEPT ![s] = r]
        /\ req' = [req EXCEPT ![w] = Idle]
        /\ filed' = filed
  BY WriteBackStores
<1>2. Widen(s)
  BY <1>1 DEF WriteBack
<1>3. Application(r) \in Whole(s)'
  BY <1>1 DEF Whole
<1>4. Idle \in Request
  BY NoRowType DEF Idle, Request
<1>5. /\ req' \in [Workers -> Request]
      /\ \A v \in Workers : req'[v] = req[v] \/ req'[v] = Idle
      /\ filed' \in [Subjects -> SUBSET Submissions]
  BY <1>1, <1>4 DEF DeskInv, TypeOK
<1> QED
  BY <1>1, <1>2, <1>3, <1>5, RowStep

LEMMA SubmitStores ==
    ASSUME DeskInv, NEW s \in Subjects, NEW a \in Submissions,
           SubmitVerification(s, a)
    PROVE  /\ record' = [record EXCEPT ![s] = FiledRow(a)]
           /\ filed' = [filed EXCEPT ![s] = @ \cup {a}]
           /\ \A t \in Subjects : a \notin filed[t]
           /\ req' = req
BY FiledRowFacts, SetStores DEF SubmitVerification, FiledRow, DeskInv

LEMMA SubmitVerificationInv ==
    ASSUME DeskInv, NEW s \in Subjects, NEW a \in Submissions,
           SubmitVerification(s, a)
    PROVE  DeskInv'
<1>1. /\ record' = [record EXCEPT ![s] = FiledRow(a)]
      /\ filed' = [filed EXCEPT ![s] = @ \cup {a}]
      /\ req' = req
  BY SubmitStores
<1>2. Widen(s)
  BY DEF SubmitVerification
<1>3. /\ FiledRow(a) \in Row
      /\ FiledRow(a).status \in Statuses
      /\ Application(FiledRow(a)) = <<a, a, a>>
  BY FiledRowFacts DEF Statuses
<1>4. <<a, a, a>> \in Whole(s)'
  BY <1>1 DEF Whole, DeskInv, TypeOK
<1>5. /\ filed' \in [Subjects -> SUBSET Submissions]
      /\ \A t \in Subjects : filed[t] \subseteq filed'[t]
      /\ req' \in [Workers -> Request]
  BY <1>1 DEF DeskInv, TypeOK
<1> QED
  BY <1>1, <1>2, <1>3, <1>4, <1>5, RowStep

LEMMA NextInv == DeskInv /\ [Next]_vars => DeskInv'
<1> SUFFICES ASSUME DeskInv, [Next]_vars PROVE DeskInv'
  OBVIOUS
<1>1. CASE UNCHANGED vars
  BY <1>1 DEF vars, DeskInv, TypeOK, Exists, CallInv, SeenInv, WholeInv, Whole
<1>2. ASSUME NEW w \in Workers,
             CallSetVerification(w) \/ ReadCurrent(w) \/ WriteBack(w)
               \/ Abandon(w)
      PROVE  DeskInv'
  BY <1>2, CallSetVerificationInv, ReadCurrentInv, WriteBackInv, AbandonInv
<1>3. ASSUME NEW s \in Subjects, NEW a \in Submissions,
             SubmitVerification(s, a)
      PROVE  DeskInv'
  BY <1>3, SubmitVerificationInv
<1> QED
  BY <1>1, <1>2, <1>3 DEF Next

LEMMA SpecInv == Spec => []DeskInv
BY InitInv, NextInv, PTL DEF Spec

\* Every column of a row and of a call holds what the code puts there, and a
\* row on the table always has a status.
THEOREM VerificationTypeCorrect == Spec => []TypeOK
BY SpecInv, PTL DEF DeskInv

\* What SetVerification writes back is an application the record carried since
\* the operator looked at it: never an older one, never another member's.
THEOREM VerdictIsOnSeen == Spec => []VerdictOnSeen
<1>1. DeskInv => VerdictOnSeen
  BY DEF DeskInv, SeenInv, VerdictOnSeen, At
<1> QED
  BY <1>1, SpecInv, PTL

-----------------------------------------------------------------------------
(* The refinement.                                                         *)

\* After a row that has a status is written, its member's verdict is its own
\* and every other member's is kept.
LEMMA RowMaps ==
    ASSUME DeskInv, NEW s \in Subjects, NEW r \in Row,
           record' = [record EXCEPT ![s] = r], r.status \in Statuses
    PROVE  /\ Held' = [Held EXCEPT ![s] = Application(r)]
           /\ Verdict' = [Verdict EXCEPT ![s] = <<r.status, r.note>>]
<1>1. record'[s] = r /\ \A t \in Subjects \ {s} : record'[t] = record[t]
  BY DEF DeskInv, TypeOK
<1>2. Get(s)' = r
  BY <1>1, NoneIsNoValue DEF Get, Exists, NoRow, Columns
<1>3. \A t \in Subjects \ {s} : Get(t)' = Get(t)
  BY <1>1 DEF Get, Exists
<1>4. Held' = [Held EXCEPT ![s] = Application(r)]
  <2>1. \A t \in Subjects :
          Application(record'[t]) = IF t = s THEN Application(r)
                                             ELSE Application(record[t])
    BY <1>1
  <2> QED
    BY <2>1 DEF Held
<1>5. Verdict' = [Verdict EXCEPT ![s] = <<r.status, r.note>>]
  BY <1>2, <1>3 DEF Verdict
<1> QED
  BY <1>4, <1>5

LEMMA InitMaps == Init => Desk!Init
<1> SUFFICES ASSUME Init PROVE Desk!Init
  OBVIOUS
<1>1. \A s \in Subjects :
        /\ Application(record[s]) = <<None, None, None>>
        /\ <<Get(s).status, Get(s).note>> = <<"unverified", None>>
        /\ {<<a, a, a>> : a \in filed[s]} = {}
  BY DEF Init, Application, Get, Exists, NoRow, Columns
<1>2. \A w \in Workers : ~At(w, "set")
  BY DEF Init, Idle, At
<1> QED
  BY <1>1, <1>2 DEF Desk!Init, Held, Filings, Verdict, Exposed

\* A step of a call that leaves the table alone leaves the desk alone or gives
\* up an exposure.
LEMMA CallMaps ==
    ASSUME DeskInv, NEW w \in Workers, NEW q \in Request,
           req' = [req EXCEPT ![w] = q], UNCHANGED <<record, filed>>,
           q.pc = "set" =>
             Application(q.cur) = Application(record[q.subject])
    PROVE  Desk!GiveUp
<1>1. Exposed' \subseteq Exposed
  <2>1. \A v \in Workers \ {w} : req'[v] = req[v]
    BY DEF DeskInv, TypeOK
  <2>2. req'[w] = q
    BY DEF DeskInv, TypeOK
  <2> QED
    BY <2>1, <2>2 DEF Exposed, At
<1>2. UNCHANGED <<Held, Filings, Verdict>>
  BY DEF Held, Filings, Verdict, Get, Exists
<1> QED
  BY <1>1, <1>2
     DEF Desk!GiveUp

\* A decision that is written: over the application on the record, or, on a
\* member who was exposed, over an older one.
LEMMA WriteBackMaps ==
    ASSUME DeskInv, NEW w \in Workers, WriteBack(w)
    PROVE  Desk!Next
<1>1. PICK s \in Subjects, r \in Row, v \in Statuses :
        /\ s = req[w].subject
        /\ r = req[w].cur
        /\ r.status = v
        /\ r.note = v
        /\ Application(r) \in Whole(s)
        /\ record' = [record EXCEPT ![s] = r]
        /\ req' = [req EXCEPT ![w] = Idle]
        /\ filed' = filed
  BY WriteBackStores
<1>2. /\ Held' = [Held EXCEPT ![s] = Application(r)]
      /\ Verdict' = [Verdict EXCEPT ![s] = <<v, v>>]
      /\ Filings' = Filings
  <2>1. <<r.status, r.note>> = <<v, v>> /\ r.status \in Statuses
    BY <1>1
  <2>2. Filings' = Filings
    BY <1>1 DEF Filings
  <2>3. /\ Held' = [Held EXCEPT ![s] = Application(r)]
        /\ Verdict' = [Verdict EXCEPT ![s] = <<r.status, r.note>>]
    BY <1>1, <2>1, RowMaps
  <2> QED
    BY <2>1, <2>2, <2>3
<1>3. record'[s] = r /\ \A t \in Subjects \ {s} : record'[t] = record[t]
  BY <1>1 DEF DeskInv, TypeOK
<1>4. \A u \in Workers : req'[u].pc = "set" => u # w /\ req'[u] = req[u]
  BY <1>1 DEF DeskInv, TypeOK, Idle
<1>5. <<v, v>> \in {<<x, x>> : x \in Statuses}
  OBVIOUS
<1>6. CASE Application(r) = Application(record[s])
  <2>1. Exposed' \subseteq Exposed
    BY <1>3, <1>4, <1>6 DEF Exposed, At
  <2>2. Held' = Held
    BY <1>2, <1>6 DEF Held
  <2>3. Desk!Decide(s, <<v, v>>)
    BY <1>2, <2>1, <2>2
       DEF Desk!Decide
  <2> QED
    BY <1>5, <2>3 DEF Desk!Next
<1>7. CASE Application(r) # Application(record[s])
  <2>1. s \in Exposed
    BY <1>1, <1>7 DEF Exposed, WriteBack, At
  <2>2. Exposed' \subseteq Exposed
    BY <1>3, <1>4, <2>1 DEF Exposed, At
  <2>3. Application(r) \in Filings[s] \cup {<<None, None, None>>}
    BY <1>1 DEF Filings, Whole
  <2>4. Desk!DecideLate(s, <<v, v>>, Application(r))
    BY <1>2, <2>1, <2>2, <2>3
       DEF Desk!DecideLate
  <2>5. Application(r) \in {<<a, a, a>> : a \in Submissions}
                            \cup {<<None, None, None>>}
    BY <1>1 DEF Whole, DeskInv, TypeOK
  <2> QED
    BY <1>5, <2>4, <2>5 DEF Desk!Next
<1> QED
  BY <1>6, <1>7

\* Filing exposes the member to the decisions that are about to be written.
LEMMA SubmitMaps ==
    ASSUME DeskInv, NEW s \in Subjects, NEW a \in Submissions,
           SubmitVerification(s, a)
    PROVE  Desk!File(s, <<a, a, a>>)
<1>1. /\ record' = [record EXCEPT ![s] = FiledRow(a)]
      /\ filed' = [filed EXCEPT ![s] = @ \cup {a}]
      /\ \A t \in Subjects : a \notin filed[t]
      /\ req' = req
  BY SubmitStores
<1>2. /\ FiledRow(a) \in Row
      /\ Application(FiledRow(a)) = <<a, a, a>>
      /\ FiledRow(a).status = "pending"
      /\ FiledRow(a).note = None
  BY FiledRowFacts
<1>3. /\ Held' = [Held EXCEPT ![s] = <<a, a, a>>]
      /\ Verdict' = [Verdict EXCEPT ![s] = <<"pending", None>>]
  BY <1>1, <1>2, RowMaps DEF Statuses
<1>4. Filings' = [Filings EXCEPT ![s] = @ \cup {<<a, a, a>>}]
  <2>1. \A t \in Subjects : filed'[t] =
          IF t = s THEN filed[t] \cup {a} ELSE filed[t]
    BY <1>1 DEF DeskInv, TypeOK
  <2> QED
    BY <2>1 DEF Filings
<1>5. \A t \in Subjects : <<a, a, a>> \notin Filings[t]
  BY <1>1 DEF Filings
<1>6. /\ Application(record'[s]) = <<a, a, a>>
      /\ \A t \in Subjects \ {s} : record'[t] = record[t]
  BY <1>1, <1>2 DEF DeskInv, TypeOK
<1>7. \A w \in Workers :
        req[w].pc = "set" /\ req[w].subject = s
          => Application(req[w].cur) # <<a, a, a>>
  BY <1>1, NoneIsNoValue DEF DeskInv, WholeInv, Whole
<1>8. Exposed' \in {Exposed, Exposed \cup {s}}
  <2>1. \A t \in Subjects \ {s} : t \in Exposed' <=> t \in Exposed
    BY <1>1, <1>6 DEF Exposed, At
  <2>2. s \in Exposed => s \in Exposed'
    BY <1>1, <1>6, <1>7 DEF Exposed, At
  <2>3. Exposed \subseteq Subjects /\ Exposed' \subseteq Subjects
    BY DEF Exposed
  <2> QED
    BY <2>1, <2>2, <2>3
<1> QED
  BY <1>3, <1>4, <1>5, <1>8
     DEF Desk!File

LEMMA NextMaps == DeskInv /\ [Next]_vars => [Desk!Next]_(Desk!vars)
<1> SUFFICES ASSUME DeskInv, [Next]_vars
             PROVE  Desk!Next \/ UNCHANGED Desk!vars
  OBVIOUS
<1>1. CASE UNCHANGED vars
  BY <1>1 DEF vars, Desk!vars, Held, Filings, Verdict, Exposed, Get, Exists, At
<1>2. ASSUME NEW w \in Workers, CallSetVerification(w) \/ Abandon(w)
      PROVE  Desk!Next
  <2>1. UNCHANGED <<record, filed>>
    BY <1>2 DEF CallSetVerification, Abandon
  <2>2. \E q \in Request : req' = [req EXCEPT ![w] = q] /\ q.pc # "set"
    <3>1. CASE CallSetVerification(w)
      <4>1. PICK s \in Subjects, v \in Statuses :
              req' = [req EXCEPT ![w] = [Idle EXCEPT
                        !.pc = "get", !.subject = s, !.status = v]]
        BY <3>1 DEF CallSetVerification
      <4>2. [Idle EXCEPT !.pc = "get", !.subject = s, !.status = v]
              \in Request
        BY NoRowType DEF Idle, Request
      <4> QED
        BY <4>1, <4>2 DEF Idle
    <3>2. CASE Abandon(w)
      <4>1. Idle \in Request /\ Idle.pc # "set"
        BY NoRowType DEF Idle, Request
      <4> QED
        BY <3>2, <4>1 DEF Abandon, Finish
    <3> QED
      BY <1>2, <3>1, <3>2
  <2> QED
    BY <2>1, <2>2, CallMaps DEF Desk!Next
<1>3. ASSUME NEW w \in Workers, ReadCurrent(w)
      PROVE  Desk!Next
  <2>1. UNCHANGED <<record, filed>>
    BY <1>3 DEF ReadCurrent
  <2> QED
    BY <1>3, <2>1, ReadCurrentStep, CallMaps DEF Desk!Next, DeskInv
<1>4. ASSUME NEW s \in Subjects, NEW a \in Submissions,
             SubmitVerification(s, a)
      PROVE  Desk!Next
  BY <1>4, SubmitMaps DEF Desk!Next
<1> QED
  BY <1>1, <1>2, <1>3, <1>4, WriteBackMaps DEF Next

\* The record of a member's verification is a ReviewDesk: a decision changes
\* what the member filed only if that was filed between its read and its write.
THEOREM RecordIsDesk == Spec => DeskSpec
<1>1. Spec => [][Desk!Next]_(Desk!vars)
  BY SpecInv, NextMaps, PTL DEF Spec
<1> QED
  BY <1>1, InitMaps, PTL DEF Spec, DeskSpec, Desk!Spec

=============================================================================
