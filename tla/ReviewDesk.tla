----------------------------- MODULE ReviewDesk -----------------------------
(***************************************************************************)
(* What the record of a member's verification promises: it holds the       *)
(* application the member filed last, under the verdict given last, and a  *)
(* verdict never touches the application.  That is promised of verdicts    *)
(* that have seen the application.  While one is under way that was        *)
(* prepared on an older record, the member is exposed: it may put back     *)
(* what the member had filed before, or nothing, but never another's.      *)
(***************************************************************************)
CONSTANTS
    Subjects, Submissions,
    Verdicts,    \* what a decision can say
    Unreviewed,  \* the verdict on a member nobody has reviewed
    Open,        \* the verdict on an application just filed
    None         \* no application

VARIABLES
    held,     \* the application on each member's record
    filed,    \* the applications each member filed so far
    verdict,  \* the verdict on each member's record
    exposed   \* the members on whom a verdict prepared earlier is under way

vars == <<held, filed, verdict, exposed>>

Init ==
    /\ held = [s \in Subjects |-> None]
    /\ filed = [s \in Subjects |-> {}]
    /\ verdict = [s \in Subjects |-> Unreviewed]
    /\ exposed = {}

\* Only a new application can expose its member.
File(s, a) ==
    /\ \A t \in Subjects : a \notin filed[t]
    /\ held' = [held EXCEPT ![s] = a]
    /\ filed' = [filed EXCEPT ![s] = @ \cup {a}]
    /\ verdict' = [verdict EXCEPT ![s] = Open]
    /\ exposed' \in {exposed, exposed \cup {s}}

Decide(s, v) ==
    /\ verdict' = [verdict EXCEPT ![s] = v]
    /\ exposed' \subseteq exposed
    /\ UNCHANGED <<held, filed>>

\* The verdict comes with an older application.
DecideLate(s, v, a) ==
    /\ s \in exposed
    /\ a \in filed[s] \cup {None}
    /\ held' = [held EXCEPT ![s] = a]
    /\ verdict' = [verdict EXCEPT ![s] = v]
    /\ exposed' \subseteq exposed
    /\ UNCHANGED filed

GiveUp ==
    /\ exposed' \subseteq exposed
    /\ UNCHANGED <<held, filed, verdict>>

Next ==
    \/ \E s \in Subjects :
         \/ \E a \in Submissions : File(s, a)
         \/ \E v \in Verdicts :
              \/ Decide(s, v)
              \/ \E a \in Submissions \cup {None} : DecideLate(s, v, a)
    \/ GiveUp

Spec == Init /\ [][Next]_vars

=============================================================================
