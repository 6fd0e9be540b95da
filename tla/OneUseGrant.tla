---------------------------- MODULE OneUseGrant ----------------------------
(***************************************************************************)
(* What a door that hands out single-use tickets promises, whatever its    *)
(* tickets are and however it checks an answer: a ticket is issued once,   *)
(* spent at most once and for good, and a grant answers to a spent ticket  *)
(* that no other grant answers to.  A spent ticket may be granted to no    *)
(* one: a wrong answer spends it too.                                      *)
(***************************************************************************)
CONSTANTS
    Tickets,  \* what is issued
    Holders,  \* who may be granted something
    None      \* no ticket

VARIABLES
    issued,   \* the tickets that exist
    spent,    \* those that were used
    granted   \* the ticket each holder's grant answers to, or None

vars == <<issued, spent, granted>>

Init ==
    /\ issued = {}
    /\ spent = {}
    /\ granted = [h \in Holders |-> None]

Issue(t) ==
    /\ t \notin issued
    /\ issued' = issued \cup {t}
    /\ UNCHANGED <<spent, granted>>

Spend(t) ==
    /\ t \in issued \ spent
    /\ spent' = spent \cup {t}
    /\ UNCHANGED <<issued, granted>>

Grant(h, t) ==
    /\ t \in spent
    /\ granted[h] = None
    /\ \A g \in Holders : granted[g] # t
    /\ granted' = [granted EXCEPT ![h] = t]
    /\ UNCHANGED <<issued, spent>>

Next ==
    \/ \E t \in Tickets : Issue(t) \/ Spend(t)
    \/ \E h \in Holders, t \in Tickets : Grant(h, t)

Spec == Init /\ [][Next]_vars

=============================================================================
