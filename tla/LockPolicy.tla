----------------------------- MODULE LockPolicy -----------------------------
(***************************************************************************)
(* What a lock-out promises about a key, be it an address or a number:     *)
(* LockAfter wrong answers in a row bar it for LockFor ticks, a barred key *)
(* is judged right or wrong no more until then, and a right answer starts  *)
(* the count again and alone admits who gave it.  An answer is judged as   *)
(* of the moment its call came in, which may be earlier than now.          *)
(*                                                                         *)
(* That is promised of answers given one after another.  A key whose       *)
(* answers overlapped is raced until a right answer starts it anew: its    *)
(* row may go any way, but is bounded still, and other keys are not        *)
(* touched.                                                                *)
(*                                                                         *)
(* This is the policy the code has, not the one the comment on Fail        *)
(* (models/operator.go) gives it: wrong answers count however far apart    *)
(* they are, until a right one or a bar that has been lifted, where the    *)
(* comment has them "consecutive within one window".  LockWindow states    *)
(* the comment's and shows that the code breaks it.                        *)
(***************************************************************************)
EXTENDS Integers

CONSTANTS Keys, LockAfter, LockFor

VARIABLES
    clock,
    inARow,  \* wrong answers, of whatever age, since the last right one or
             \* the last bar that was lifted
    until,   \* when the bar is lifted; 0 when there has been none
    admitted, \* the keys whose right answer is being acted on
    raced    \* the keys whose answers overlapped

vars == <<clock, inARow, until, admitted, raced>>

Init ==
    /\ clock \in Nat
    /\ inARow = [k \in Keys |-> 0]
    /\ until = [k \in Keys |-> 0]
    /\ admitted = {}
    /\ raced = {}

Barred(k, t) == t < until[k]

\* No answer is too old to count.
Wrong(k, t) ==
    /\ t <= clock
    /\ ~Barred(k, t)
    /\ LET n == IF until[k] = 0 THEN inARow[k] + 1 ELSE 1
       IN  /\ n <= LockAfter
           /\ inARow' = [inARow EXCEPT ![k] = n]
           /\ until' = [until EXCEPT ![k] = IF n = LockAfter THEN t + LockFor ELSE 0]
    /\ UNCHANGED <<clock, admitted, raced>>

Right(k, t) ==
    /\ t <= clock
    /\ ~Barred(k, t)
    /\ inARow' = [inARow EXCEPT ![k] = 0]
    /\ until' = [until EXCEPT ![k] = 0]
    /\ admitted' = admitted \cup {k}
    /\ UNCHANGED <<clock, raced>>

\* Acted on, or given up.
Leave(k) ==
    /\ admitted' = admitted \ {k}
    /\ UNCHANGED <<clock, inARow, until, raced>>

Tick ==
    /\ clock' = clock + 1
    /\ UNCHANGED <<inARow, until, admitted, raced>>

-----------------------------------------------------------------------------
Overlap(k) ==
    /\ raced' = raced \cup {k}
    /\ UNCHANGED <<clock, inARow, until, admitted>>

\* Wherever an answer to a raced key takes its row, LockAfter failures or more
\* go with a bar of LockFor at most.
Stray(k) ==
    /\ k \in raced
    /\ inARow'[k] \in Nat
    /\ until'[k] \in 0 .. clock + LockFor
    /\ inARow'[k] >= LockAfter <=> until'[k] # 0
    /\ inARow' = [inARow EXCEPT ![k] = inARow'[k]]
    /\ until' = [until EXCEPT ![k] = until'[k]]
    /\ admitted' \in {admitted, admitted \cup {k}, admitted \ {k}}
    /\ UNCHANGED <<clock, raced>>

\* A right answer with no other under way: the key is as new.
Settle(k) ==
    /\ k \in raced
    /\ raced' = raced \ {k}
    /\ inARow' = [inARow EXCEPT ![k] = 0]
    /\ until' = [until EXCEPT ![k] = 0]
    /\ admitted' = admitted \cup {k}
    /\ UNCHANGED clock

Next ==
    \/ \E k \in Keys : \E t \in 0 .. clock : Wrong(k, t) \/ Right(k, t)
    \/ \E k \in Keys : Leave(k) \/ Overlap(k) \/ Stray(k) \/ Settle(k)
    \/ Tick

Spec == Init /\ [][Next]_vars

=============================================================================
