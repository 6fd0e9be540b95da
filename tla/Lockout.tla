------------------------------- MODULE Lockout -------------------------------
(***************************************************************************)
(* The lock-out arithmetic of models/operator.go, which models/auth.go     *)
(* repeats for phone numbers: a row of counted failures, judged and        *)
(* advanced against a reading of the clock.  Pure operators.               *)
(***************************************************************************)
EXTENDS Integers

CONSTANTS
    LockAfter,  \* OperatorLockAfter, five in the code
    LockFor     \* operatorLockFor, fifteen minutes in the code, in ticks

ASSUME LockAfterAssumption == LockAfter \in Nat \ {0}
ASSUME LockForAssumption == LockFor \in Nat \ {0}

\* A row; a lockedUntil of 0 is the zero time, and NoAttempt a missing row.
Attempt == [failed : Nat, lockedUntil : Nat]

NoAttempt == [failed |-> 0, lockedUntil |-> 0]

Locked(a, now) == a.lockedUntil # 0 /\ now < a.lockedUntil

TriesLeft(a) == IF LockAfter > a.failed THEN LockAfter - a.failed ELSE 0

\* Mutant: the lock comes one failure late.
FailOneLate(a, now) ==
    LET expired == a.lockedUntil # 0 /\ ~Locked(a, now)
        n == IF expired THEN 1 ELSE a.failed + 1
        until == IF expired THEN 0 ELSE a.lockedUntil
    IN  [failed |-> n,
         lockedUntil |-> IF n > LockAfter THEN now + LockFor ELSE until]

\* Mutant: any lock is forgotten, run out or not.
FailForgets(a, now) ==
    LET locked == a.lockedUntil # 0
        n == IF locked THEN 1 ELSE a.failed + 1
        until == IF locked THEN 0 ELSE a.lockedUntil
    IN  [failed |-> n,
         lockedUntil |-> IF n >= LockAfter THEN now + LockFor ELSE until]

\* Mutant: the lock is dated back.
FailDatedBack(a, now) ==
    LET expired == a.lockedUntil # 0 /\ ~Locked(a, now)
        n == IF expired THEN 1 ELSE a.failed + 1
        until == IF expired THEN 0 ELSE a.lockedUntil
    IN  [failed |-> n,
         lockedUntil |-> IF n >= LockAfter THEN now - LockFor ELSE until]

\* One failure more.  A lock that has run out is forgotten first, with the
\* failures that led to it; failures that led to no lock are not.
Fail(a, now) ==
    LET expired == a.lockedUntil # 0 /\ ~Locked(a, now)
        n == IF expired THEN 1 ELSE a.failed + 1
        until == IF expired THEN 0 ELSE a.lockedUntil
    IN  [failed |-> n,
         lockedUntil |-> IF n >= LockAfter THEN now + LockFor ELSE until]

=============================================================================
