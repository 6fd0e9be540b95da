------------------------------ MODULE LockWindow ------------------------------
(***************************************************************************)
(* The failures a lock of the console's sign-in rests on, dated: the       *)
(* sign-in of OperatorDoor with the date of the oldest failure each row    *)
(* counts, for what the comment on Fail (models/operator.go) says of them. *)
(* The twin for phone numbers (models/auth.go) is the same to the letter.  *)
(***************************************************************************)
EXTENDS OperatorDoor

CONSTANT Window  \* how far apart failures that lock may be; the comment gives
                 \* no length

VARIABLE oldest  \* history: when each row's first failure was written

DatedInit == Init /\ oldest = [e \in Addresses |-> 0]

DatedNext ==
    /\ Next
    /\ oldest' = [e \in Addresses |->
                    IF attempt'[e] # attempt[e] /\ attempt'[e].failed = 1
                    THEN now ELSE oldest[e]]

DatedSpec == DatedInit /\ [][DatedNext]_<<vars, oldest>>

-----------------------------------------------------------------------------
\* "The five are always consecutive within one window rather than cumulative
\* over an address's lifetime": between the first failure a lock counts and the
\* reading it is dated by there is a Window at most.  The code has no such
\* bound, as only a lock that has run out makes Fail forget.
LockedWithinWindow ==
    \A e \in Addresses : attempt[e].lockedUntil # 0 =>
        attempt[e].lockedUntil <= oldest[e] + Window + LockFor

=============================================================================
