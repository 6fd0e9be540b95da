------------------------------ MODULE MCLastSeen ------------------------------
(* A small instance of LastSeen. *)
EXTENDS LastSeen, TLC

CONSTANTS m1, m2, s1

\* The session is m1's; m2 is a caller that names another's.
OwnerOf == s1 :> m1

Symmetry == Permutations(Workers) \cup Permutations(Hosts)

=============================================================================
