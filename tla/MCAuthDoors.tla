---------------------------- MODULE MCAuthDoors ----------------------------
(* A small instance of AuthDoors. *)
EXTENDS AuthDoors, TLC

\* No id of any kind is told apart from another of its kind.
Symmetry ==
    Permutations(Requests) \cup Permutations(Challenges)
        \cup Permutations(Devices) \cup Permutations(Members)

=============================================================================
