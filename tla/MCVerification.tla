--------------------------- MODULE MCVerification ---------------------------
(* A small instance of Verification. *)
EXTENDS Verification, TLC

\* Members, applications and workers are each interchangeable.
Symmetry == Permutations(Subjects) \cup Permutations(Submissions)
            \cup Permutations(Workers)

=============================================================================
