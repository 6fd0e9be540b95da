----------------------------- MODULE MCPhoneDoor -----------------------------
(* A small instance of PhoneDoor. *)
EXTENDS PhoneDoor, TLC

\* Workers, numbers and subjects are each interchangeable among themselves.
Symmetry == Permutations(Workers) \cup Permutations(Phones)
            \cup Permutations(Subjects)

=============================================================================
