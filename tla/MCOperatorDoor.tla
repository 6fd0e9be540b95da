--------------------------- MODULE MCOperatorDoor ---------------------------
(* Small instances of OperatorDoor. *)
EXTENDS OperatorDoor, TLC

\* Workers are interchangeable, and so are passwords.
Symmetry == Permutations(Workers) \cup Permutations(Passwords)

=============================================================================
