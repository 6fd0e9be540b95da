------------------------------ MODULE MCSessions ------------------------------
(* A small instance of Sessions. *)
EXTENDS Sessions, TLC

\* Workers, ids and subjects are each interchangeable among themselves.
Symmetry == Permutations(Workers) \cup Permutations(Ids)
            \cup Permutations(Subjects)

=============================================================================
