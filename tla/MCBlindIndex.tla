----------------------------- MODULE MCBlindIndex -----------------------------
(* A small instance of BlindIndex. *)
EXTENDS BlindIndex, TLC

\* Workers, actors, secrets, ids and regions are each interchangeable among
\* themselves.
Symmetry == Permutations(Workers) \cup Permutations(Actors)
            \cup Permutations(Secrets) \cup Permutations(SaltIds)
            \cup Permutations(Regions)

MCIssued == [region : Regions, local : Locals]

=============================================================================
