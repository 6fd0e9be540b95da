----------------------------- MODULE SaltEpochs -----------------------------
(***************************************************************************)
(* What the register of salts promises: salts serve one after another, an  *)
(* ended one never serves again, and each has one key for good.            *)
(***************************************************************************)
CONSTANTS SaltIds, Keys,
          None  \* the key of a salt that has not begun

VARIABLES
    serving,  \* the salt that hashes are made under, at most one
    ended,    \* the salts that served
    key       \* each salt's key

vars == <<serving, ended, key>>

Init ==
    /\ serving = {}
    /\ ended = {}
    /\ key = [i \in SaltIds |-> None]

Begin(i, k) ==
    /\ serving = {}
    /\ i \notin ended
    /\ serving' = {i}
    /\ key' = [key EXCEPT ![i] = k]
    /\ UNCHANGED ended

End(i) ==
    /\ i \in serving
    /\ serving' = serving \ {i}
    /\ ended' = ended \cup {i}
    /\ UNCHANGED key

Next == \E i \in SaltIds : End(i) \/ \E k \in Keys : Begin(i, k)

Spec == Init /\ [][Next]_vars

=============================================================================
