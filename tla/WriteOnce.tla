------------------------------ MODULE WriteOnce ------------------------------
(***************************************************************************)
(* What a table of write-once values promises: a key's value, once         *)
(* settled, stays, and whoever asks is told the value the key has at some  *)
(* moment between question and answer.  "Has none" is an answer too, as    *)
(* long as it is true.                                                     *)
(***************************************************************************)
CONSTANTS Keys, Values, Askers,
          None  \* no value yet, and no key asked for

VARIABLES
    value,  \* each key's value, or None
    told    \* the answer each asker had last, with the key it is about

vars == <<value, told>>

NoAnswer == [key |-> None, value |-> None]

Init ==
    /\ value = [k \in Keys |-> None]
    /\ told = [a \in Askers |-> NoAnswer]

Settle(k, v) ==
    /\ value[k] = None
    /\ value' = [value EXCEPT ![k] = v]
    /\ UNCHANGED told

Tell(a, k) ==
    /\ told' = [told EXCEPT ![a] = [key |-> k, value |-> value[k]]]
    /\ UNCHANGED value

\* An asker turns to its next question.
Ask(a) ==
    /\ told' = [told EXCEPT ![a] = NoAnswer]
    /\ UNCHANGED value

Next ==
    \/ \E k \in Keys, v \in Values : Settle(k, v)
    \/ \E a \in Askers : Ask(a) \/ \E k \in Keys : Tell(a, k)

Spec == Init /\ [][Next]_vars

=============================================================================
