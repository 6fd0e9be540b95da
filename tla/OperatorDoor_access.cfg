SPECIFICATION Spec
CONSTANTS
    Addresses = {e1}
    Members = {m1, m2}
    Passwords = {p1, p2}
    Workers = {w1, w2}
    None = None
    LockAfter = 5
    LockFor = 1
    MaxTime = 2
SYMMETRY Symmetry
INVARIANTS
    TypeOK
    SessionWasEarned
PROPERTIES
    ChangeWasProved
    WithdrawnStays
    PolicySpec
    LateGuessWritesNothing
