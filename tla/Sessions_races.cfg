SPECIFICATION Spec
CONSTANTS
    Ids = {i1, i2, i3}
    Subjects = {m1, m2}
    Workers = {w1, w2}
    None = None
    MaxTime = 2
SYMMETRY Symmetry
INVARIANTS
    TypeOK
    EndAnswerIsTrue
PROPERTIES
    EndedStays
    LastUsedMovesOn
    EndedByItsHolder
