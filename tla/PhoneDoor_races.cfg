SPECIFICATION Spec
CONSTANTS
    Phones = {n1, n2}
    Subjects = {s1, s2}
    Workers = {w1, w2}
    None = None
    LockAfter = 2
    LockFor = 2
    MaxTime = 4
    MaxWrong = 3
SYMMETRY Symmetry
INVARIANTS
    TypeOK
    LockWasEarned
PROPERTIES
    BindingSpec
    OnlyStragglersUnlock
