SPECIFICATION Spec
CONSTANTS
    Addresses = {e1}
    Members = {m1}
    Passwords = {p1}
    Workers = {w1, w2}
    None = None
    LockAfter = 2
    LockFor = 1
    MaxTime = 2
SYMMETRY Symmetry
PROPERTIES
    EveryFailureCounts
