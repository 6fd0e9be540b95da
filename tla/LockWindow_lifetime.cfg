SPECIFICATION DatedSpec
CONSTANTS
    Addresses = {e1}
    Members = {m1}
    Passwords = {p1}
    Workers = {w1}
    None = None
    LockAfter = 5
    LockFor = 1
    MaxTime = 4
    Window = 2
INVARIANTS
    LockedWithinWindow
