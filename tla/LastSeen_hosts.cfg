SPECIFICATION Spec
CONSTANTS
    Hosts = {h1, h2}
    Workers = {w1, w2}
    m1 = m1
    m2 = m2
    s1 = s1
    Subjects = {m1, m2}
    Sessions = {s1}
    None = None
    Owner <- OwnerOf
    Throttle = 1
    MaxTime = 3
SYMMETRY Symmetry
INVARIANTS
    TypeOK
    ClaimIsBacked
    NoRowWithoutSession
PROPERTIES
    SeenMovesOn
