SPECIFICATION Spec
CONSTANTS
    Subjects = {s1, s2}
    Submissions = {a1, a2, a3}
    Workers = {w1, w2}
    None = None
SYMMETRY Symmetry
INVARIANTS
    TypeOK
    VerdictOnSeen
PROPERTIES
    DeskSpec
