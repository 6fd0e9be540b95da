SPECIFICATION IndexSpec
CONSTANTS
    SaltIds = {i1, i2}
    Secrets = {k1, k2}
    Actors = {a1, a2}
    Workers = {w1, w2}
    Regions = {ke, ug}
    Misspelt = kf
    Locals = {l1}
    Issued <- MCIssued
    None = None
SYMMETRY Symmetry
INVARIANTS
    TypeOK
    DigestNamesItsSalt
    LateHashUsesLive
    RetirerIsNamed
    RefusalIsTrue
    HashedAsMeant
PROPERTIES
    EpochSpec
