SPECIFICATION Spec
CONSTANTS
    Devices = {d1, d2}
    Members = {m1, m2}
    Challenges = {c1}
    Requests = {r1, r2, r3}
    None = None
    ChallengeTTL = 1
    MaxTime = 1
    AllowUnsignedProof = FALSE
SYMMETRY Symmetry
INVARIANTS
    TypeOK
    OneSessionPerChallenge
    SessionMatchesChallenge
    SweptBeforeRecovered
    SignOutIsWhole
PROPERTIES
    GrantSpec
    SignOutIsFinal
    OnlyStaleSweepRewrites
    LateCallWritesNothing
\* Calls and challenge ids are finite here, so the system may stop.
CHECK_DEADLOCK FALSE
