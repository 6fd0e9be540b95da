SPECIFICATION FairSpec
CONSTANTS
    Devices = {d1}
    Members = {m1}
    Challenges = {c1, c2}
    Requests = {r1, r2}
    None = None
    ChallengeTTL = 1
    MaxTime = 3
    AllowUnsignedProof = TRUE
INVARIANTS
    ExpiredChallengeMintsNothing
PROPERTIES
    EveryCallEnds
\* Calls and challenge ids are finite here, so the system may stop.
CHECK_DEADLOCK FALSE
