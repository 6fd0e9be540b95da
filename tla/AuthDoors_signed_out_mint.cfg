SPECIFICATION Spec
CONSTANTS
    Devices = {d1}
    Members = {m1}
    Challenges = {c1}
    Requests = {r1, r2, r3}
    None = None
    ChallengeTTL = 1
    MaxTime = 2
    AllowUnsignedProof = FALSE
SYMMETRY Symmetry
PROPERTIES
    SignedOutDeviceMintsNothing
\* Calls and challenge ids are finite here, so the system may stop.
CHECK_DEADLOCK FALSE
