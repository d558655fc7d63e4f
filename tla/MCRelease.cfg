SPECIFICATION Spec
CONSTANTS
    Runs = {r1, r2}
    Dispatches = {d1}
    MaxAttempt = 2
    MaxCommit = 2
    Builds = {0}
    MaxFaults = 1
    Version = "0.2.0"
    None = None
SYMMETRY RunSymmetry
INVARIANTS
    PublishedBytesWereRecorded
    RecoveryAccepts
    VerifiedReleaseIsWhatNpmServes
    VerifiedEvidenceIsOneAttempt
PROPERTIES
    ReleaseOnlyGrows
CHECK_DEADLOCK FALSE
