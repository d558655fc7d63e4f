\* One run that is run again after npm accepted its package.
SPECIFICATION Spec
CONSTANTS
    Runs = {r1}
    Dispatches = {}
    MaxAttempt = 2
    MaxCommit = 1
    Builds = {0}
    MaxFaults = 1
    Version = "0.2.0"
    None = None
INVARIANTS
    RerunRecovers
CHECK_DEADLOCK FALSE
