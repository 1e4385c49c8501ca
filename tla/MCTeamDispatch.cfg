\* Two dispatchers that race, two works, one authorization, one fault.
CONSTANTS
    w1 = w1
    w2 = w2
    d1 = d1
    d2 = d2
    Dispatchers = {d1, d2}
    Works = {w1, w2}
    NoWork = NoWork
    Auths = {a1}
    NoAuth = NoAuth
    Contents <- MCContents
    FirstContent <- HeldPlan
    OperatorStarts = TRUE
    MaxCommits = 2
    MaxRuns = 3
    MaxFaults = 1
SPECIFICATION DispatchSpec
SYMMETRY Interchangeable
CHECK_DEADLOCK FALSE
INVARIANTS
    DispatchedFromOneCommit
    HeldGateSpendsAuthorization
    OneWorkerPerWork
    OrphansComeFromFaults
