\* One dispatcher, run after run; no call fails, nobody starts a worker by hand.
CONSTANTS
    w1 = w1
    w2 = w2
    d1 = d1
    d2 = d2
    Dispatchers = {d1}
    Works = {w1, w2}
    NoWork = NoWork
    Auths = {a1}
    NoAuth = NoAuth
    Contents <- MCContents
    FirstContent <- HeldPlan
    OperatorStarts = FALSE
    MaxCommits = 2
    MaxRuns = 3
    MaxFaults = 0
SPECIFICATION DispatchSpec
CHECK_DEADLOCK FALSE
INVARIANT
    NoDuplicateDispatch
