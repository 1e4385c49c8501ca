\* One dispatcher, run after run, a push by somebody else, three worker runs.
CONSTANTS
    w1 = w1
    w2 = w2
    Dispatchers = {d1}
    Works = {w1, w2}
    NoWork = NoWork
    Auths = {}
    NoAuth = NoAuth
    Contents <- MCContents
    FirstContent <- FirstPlan
    OperatorStarts = TRUE
    MaxCommits = 2
    MaxRuns = 3
    MaxFaults = 1
SPECIFICATION Spec
CHECK_DEADLOCK FALSE
INVARIANTS
    OneDispatchPerReservation
    ExecutedOnce
    ExecutesReservedCommit
    HolderKeepsReservation
PROPERTIES
    PromotionExtendsReservation
    RunsEnd
