\* Two attempts in each of two starts, three new versions, three faults.
CONSTANTS
    Failures = {f1, f2}
    NoFailure = NoFailure
    MaxAttempts = 2
    MaxContents = 3
    MaxStarts = 2
    MaxFaults = 3
SPECIFICATION FactorySpec
SYMMETRY FailureSymmetry
CHECK_DEADLOCK FALSE
INVARIANTS
    PushesTestedContent
    RepairsNewFailures
    LeavesForeignWork
