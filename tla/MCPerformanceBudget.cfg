\* A budget of two instants out of five, three cycles, any number of restarts.
CONSTANTS
    DeadlineMs = 2
    MaxClock = 4
    MaxCycles = 3
SPECIFICATION Spec
INVARIANTS
    CyclesWithinBudget
    TelemetryComplete
    CyclesFitElapsedTime
