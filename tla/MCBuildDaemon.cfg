\* Three knots and an extension, a person who pushes, two runs, a crash.
CONSTANTS
    k1 = k1
    k2 = k2
    k3 = k3
    x1 = x1
    gate = gate
    f1 = f1
    NoKnot = NoKnot
    MaxRepairAttempts = 1
    Answers <- ShippedAnswers
    Requirements = {"complete"}
    Knots <- MCKnots
    Deps <- MCDeps
    RoadmapKnots = {x1}
    Scripted = {k1, k2}
    PartialKnots = {gate}
    Foreign <- MCForeign
    Provides <- MCProvides
    GitMayFail = TRUE
    Backlog <- MCBacklog
    Extensions <- MCExtensions
    Gate = gate
    Opaque = {}
    MaxCycles = 5
    MaxRuns = 2
    MaxCrashes = 1
SPECIFICATION Spec
CHECK_DEADLOCK FALSE
INVARIANTS
    ReweavesFromCheckpoint
    BuiltKnotsPublished
    WovenOncePerRun
    AdvancedKnotsPresent
PROPERTIES
    PublishesProvenHistory
    CommitsRecordProvenKnot
    FoundWorkSurvives
    RunsEnd
