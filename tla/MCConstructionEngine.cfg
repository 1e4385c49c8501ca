\* AutonomousConstructionEngine with its default of three repair attempts.
CONSTANTS
    MaxRepairAttempts = 3
    Answers <- AnyAnswer
    Requirements = {"complete", "incomplete"}
SPECIFICATION EngineSpec
INVARIANTS
    SuccessRestsOnProof
    CompletionEvidenceHolds
    RepairsExhausted
PROPERTIES
    EveryBuildEnds
