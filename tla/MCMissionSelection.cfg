SPECIFICATION Spec
CONSTANTS
    StartTrees <- MCStartTrees
    Editable <- MCEditable
    MaxEdits = 2
    MaxCycles = 2
INVARIANTS
    CompleteMeansBuilt
    AuditBlocksOnWhatIsUnasked
