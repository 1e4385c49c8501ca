SPECIFICATION Spec
CONSTANTS
    StartTrees <- MCStartTrees
    Editable <- MCEditable
    MaxEdits = 1
    MaxCycles = 2
PROPERTY
    TrustedWorkKept
