SPECIFICATION Spec
CONSTANTS
    k1 = k1
    k2 = k2
    o1 = o1
    KnowledgeEngines <- MCKnowledgeEngines
    Outsiders <- MCOutsiders
    MaxEvents = 4
    MaxListeners = 4
    MaxProjects = 1
INVARIANTS
    HeardUpToTheThrow
    OrderLostOnlyByNesting
CHECK_DEADLOCK FALSE
