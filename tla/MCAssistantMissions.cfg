SPECIFICATION Spec
CONSTANTS
    c1 = c1
    Capabilities <- MCCapabilities
    MaxEvents = 3
INVARIANTS
    OneOrderEverywhere
    BuildsAreEarned
    LostOnlyByDaemon
    LessonsSummarise
PROPERTIES
    EveryMissionSettles
CHECK_DEADLOCK FALSE
