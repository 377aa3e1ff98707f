SPECIFICATION Spec
CONSTANTS
    s1 = s1
    s2 = s2
    s3 = s3
    h1 = h1
    h2 = h2
    Sessions <- ThreeSessions
    Handlers <- TwoHandlers
    Recorded <- MCRecorded
    Silent <- MCSilent
    Size = 1
CHECK_DEADLOCK FALSE
INVARIANTS
    LiveWithinLimit
