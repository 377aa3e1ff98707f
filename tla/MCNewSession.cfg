SPECIFICATION FairSpec
CONSTANTS
    RetryCount = 3
    MaxCandidates = 2
CHECK_DEADLOCK FALSE
INVARIANTS
    TypeOK
    SlotSettled
    NothingLeftRunning
    FilesPutAway
PROPERTIES
    RecorderStopsFirst
    RequestEnds
