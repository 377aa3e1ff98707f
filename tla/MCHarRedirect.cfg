SPECIFICATION Spec
CONSTANTS
    d1 = d1
    d2 = d2
    q1 = q1
    q2 = q2
    Deleters <- TwoDeleters
    Ids <- TwoIds
    MaxFrames = 4
CHECK_DEADLOCK FALSE
INVARIANTS
    EverySendingKept
