SPECIFICATION FairSpec
CONSTANTS
    r1 = r1
    r2 = r2
    r3 = r3
    Requests <- MCRequests
    NoWait <- MCNoWait
    Size = 2
    Budgeted = TRUE
INVARIANTS
    LimitRespected
    TokensConserved
    ReceivesNeverBlock
    NoCircle
PROPERTIES
    ImplementsSlotPool
    WaitingEnds
    QueueReceiptEnds
