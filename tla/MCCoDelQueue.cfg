SPECIFICATION QueueEnabled
CONSTANTS
    r1 = r1
    r2 = r2
    r3 = r3
    Requests <- MCRequests
    NoWait <- MCNoWait
    Size = 1
    Budgeted = TRUE
    Tolerate = 3
    CongestedFlag = 2
    Second = 1
INVARIANTS
    ClockOK
    GaugeHonest
PROPERTIES
    ShedMeansSaturated
    RefusalMeansFull
    BudgetEndsWait
