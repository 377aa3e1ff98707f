SPECIFICATION Spec
CONSTANTS
    r1 = r1
    r2 = r2
    r3 = r3
    Requests <- MCRequests
    NoWait <- MCNoWait
    Size = 1
    Budgeted = FALSE
INVARIANTS
    NoWaitNeverWaits
