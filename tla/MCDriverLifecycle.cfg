CONSTANTS
    Clients = {c1, c2}
    Pages <- MCPages
    HomePage = 1
SPECIFICATION Spec
INVARIANTS TypeOK LeavesNoTrace OnlyEarlyLost
PROPERTIES RestoreUnraced StopHonoured
CHECK_DEADLOCK FALSE
