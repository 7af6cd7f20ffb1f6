CONSTANTS
    Threads = {t1, t2}
    PageSize = 2
    Requests <- MCRequests
    Programs <- Careful
    RoguePage = 8
SPECIFICATION Spec
INVARIANTS TypeOK WindowStable DeliveredExact NothingHeldOutside ResultHonest
PROPERTIES ReadReturns ReadContract
