CONSTANTS
    Threads = {t1, t2}
    PageSize = 2
    Requests <- TwoPages
    Programs <- Divided
    RoguePage = 8
SPECIFICATION Spec
INVARIANT WindowGuarded
