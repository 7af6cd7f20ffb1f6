CONSTANTS
    Threads = {t1}
    PageSize = 2
    Requests <- TwoPages
    Programs <- UsesPte
    RoguePage = 8
    Processors = {c1, c2}
    Caching = TRUE
SPECIFICATION SmpSpec
INVARIANT DeliveredExact
