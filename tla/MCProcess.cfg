SPECIFICATION FairSpec
CONSTANTS
    Fd = {d1, d2}
    Origin = {o1}
    MaxOpts = 3
    MaxPolled = 1
    MaxServices = 2
    Pages = {0, 1, 4, 7, 8, 16, 17}
    PageSize = 4
    LongMax = 31
    QUERY_SIZE = 1
    MIN_TOTAL_ASYNC_REQS = 2
    MAX_TOTAL_ASYNC_REQS = 3
INVARIANTS
    TableAgrees
    
    VhostsExact
    
    BudgetFits
PROPERTIES
    HangupCloses
CHECK_DEADLOCK FALSE
