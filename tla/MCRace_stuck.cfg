SPECIFICATION FairSpec
CONSTANTS
    Workers = {w1, w2, w3}
    None = none
    max_per_thread = 1
    ReportEvery = 2
    CanTimeOut = FALSE
PROPERTIES
    RaceReturns
CHECK_DEADLOCK FALSE
