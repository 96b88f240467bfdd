SPECIFICATION FairSpec
CONSTANTS
    Workers = {w1, w2, w3}
    None = none
    max_per_thread = 3
    ReportEvery = 2
    CanTimeOut = TRUE
INVARIANTS
    TypeOK
    CountWithinOneReport
    NoSolutionLost
    StuckNeedsCrowd
PROPERTIES
    ReturnsUnlessStuck
\* Senders may wait for ever: ReturnsUnlessStuck says when.
CHECK_DEADLOCK FALSE
