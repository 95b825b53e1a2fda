SPECIFICATION AckFairSpec
CONSTANTS
    l1 = l1
    p1 = p1
    p2 = p2
    NoLoop = NoLoop
    Loops = {l1}
    Pushers = {p1, p2}
    MaxTasks = 3
    RestartWhileRunning = FALSE
\* The program has stopped when the assertion of Flush has failed.
CHECK_DEADLOCK FALSE
INVARIANTS
    AcksFollowHandlers
    NoPendingFutureDropped
PROPERTY
    AckStopReturns
