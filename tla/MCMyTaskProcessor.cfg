SPECIFICATION FairSpec
CONSTANTS
    l1 = l1
    l2 = l2
    p1 = p1
    p2 = p2
    NoLoop = NoLoop
    Loops = {l1, l2}
    Pushers = {p1, p2}
    MaxTasks = 3
    RestartWhileRunning = FALSE
INVARIANTS
    TypeOK
    ExactlyOnceInOrder
    OnlyOwnedLoopRuns
    PopFindsTask
    FlushRunsWhatWasOwed
PROPERTIES
    ImplementsService
    StopReturnsOrSleepsForever
    AcceptedTaskRuns
