SPECIFICATION FairSpec
CONSTANTS
    l1 = l1
    l2 = l2
    p1 = p1
    p2 = p2
    NoLoop = NoLoop
    Loops = {l1, l2}
    Pushers = {p1}
    MaxTasks = 1
    RestartWhileRunning = FALSE
PROPERTY
    StopReturns
