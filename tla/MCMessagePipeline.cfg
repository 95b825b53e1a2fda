SPECIFICATION FairSpec
CONSTANTS
    l1 = l1
    p1 = p1
    NoLoop = NoLoop
    Loops = {l1}
    Pushers = {p1}
    MaxTasks = 1
    RestartWhileRunning = FALSE
    MaxChannels = 2
    MaxPauses = 2
\* The client may stay closed, and the program stops when an assertion fails.
CHECK_DEADLOCK FALSE
INVARIANTS
    PauseDropsNoFuture
    FlushTimesOutOnlyIfStranded
PROPERTIES
    AcksOnOwnChannel
    MessagesSurvivePauses
