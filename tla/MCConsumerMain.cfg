SPECIFICATION FairSpec
CONSTANTS
    MaxSignals = 2
    MaxMessages = 1
INVARIANTS
    ResumeIsAskedFor
    FailureIsNoticed
    RestartsOnlyAfterReload
PROPERTIES
    QuitHappens
    ReloadHappens
    PauseReturns
CHECK_DEADLOCK FALSE
