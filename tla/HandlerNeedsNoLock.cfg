SPECIFICATION FairSpec
CONSTANTS
    MaxSignals = 1
    MaxMessages = 1
PROPERTIES
    HandlerNeedsNoLock
CHECK_DEADLOCK FALSE
