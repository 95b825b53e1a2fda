SPECIFICATION FairSpec
CONSTANTS
    MaxOpens = 2
    MaxBinds = 1
\* The client may stay closed, or be caught in one of its cycles.
CHECK_DEADLOCK FALSE
INVARIANTS
    ClosedIsQuiet
    LibrarySerialisedUnlessTimedOut
    FlagsAreFresh
PROPERTIES
    CallsReturnUnlessCycle
