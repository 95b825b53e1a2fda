SPECIFICATION Spec
CONSTANTS
    Scripts <- MCScripts
    Pieces = {3, 64}
INVARIANTS
    FillsItsBuffer
    ReceivedAsSent
    OnlyUnagreedRejected
    EveryFrameArrives
CHECK_DEADLOCK FALSE
