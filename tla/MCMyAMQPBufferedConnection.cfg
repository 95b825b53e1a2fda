SPECIFICATION FairSpec
CONSTANTS
    Byte <- MCByte
    Fill <- MCFill
    Limit = 4
    AppendMax = 2
    MaxRemainder = 1
    MaxConn = 2
    MaxSent = 3
    MaxControl = 2
\* The last connection may be closed for good.
CHECK_DEADLOCK FALSE
INVARIANTS
    StreamInOrder
PROPERTIES
    FailsForAReason
    OwnerReturns
    DataIsRead
