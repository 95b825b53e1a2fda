SPECIFICATION Spec
CONSTANTS
    Methods <- MCMethods
    ChannelMax = 0
    MaxChannels = 2
    MaxInputs = 4
INVARIANTS
    OneAtATime
    FramesInOrder
    MessagesInOrder
PROPERTIES
    ImplementsRequests
    CloseCompletes
    RequestsSettle
CHECK_DEADLOCK FALSE
