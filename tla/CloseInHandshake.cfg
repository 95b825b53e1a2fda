SPECIFICATION Spec
CONSTANTS
    Methods = {}
    ChannelMax = 0
    MaxChannels = 1
    MaxInputs = 1
PROPERTY DelayedCloseCompletes
CHECK_DEADLOCK FALSE
