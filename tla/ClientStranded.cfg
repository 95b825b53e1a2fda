SPECIFICATION Spec
CONSTANTS
    MaxOpens = 1
    MaxBinds = 1
\* The client may stay closed, or be caught in one of its cycles.
CHECK_DEADLOCK FALSE
INVARIANT
    NeverStranded
