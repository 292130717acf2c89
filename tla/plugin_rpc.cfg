CONSTANTS
    Callers = {a, b}
    None = None
    Capacity = 1
    MaxCalls = 2
    MaxStrays = 1
SPECIFICATION Spec
CHECK_DEADLOCK FALSE
PROPERTIES
    ImplementsCalls
    CloseEnds
    CancelledEnd
