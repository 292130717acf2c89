CONSTANTS
    Callers = {a, b}
    None = None
    Capacity = 1
    MaxCalls = 1
    MaxStrays = 0
SPECIFICATION Spec
CHECK_DEADLOCK FALSE
PROPERTIES
    NeverBlocked
