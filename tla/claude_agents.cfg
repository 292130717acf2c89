CONSTANTS
    None = None
    MaxCalls = 2
    MaxEdits = 1
    MaxLate = 1
SPECIFICATION Spec
CHECK_DEADLOCK FALSE
INVARIANTS
    SuccessIsEffect
    CreateOrphansBounded
PROPERTIES
    NoBlindOverwrite
    CallEnds
