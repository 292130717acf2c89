\* No deadlock check: a behaviour picks one input and ends.
CONSTANTS
    None = None
    Managed = {"bash", "read"}
SPECIFICATION Spec
CHECK_DEADLOCK FALSE
INVARIANTS
    ReadyServes
