\* Two commands re-run until the edits and the faults are used up.
CONSTANTS
    p1 = p1
    p2 = p2
    old = old
    new = new
    bad = bad
    Proc = {p1, p2}
    NoProc = NoProc
    Operator = {op}
    Addr <- TwoAddrs
    Config = {old, new, bad}
    Inexpressible = {bad}
    Modules <- AllModules
    InitModule <- Base
    OrderOf <- DepthFirst
    Untracked = Untracked
    Gone = Gone
    MaxEdits = 1
    FaultKinds = {"crash", "remote", "disk"}
    MaxFaults = 1
SPECIFICATION FairSpec
PROPERTIES
    LockIsReleased
    EventuallyConverges
