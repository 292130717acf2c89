\* Two commands on two agents, three module versions, two edits, two faults of any kind.
CONSTANTS
    p1 = p1
    p2 = p2
    old = old
    new = new
    bad = bad
    Proc = {p1, p2}
    NoProc = NoProc
    Operator = {op}
    Addr <- TwoAddrs
    Config = {old, new, bad}
    Inexpressible = {bad}
    Modules <- AllModules
    InitModule <- Base
    OrderOf <- DepthFirst
    Untracked = Untracked
    Gone = Gone
    MaxEdits = 2
    FaultKinds = {"crash", "remote", "disk"}
    MaxFaults = 2
SYMMETRY ProcSymmetry
SPECIFICATION Spec
INVARIANTS
    TypeOK
    MutualExclusion
    SnapshotCurrent
    ObjectsTracked
    SuccessSettles
    PlanIsExact
    DependenciesRespected
    DriftIsForeign
PROPERTIES
    ImplementsStore
