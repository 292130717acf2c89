\* No deadlock check: a module may declare no platform target, then no command runs.
\* Two commands at once, a reserved label and one that is not.
CONSTANTS
    claude = claude
    memory = memory
    other = other
    official = official
    builtin = builtin
    rival = rival
    Proc = {p1, p2}
    NoProc = NoProc
    Target <- OtherTargets
    Rank <- OtherInOrder
    MemoryLabel = memory
    ClaudeLabel = claude
    Source = {builtin, rival}
    Legacy <- OtherLegacy
    Version = {v1}
    InitVersion = v1
    Builtin = Builtin
    Res = {r}
    Absent = Absent
    Implicit = Implicit
    NoOwner = NoOwner
    NoObject = NoObject
    Unknown = Unknown
    MaxEdits = 1
    MaxFaults = 0
CHECK_DEADLOCK FALSE
SYMMETRY ProcSymmetry
SPECIFICATION Spec
INVARIANTS
    OwnersMatch
    OthersKept
PROPERTIES
    OwnerIsFrozen
