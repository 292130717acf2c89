\* No deadlock check: a module may declare no platform target, then no command runs.
\* The two reserved labels: formats 1 and 2, every declaration, one edit, one fault.
CONSTANTS
    claude = claude
    memory = memory
    other = other
    official = official
    builtin = builtin
    rival = rival
    Proc = {p1}
    NoProc = NoProc
    Target <- TwoTargets
    Rank <- TwoInOrder
    MemoryLabel = memory
    ClaudeLabel = claude
    Source = {official, builtin, rival}
    Legacy <- TwoLegacy
    Version = {v1, v2}
    InitVersion = v1
    Builtin = Builtin
    Res = {r}
    Absent = Absent
    Implicit = Implicit
    NoOwner = NoOwner
    NoObject = NoObject
    Unknown = Unknown
    MaxEdits = 1
    MaxFaults = 1
CHECK_DEADLOCK FALSE
SPECIFICATION Spec
INVARIANTS
    OwnersRecorded
    ApplyCommitsOwnership
    WritesHaveCause
