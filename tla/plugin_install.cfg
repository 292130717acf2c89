CONSTANTS
    eve = eve
    py = py
    m1 = m1
    m2 = m2
    Absent = Absent
    Damaged = Damaged
    Bare = Bare
    Unreadable = Unreadable
    Modules <- MCModules
    Plugins <- MCPlugins
    Rank <- MCRank
    Version <- MCVersion
    Constraints <- MCConstraints
    Options <- MCOptions
    Commands = {c1, c2}
    MaxBuild = 2
    MaxCommands = 2
    MaxEvents = 1
SPECIFICATION MCSpec
SYMMETRY MCCommands
CHECK_DEADLOCK FALSE
INVARIANTS
    StartedIsLocked
    InstalledRuns
PROPERTIES
    LockBypassedInWindow
    InitRepairs
    PinsKept
