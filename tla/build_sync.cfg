\* Builds, failures, lost records and four changes by the user in every order; every spec.
\* No deadlock check: a directory without a marker is refused until it is empty, and edits run out.
CONSTANTS
    agent = agent
    tool = tool
    g1 = g1
    g2 = g2
    Path = {agent, tool}
    Rank <- InOrder
    Generated = {g1, g2}
    User = {u1, u2}
    Torn = Torn
    Missing = Missing
    Unread = Unread
    Specs <- AllSpecs
    NoMarker = NoMarker
    Newer = Newer
    NoRecord = NoRecord
    MaxEdits = 4
    FaultKinds = {"fail", "tear", "damage"}
    MaxFaults = 1
CHECK_DEADLOCK FALSE
SPECIFICATION Spec
INVARIANTS
    OutputMatches
PROPERTIES
    UndisturbedWorkKept
    RecordedWorkKept
    ReportedOnce
