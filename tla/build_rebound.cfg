\* A runtime tool that the user has implemented becomes an http tool.
\* No deadlock check: a directory without a marker is refused until it is empty, and edits run out.
CONSTANTS
    agent = agent
    tool = tool
    g1 = g1
    g2 = g2
    Path = {agent, tool}
    Rank <- InOrder
    Generated = {g1, g2}
    User = {u1}
    Torn = Torn
    Missing = Missing
    Unread = Unread
    Specs <- AllSpecs
    NoMarker = NoMarker
    Newer = Newer
    NoRecord = NoRecord
    MaxEdits = 3
    FaultKinds = {}
    MaxFaults = 0
CHECK_DEADLOCK FALSE
SPECIFICATION Spec
PROPERTIES
    WorkKept
