SPECIFICATION Spec
CONSTANTS
    Requests = {r1, r2}
    n1 = n1
    n2 = n2
    Ids <- MCIds
    Nodes <- MCNodes
    Typed <- MCTyped
    u1 = u1
    u2 = u2
    Names <- MCNames
    Lookalikes <- MCLookalikes
    Null = Null
    None = None
    MaxPolls = 2
    MaxFaults = 1
    ListDefault = 1
    ListMax = 2
    NodeDefault = 2
    NodeMax = 3
    NodePage = 1
    ExportRows = 3
INVARIANTS ExportIsComplete
CHECK_DEADLOCK FALSE
