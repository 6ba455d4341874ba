\* One process: a gate of a fragment finds nobody to approve.
SPECIFICATION FairSpec
CONSTANTS
    Top = "top"
    NoNode = "none"
    NoGroup = "none"
    Order <- UpdateOrder
    Parent <- UpdateParent
    Kind <- UpdateKind
    Mode <- UpdateMode
    Edges <- UpdateEdges
    Entrypoints <- UpdateEntrypoints
    JoinCount <- UpdateJoin
    WhenNodes = {"notify"}
    WhenEdges = {}
    Group <- UpdateGroups
    Compensation <- UpdateCompensation
    MayReturn <- UpdateReturns
    ParallelLimit = 2
    MaxExecutions = 6
    MaxDepth = 1
    MaxIterations = 2
    MapItems = {0, 2}
    MinSuccesses = 1
    UsageLimit = 5
    WallLimited = FALSE
    MaxStarts = 1
    MaxCrashes = 0
INVARIANT NestedGateWaits
CHECK_DEADLOCK FALSE
