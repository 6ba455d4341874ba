\* Crashes, exceptions, budgets and compensation; a subgraph beside a task.
SPECIFICATION FairSpec
CONSTANTS
    Top = "top"
    NoNode = "none"
    NoGroup = "none"
    Order <- UpdateOrder
    Parent <- UpdateParent
    Kind <- UpdateKind
    Mode <- UpdateMode
    Edges <- UpdateEdges
    Entrypoints <- UpdateEntrypoints
    JoinCount <- UpdateJoin
    WhenNodes = {"notify"}
    WhenEdges = {}
    Group <- UpdateGroups
    Compensation <- UpdateCompensation
    MayReturn <- UpdateReturns
    ParallelLimit = 2
    MaxExecutions = 6
    MaxDepth = 1
    MaxIterations = 2
    MapItems = {0, 2}
    MinSuccesses = 1
    UsageLimit = 1
    WallLimited = FALSE
    MaxStarts = 2
    MaxCrashes = 1
INVARIANT RecoveryTruthful
PROPERTY CompletedWorkKept
CHECK_DEADLOCK FALSE
