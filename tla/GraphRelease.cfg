\* Pauses and resumes: a gate, a task and a loop that run side by side; no crash.
SPECIFICATION FairSpec
CONSTANTS
    Top = "top"
    NoNode = "none"
    NoGroup = "none"
    Order <- ReleaseOrder
    Parent <- ReleaseParent
    Kind <- ReleaseKind
    Mode <- ReleaseMode
    Edges <- ReleaseEdges
    Entrypoints <- ReleaseEntrypoints
    JoinCount <- ReleaseJoin
    WhenNodes = {"rescue"}
    WhenEdges <- ReleaseWhenEdges
    Group <- ReleaseGroups
    Compensation <- ReleaseCompensation
    MayReturn <- ReleaseReturns
    ParallelLimit = 3
    MaxExecutions = 9
    MaxDepth = 1
    MaxIterations = 2
    MapItems = {0, 2}
    MinSuccesses = 1
    UsageLimit = 9
    WallLimited = TRUE
    MaxStarts = 3
    MaxCrashes = 0
INVARIANT RecordTruthful
PROPERTY RunStops
CHECK_DEADLOCK FALSE
