\* Every module of MCServices, on its instance.
SPECIFICATION Spec
CONSTANTS
    Parts = {"memory", "upkeep", "review", "mcp", "tasks", "configuration", "profiles", "authority",
             "models", "graphs", "protection", "patches", "keys", "evidence", "skills"}
    Backends = {"postgres", "iceberg"}
    m1 = m1
    Memories = {m1}
    Requests = {1, 2}
    MaxAttempts = 4
    StoredRows = {m1}
    Operators = {"o1", "o2"}
    MaxUpkeep = 3
    p1 = p1
    p2 = p2
    web = web
    cli = cli
    Proposals = {p1, p2}
    Shared = {p2}
    Reviewers = {web, cli}
    WebServer = web
    MaxRequests = 3
    ObstacleSets <- MCObstacleSets
    PageCounts = {1, 2, 3}
    PageBytes = {1, 2}
    MaxPages = 2
    MaxBytes = 3
    MaxEvents = 2
    ExportSets = {{"file.read"}, {"git.diff"}, {"shell.run"}}
    Clients = {"p", "q"}
    TaskKeys = {"k1", "k2"}
    MaxCalls = 5
    Writers = {"cli", "web"}
    x = x
    Values = {x}
    Absent = Absent
    Unchanged = Unchanged
    Layers <- MCLayers
    LocalFiles <- MCLocalFiles
    Troubles = {"none", "unsupported_schema"}
    MaxCommands = 2
    Agents = {"ag"}
    Users = {"u1", "u2"}
    Facts = {"f1"}
    FirstFacts <- MCFirstFacts
    Specs = {"s1"}
    Ceilings = {"propose", "auto"}
    MaxFacts = 1
    MaxProposals = 1
    MaxRevision = 3
    ProfileNames = {"p", "q", "r"}
    Layerings <- MCLayerings
    Parents <- MCParents
    Policies <- MCPolicies
    MaxDepth = 3
    Roots = {"in", "out"}
    Replies <- MCReplies
    Documents <- MCDocuments
    MaxRetries = 2
    GraphSources <- MCGraphSources
    Drafts <- MCDrafts
    GraphPolicies <- MCGraphPolicies
    MaxExecutions = 3
    MaxEdits = 1
    NoGraph = NoGraph
    TextLength = 4
    Patterns <- MCPatterns
    MaxFindings = 2
    SurfacePolicies <- MCSurfaces
    SafetySettings <- MCSettings
    Files = {"f", "g"}
    NoFile = NoFile
    TextLines = {"a", "b"}
    Diffs <- MCDiffs
    MaxOffset = 2
    MaxForeign = 1
    ForeignTexts <- MCForeignTexts
    Verifiers = {"v1", "v2"}
    CacheSeconds = 2
    Cooldown = 1
    Timeout = 1
    MaxTime = 6
    LastKey = 2
    EvidenceRuns = {"r1", "r2"}
    SessionOf <- MCSessionOf
    MaxLines = 6
    MaxExports = 1
    SkillNames = {s1, s2}
    Contents = {"c1", "c2"}
    NoPackage = NoPackage
    SkillCommands = {"cli", "web"}
    MaxSkillCommands = 3
    MaxSourceEdits = 1
INVARIANTS
    ReviewLosesNothing ReferencesResolve DeltasAppliedOnce
    AuthorityNarrows ReplyWhole PlanHolds FindingsContained PatchExact BundlesSound
    InstallsHold
PROPERTIES
    SharedMemoryKept PostgresHoldBlocks McpAnswersHold WithdrawnKeysExpire
CHECK_DEADLOCK FALSE
