\* The gateway: one process, three deliveries of two messages, a window of one key,
\* two permits and one worker.  The audit pipeline: two writers and a flusher, a
\* buffer of two events, batches of two, a crash.  A sandboxed call of each backend.
SPECIFICATION DeliverySpec
CONSTANTS
    Parts = {"gateway", "audit", "sandbox"}
    Requests = {r1, r2, r3}
    Messages = {m1, m2}
    Processes = {p1}
    Window = 1
    MaxPending = 2
    MaxWorkers = 1
    AuditRaises = TRUE
    Writers = {w1, w2}
    Flushers = {f1}
    NoWorker = NoWorker
    Capacity = 2
    BatchSize = 2
    MaxRetries = 1
    Rejected = {3}
    MaxEvents = 3
    MaxFlushes = 2
    MaxCrashes = 1
    Backends = {"process", "bubblewrap", "container"}
    Executables <- MCExecutables
    OutputLimit = 2
    MaxOutput = 3
INVARIANTS DispatchSound AuditKept SandboxSound
PROPERTIES PermitsReturn ImplementsLedger CallsReturn IsolatedCallsReturn
