\* JsonApprovalStore: two processes, a one-time and a session grant, crashes.
SPECIFICATION Spec
CONSTANTS
    Workers = {w1, w2}
    Ids = {a1, a2}
    NoId = NoId
    Requests = {r1, r2}
    SharedRecords = FALSE
    AllowSession = TRUE
    FailClosed = TRUE
    OnceTtl = 1
    SessionTtl = 1
    MaxTime = 1
    MaxCalls = 3
SYMMETRY Symmetry
INVARIANT OnceConsumedOnce
PROPERTIES NeverRevived ImplementsAuthority
CHECK_DEADLOCK FALSE
