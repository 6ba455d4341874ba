\* Three runs, of which the user starts one at a time: other sessions meet a run only in
\* its mailbox, where UserSends stands for whatever they send.
SPECIFICATION FairSpec
CONSTANTS
    MaxRuns = 3
    Sessions = {s1, s2, s3}
    Saved = {s1}
    Messages = {m1}
    Profiles <- MCProfiles
    Asks <- MCAsks
    Past = past
    None = none
    MaxSteps = 2
    MaxToolCalls = 2
    MaxAtOnce = 1
    KeepRecent = 1
    MaxHistory = 4
    MaxSummary = 2
INVARIANTS ToolBudgetHeld ConsumedWasNamed HistoryWhole DelegationNarrows
PROPERTY RunsStop
CHECK_DEADLOCK FALSE
