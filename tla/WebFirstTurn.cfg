SPECIFICATION Spec
CONSTANTS
    Parts = {"runs"}
    c1 = c1
    c2 = c2
    a = a
    b = b
    Conversations = {c2}
    Roster <- MCRoster
    Coordinator = a
    ModesOf <- MCSoloChat
    Ceiling = 1
    MaxRetained = 1
    MaxRuns = 2
    MaxExtras = 2
    g1 = g1
    g2 = g2
    k1 = k1
    k2 = k2
    GraphRuns = {g1, g2}
    CardsOf <- MCCardsOf
    GraphSlots = 1
    Schedules = {"hourly", "daily"}
    Interval = 2
    MaxMinutes = 4
    MaxStops = 1
    u1 = u1
    u2 = u2
    staff = staff
    guests = guests
    Subjects = {u1, u2}
    GroupOf <- MCGroupOf
    RuleChoices <- MCRuleChoices
    MaxSessions = 2
    MaxPending = 1
    LoginTTL = 0
    SessionTTL = 1
    MaxSeconds = 1
    MaxLogins = 2
INVARIANT SessionRetained
CHECK_DEADLOCK FALSE
