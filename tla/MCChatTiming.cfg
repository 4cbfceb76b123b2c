SPECIFICATION LiveSpec
CONSTANTS
    Msgs = {m1, m2, m3}
    FirstUser = {m1, m3}
    Direct = {m3}
    None = None
    Sender <- MCSender
    Secs = {2, 3}
    Tolerance = 1
    Clamp = 2
    StopTtl = 4
    MaxClock = 4
    MaxLatency = 2
    MaxFaults = 1
    Faults = {"enqueue", "denied", "replay"}
    MaxBurst = 3
    MaxOlderDirects = 1
    AnchorBudget = 2
    MultiAnchor = TRUE
INVARIANTS
    TypeOK
    ReplayedOnce
    ForgottenForAReason
PROPERTIES
    VisitFollows
CHECK_DEADLOCK FALSE
