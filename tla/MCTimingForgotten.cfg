SPECIFICATION Spec
CONSTANTS
    Msgs = {m1}
    FirstUser = {m1}
    Direct = {}
    None = None
    Sender <- MCSender
    Secs = {2, 3}
    Tolerance = 1
    Clamp = 2
    StopTtl = 4
    MaxClock = 5
    MaxLatency = 0
    MaxFaults = 0
    Faults = {}
    MaxBurst = 3
    MaxOlderDirects = 1
    AnchorBudget = 2
    MultiAnchor = TRUE
INVARIANT
    NothingForgotten
CHECK_DEADLOCK FALSE
