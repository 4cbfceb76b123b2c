SPECIFICATION LiveSpec
CONSTANTS
    Msgs = {m1, m2}
    FirstUser = {m1}
    Direct = {m2}
    Edits = {}
    Cmds = {}
    Jobs = {j1, j2, j3, j4}
    NoJob = NoJob
    Orphan = Orphan
    Info <- MCInfo
    Gens <- MCGens
    NoGen <- MCNoGen
    Callers <- MCCallers
    MaxDefers = 0
    MaxBurst = 2
    MaxOlderDirects = 1
    AnchorBudget = 2
    MultiAnchor = TRUE
    MaxInterrupts = 1
    ConcurrentIngress = FALSE
    PromptPointer = TRUE
    AnyId = FALSE
    MaxReplans = 1
    Troubles = {}
    MaxStalls = 1
    ResumeAttempts = 5
    MaxTroubles = 0
PROPERTIES
    Progress
CHECK_DEADLOCK FALSE
