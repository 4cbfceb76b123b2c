SPECIFICATION Spec
SYMMETRY JobSymmetry
CONSTANTS
    Msgs = {m1}
    FirstUser = {m1}
    Direct = {}
    Edits = {}
    Cmds = {}
    Jobs = {j1, j2, j3}
    NoJob = NoJob
    Orphan = Orphan
    Info <- MCInfo
    Gens <- MCGens
    NoGen <- MCNoGen
    Callers <- MCCallers
    MaxDefers = 1
    MaxBurst = 2
    MaxOlderDirects = 1
    AnchorBudget = 2
    MultiAnchor = TRUE
    MaxInterrupts = 1
    ConcurrentIngress = FALSE
    PromptPointer = TRUE
    AnyId = TRUE
    MaxReplans = 1
    Troubles = {"crash", "fault"}
    MaxStalls = 1
    ResumeAttempts = 2
    MaxTroubles = 2
INVARIANTS
    HandledAtMostOnce
    NoSilentStranding
CHECK_DEADLOCK FALSE
