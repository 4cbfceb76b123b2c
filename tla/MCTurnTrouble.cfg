SPECIFICATION Spec
SYMMETRY JobSymmetry
CONSTANTS
    Msgs = {m1, m2}
    FirstUser = {m1}
    Direct = {}
    Edits = {}
    Cmds = {m2}
    Jobs = {j1, j2, j3}
    NoJob = NoJob
    Orphan = Orphan
    Info <- MCInfo
    Gens <- MCGens
    NoGen <- MCNoGen
    Callers <- MCCallers
    MaxDefers = 0
    MaxBurst = 2
    MaxOlderDirects = 1
    AnchorBudget = 2
    MultiAnchor = TRUE
    MaxInterrupts = 1
    ConcurrentIngress = FALSE
    PromptPointer = TRUE
    AnyId = TRUE
    MaxReplans = 1
    Troubles = {"crash", "restart", "lapse"}
    MaxStalls = 1
    ResumeAttempts = 5
    MaxTroubles = 2
INVARIANTS
    Conserved
    HandledAtMostOnce
    MutualExclusion
    NoSilentStranding
CHECK_DEADLOCK FALSE
