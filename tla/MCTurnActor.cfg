SPECIFICATION Spec
SYMMETRY JobSymmetry
CONSTANTS
    Msgs = {m1, m2}
    FirstUser = {m1}
    Direct = {m2}
    Edits = {}
    Cmds = {}
    Jobs = {j1, j2, j3}
    NoJob = NoJob
    Orphan = Orphan
    Info <- MCInfo
    Gens <- MCGens
    NoGen <- MCNoGen
    Callers <- MCCallers
    MaxDefers = 1
    MaxBurst = 2
    MaxOlderDirects = 1
    AnchorBudget = 2
    MultiAnchor = TRUE
    MaxInterrupts = 1
    ConcurrentIngress = TRUE
    PromptPointer = FALSE
    AnyId = TRUE
    MaxReplans = 0
    Troubles = {}
    MaxStalls = 1
    ResumeAttempts = 5
    MaxTroubles = 0
INVARIANTS
    TypeOK
    Conserved
    NoSilentStranding
CHECK_DEADLOCK FALSE
