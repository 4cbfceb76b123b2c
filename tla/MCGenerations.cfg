SPECIFICATION LiveSpec
CONSTANTS
    Strong = {s1, s2}
    Weak = {w1, w2}
    NoGen = NoGen
    Gens <- MCGens
    MaxInterrupts = 2
    MaxReplans = 2
    MaxRounds = 3
INVARIANTS
    TypeOK
    NoOrphanGeneration
    NoStaleRegistration
    ShutdownReachesAll
PROPERTIES
    NeverChoked
