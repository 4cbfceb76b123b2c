SPECIFICATION Spec
CONSTANTS
    Cap = 1
    HotCap = 2
    NoChat = NoChat
    Chats = {c1, c2}
    Keys = {k1}
    Vals = {1}
    Keeps = {}
    Deletable = {k1}
    RingMax = 2
    Evicts = TRUE
    Kills = TRUE
    MaxPosted = 2
    MaxPages = 3
    MaxLives = 1
    MaxLsn = 6
    Shuffles = FALSE
INVARIANTS
    NothingLost
    HotReads
CHECK_DEADLOCK FALSE
SYMMETRY Alike
