SPECIFICATION Spec
CONSTANTS
    Cap = 1
    HotCap = 1
    NoChat = NoChat
    Chats = {c1, c2}
    Keys = {k1, k2}
    Vals = {1}
    Keeps = {0, 2}
    Deletable = {}
    RingMax = 2
    Evicts = FALSE
    Kills = FALSE
    MaxPosted = 4
    MaxPages = 5
    MaxLives = 1
    MaxLsn = 11
    Shuffles = TRUE
INVARIANTS
    TypeOK
    ChatsApart
    FreeListTrue
    IndexFinds
    TipsTrue
    RecentIsKept
    HotKept
PROPERTIES
    ImplementsChatLog
CHECK_DEADLOCK FALSE
SYMMETRY Alike
