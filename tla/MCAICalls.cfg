SPECIFICATION LiveSpec
CONSTANTS
    Calls = {c1, c2}
    N = 3
    Hedging = {c1}
    Threshold = 2
    MaxErrors = 2
INVARIANTS
    TypeOK
    NothingUntried
    LoserNotBlamed
PROPERTIES
    NothingLeftFlying
    EveryCallReturns
CHECK_DEADLOCK FALSE
