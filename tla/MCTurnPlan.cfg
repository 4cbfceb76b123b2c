SPECIFICATION Spec
CONSTANTS
    MaxBurst = 2
    MaxOlderDirects = 1
    AnchorBudget = 1
    MultiAnchor = TRUE
    MaxLen = 3
    Uids = {u1, u2}
    Dates = {1, 2}
SYMMETRY UidSymmetry
INVARIANTS
    TypeOK
    OneAnswerPerPerson
    DirectBeforePassive
    TrimKeepsTheCall
    WaitIsPerPerson
    SinglePersonAgrees
CHECK_DEADLOCK FALSE
