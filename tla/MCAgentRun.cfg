SPECIFICATION Spec
CONSTANTS
    Handlers = {h1, h2}
    Keys = {k1, k2}
    Conversations = {c1}
    None = none
    MaxRecoveryBatch = 1
SYMMETRY Symmetry
CHECK_DEADLOCK FALSE
INVARIANTS
    ChargeMatchesAnswer
    OneAnswerAtATime
    SelectedIsNewestCompleted
    ToldTheTruth
PROPERTIES
    UsesLeases
