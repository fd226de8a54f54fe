SPECIFICATION Spec
CONSTANTS
    c1 = c1
    c2 = c2
    f1 = f1
    None = None
    Conversations <- MCConversations
    Files <- MCFiles
    MaxQuestions = 2
SYMMETRY MCSymmetry
INVARIANTS
    OneAnswerUnderWay
    OutcomeIsTrue
    LatestSelectionShown
CHECK_DEADLOCK FALSE
