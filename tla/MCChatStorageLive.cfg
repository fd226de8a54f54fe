SPECIFICATION WorkerFairSpec
CONSTANTS
    Attachments = {a1}
    Kinds = {"document"}
    Conversations = {v1}
    Messages = {m1}
    Completers = {c1}
    Workers = {w1}
    None = none
    Limit = 1
    MaxPerMessage = 1
    MaxAttempts = 2
    MaxPolls = 2
    MaxLapses = 2
CHECK_DEADLOCK FALSE
PROPERTIES
    ParsingEnds
    DeletionEnds
    ScanningEnds
