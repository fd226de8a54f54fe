SPECIFICATION Spec
CONSTANTS
    Attachments = {a1}
    Kinds = {"image", "document"}
    Conversations = {v1}
    Messages = {m1}
    Completers = {c1, c2}
    Workers = {w1, w2}
    None = none
    Limit = 1
    MaxPerMessage = 1
    MaxAttempts = 2
    MaxPolls = 1
    MaxLapses = 2
SYMMETRY Symmetry
CHECK_DEADLOCK FALSE
INVARIANTS
    AccountMatchesRows
    ReadyHasObject
    RemovedIsQueued
PROPERTIES
    BoundIsKept
    FinishedWorkIsFinal
