SPECIFICATION FairSpec
CONSTANTS
    Handlers = {h1, h2}
    Keys = {k1}
    Conversations = {c1}
    None = none
    MaxRecoveryBatch = 1
CHECK_DEADLOCK FALSE
PROPERTIES
    LeasesSettle
    RunsSettle
