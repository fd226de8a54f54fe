SPECIFICATION Spec
CONSTANTS
    c1 = c1
    c2 = c2
    Calls = {c1, c2}
    MAX_TOOL_CALLS = 4
    MAX_PARALLEL_TOOLS = 2
    MAX_MODEL_REQUESTS = 3
    MAX_TOOL_ROUNDS = 1
    MaxCallsPerResponse = 3
    MaxBreaks = 1
    MaxLost = 1
    Requests <- MCRequests
SYMMETRY Symmetry
INVARIANTS
    ArtifactOnce
    SavedIsAccounted
    InvocationsSettled
    SearchIsPaid
    RequiredWebIsHonest
