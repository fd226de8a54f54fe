SPECIFICATION StreamSpec
CONSTANTS
    CallIds = {x, y}
    SearchIds = {s, t}
    Arguments = {a, b}
    None = None
    MAX_CONTINUATION_ITEMS = 3
    MaxReports = 3
SYMMETRY MCSymmetry
CHECK_DEADLOCK FALSE
INVARIANTS
    NextRequestIsPaired
    SearchProofIsGenuine
