SPECIFICATION Spec
CONSTANTS
    Artifacts = {a1}
    Formats = {f1, f2}
    Workers = {w1}
    None = none
    Limit = 2
SYMMETRY Symmetry
CHECK_DEADLOCK FALSE
INVARIANTS
    AccountMatchesRows
    ReadyIsDownloadable
    NoOrphanObject
