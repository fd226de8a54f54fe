CONSTANTS
    Contents = {c1, c2}
    Workers = {w1, w2}
    Reviewers = {r1}
    None = None
    Origins = {"candidate", "upload", "provisional"}
    MaxVersions = 3
    MaxActs = 2
    MaxAttempts = 2
    MaxPolls = 1
SYMMETRY Symmetry
SPECIFICATION Spec
CHECK_DEADLOCK FALSE
INVARIANT SectionReviewPublishes
