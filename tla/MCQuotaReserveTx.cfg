SPECIFICATION TxSpec
CONSTANTS
    Users = {u1}
    Requests = {r1, r2}
    Resources = {"model_attempt"}
    Windows = {d1, d2}
    GlobalKey = all
    NoWindow = none
    MaxLimit = 2
    Procs = {p1, p2}
    NoLease = nolease
SYMMETRY Symmetry
INVARIANTS
    BucketMatchesLedger
    BucketChecksHold
    DeletionLeavesNothingHeld
    NoWaitCycle
PROPERTIES
    ImplementsLease
    ImplementsLedger
