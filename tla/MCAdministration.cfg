SPECIFICATION Spec
CONSTANTS
    u1 = u1
    u2 = u2
    u3 = u3
    Users = {u1, u2, u3}
    i1 = i1
    Invitations = {i1}
    None = none
    MaxMeasures = 1
    MaxRequests = 2
SYMMETRY Symmetry
CHECK_DEADLOCK FALSE
INVARIANTS
    OwnerRemains
PROPERTIES
    OwnersAreProtected
    InvitationSpentOnce
