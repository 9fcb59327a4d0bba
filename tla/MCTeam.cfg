CONSTANTS
    u1 = u1
    u2 = u2
    u3 = u3
    i1 = i1
    i2 = i2
    h1 = h1
    h2 = h2
    None = None
    Users = {u1, u2, u3}
    Elsewhere = {u2}
    Owners = {u3}
    Invites = {i1, i2}
    Handlers = {h1, h2}
    MaxRequests = 3
    MaxFaults = 1
SYMMETRY Interchangeable
SPECIFICATION TeamSpec
INVARIANTS
    SomeAdminRemains
PROPERTIES
    ActiveAdminRemains
    InvitesSettle
CHECK_DEADLOCK FALSE
