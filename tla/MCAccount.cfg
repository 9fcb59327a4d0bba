CONSTANTS
    s1 = s1
    s2 = s2
    c1 = c1
    c2 = c2
    l1 = l1
    l2 = l2
    h1 = h1
    h2 = h2
    None = None
    Sessions = {s1, s2}
    Codes = {c1, c2}
    CodesPerSet = 1
    Links = {l1, l2}
    Handlers = {h1, h2}
    Configured = TRUE
    MaxNow = 2
    MaxOver = 1
    MaxPassword = 1
    MaxRequests = 3
    MaxFaults = 1
SYMMETRY Interchangeable
SPECIFICATION AccountSpec
INVARIANTS
    CodeAcceptedOnce
    OldPasswordOpensNothing
    SuspendedAccountIsClosed
PROPERTIES
    CodesAndLinksPassOnce
CHECK_DEADLOCK FALSE
