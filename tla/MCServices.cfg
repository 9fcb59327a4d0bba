CONSTANTS
    i1 = i1
    r1 = r1
    h1 = h1
    h2 = h2
    n1 = n1
    z1 = z1
    z2 = z2
    t1 = t1
    t2 = t2
    w1 = w1
    q1 = q1
    q2 = q2
    None = None
    Nothing = Nothing
    Unset = Unset
    Identities = {i1}
    AccessRequests = {r1}
    Handlers = {h1, h2}
    MaxEvents = 2
    MaxResponses = 3
    MaxStops = 1
    Hostnames = {n1}
    Zones = {z1, z2}
    Tasks = {t1, t2}
    DomainLimit = 1
    MaxTasks = 5
    MaxChanges = 2
    Windows = {w1}
    Requests = {q1, q2}
    Limit = 1
    Length = 2
    MaxErrors = 2
    k1 = k1
    k2 = k2
    g1 = g1
    g2 = g2
    Idle = Idle
    Asks = {k1, k2}
    Engines = {g1, g2}
    Classes = {"internal", "critical"}
    Exposures = {"internal"}
    Locations = {"public_cloud"}
    Types = {"user"}
    Signals <- MCSignals
    OtherKinds = {"other", "deception_triggered"}
    Weights = {14, 50}
    MaxAlerts = 3
    MaxTurns = 3
    MaxMoves = 1
SPECIFICATION ServicesSpec
INVARIANTS
    PlaybookTookEffect
    RecordedOnce
    ActiveAsChecked
PROPERTIES
    IsolationHolds
    RateWindowsReopen
    EnginesOnlyTighten
    RepeatsAgree
CHECK_DEADLOCK FALSE
