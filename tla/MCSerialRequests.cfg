CONSTANTS
    r1 = r1
    x1 = x1
    x2 = x2
    f1 = f1
    f2 = f2
    h1 = h1
    None = None
    Runs = {r1}
    ExtIds = {x1, x2}
    Findings = {f1, f2}
    Reports = {"queued", "running", "completed", "failed", "cancelled"}
    Payloads <- MCPayloads
    DemoPayload <- MCDemo
    Modes = {"demo", "self_hosted", "managed"}
    Triages = {"open", "remediated", "accepted_risk"}
    Handlers = {h1}
    MaxFaults = 0
SPECIFICATION HcscSpec
INVARIANTS
    HcscTypeOK
    OneEventPerFinding
    HighRiskLinked
    CountsExact
    NoticeOncePerEndedRun
    EventMirrorsFinding
PROPERTIES
    StatusFollowsPolicy
CHECK_DEADLOCK FALSE
