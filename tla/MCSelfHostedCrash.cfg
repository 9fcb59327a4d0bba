CONSTANTS
    r1 = r1
    x1 = x1
    f1 = f1
    h1 = h1
    h2 = h2
    None = None
    NoJob = None
    Runs = {r1}
    Scans = {r1}
    ExtIds = {x1}
    JobIds = {x1}
    Findings = {f1}
    Reports = {"running", "completed", "failed"}
    Payloads <- MCPayloads
    DemoPayload <- MCDemo
    Modes = {"self_hosted"}
    Triages = {}
    Handlers = {h1, h2}
    MaxFaults = 1
    MaxLosses = 0
    MaxRestarts = 0
SPECIFICATION ScanSpec
PROPERTIES
    HighRiskEventuallyLinked
CHECK_DEADLOCK FALSE
