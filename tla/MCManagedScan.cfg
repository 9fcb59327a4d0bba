CONSTANTS
    r1 = r1
    x1 = x1
    f1 = f1
    h1 = h1
    h2 = h2
    None = None
    Runs = {r1}
    ExtIds = {x1}
    Findings = {f1}
    Reports = {"queued", "running", "completed", "failed", "cancelled"}
    Payloads <- MCPayloads
    DemoPayload <- MCDemo
    Modes = {"managed"}
    Triages = {}
    Handlers = {h1, h2}
    MaxFaults = 1
    MaxLosses = 1
SPECIFICATION ManagedSpec
INVARIANTS
    CompletedRunHasAllFindings
PROPERTIES
    ManagedRunSettles
    HighRiskLinkedUnlessFault
CHECK_DEADLOCK FALSE
