CONSTANTS
    r1 = r1
    x1 = x1
    f1 = f1
    f2 = f2
    h1 = h1
    h2 = h2
    None = None
    Runs = {r1}
    ExtIds = {x1}
    Findings = {f1, f2}
    Reports = {"running", "completed", "failed"}
    Payloads <- MCPayloads
    DemoPayload <- MCDemo
    Modes = {"demo", "self_hosted"}
    Triages = {"remediated"}
    Handlers = {h1, h2}
    MaxFaults = 1
SYMMETRY Interchangeable
SPECIFICATION HcscSpec
INVARIANTS
    RowsAgree
    DemoRunCarriesFindings
PROPERTIES
    TriageOnlyByAnalyst
    NothingForgotten
CHECK_DEADLOCK FALSE
