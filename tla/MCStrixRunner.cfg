CONSTANTS
    s1 = s1
    s2 = s2
    s3 = s3
    j1 = j1
    j2 = j2
    j3 = j3
    NoJob = NoJob
    Scans = {s1, s2, s3}
    JobIds = {j1, j2, j3}
    MaxRestarts = 1
SPECIFICATION RunnerSpec
INVARIANTS
    RunnerTypeOK
    QueuedJobsWait
    ReportMatchesJob
PROPERTIES
    StartedInOrder
    JobsSettle
CHECK_DEADLOCK FALSE
