----------------------------- MODULE StrixRunner -----------------------------
(***************************************************************************)
(* The self-hosted runner (services/strix-runner/server.mjs): an in-memory *)
(* table of jobs, a queue, and one worker that runs Strix for one job at a *)
(* time and reports to HCSC with up to three attempts per report.          *)
(*                                                                         *)
(* How a report fares is open: an attempt may be acknowledged, rejected    *)
(* for good (4xx) or fail in a way that is retried (network error, time-   *)
(* out, 429, 5xx).  SelfHostedScan closes it with HCSC's own answers.      *)
(***************************************************************************)
EXTENDS Naturals, Sequences, FiniteSets

CONSTANTS
    Scans,        \* hcscRunIds that are posted to /v1/scans
    JobIds,       \* the runner's own run ids (externalRunId)
    MaxRestarts,  \* bound on restarts of the runner process
    NoJob

MaxAttempts == 3    \* callbackMaxAttempts

ASSUME RunnerAssumption ==
    NoJob \notin Scans \union JobIds /\ MaxRestarts \in Nat

VARIABLES
    jobs,       \* jobs[j]: the job with that id, or Unused
    queue,      \* ids of the jobs waiting
    phase,      \* what the worker awaits; "inactive" is workerActive = false
    current,    \* id of the job being worked on
    report,     \* status the worker is reporting
    attempt,    \* attempt of that report, 1..MaxAttempts
    inCatch,    \* the report is the one of drainQueue's catch block
    issued,     \* ids handed out so far: randomUUID never repeats one (history)
    restarts    \* restarts so far

runnerVars == <<jobs, queue, phase, current, report, attempt, inCatch, issued, restarts>>

JobStatus   == {"queued", "running", "completed", "failed"}
Unused      == [scan |-> NoJob, status |-> "unused"]
Job         == [scan : Scans, status : JobStatus] \union {Unused}
WorkerPhase == {"inactive", "mkdtemp", "posting", "backoff", "strix"}
LiveJobs    == {j \in JobIds : jobs[j] # Unused}

RunnerTypeOK ==
    /\ jobs \in [JobIds -> Job]
    /\ queue \in Seq(JobIds)
    /\ phase \in WorkerPhase
    /\ current \in JobIds \union {NoJob}
    /\ report \in JobStatus
    /\ attempt \in 0..MaxAttempts
    /\ inCatch \in BOOLEAN
    /\ issued \subseteq JobIds
    /\ restarts \in 0..MaxRestarts

RunnerInit ==
    /\ jobs = [j \in JobIds |-> Unused]
    /\ queue = <<>>
    /\ phase = "inactive"
    /\ current = NoJob
    /\ report = "queued"
    /\ attempt = 0
    /\ inCatch = FALSE
    /\ issued = {}
    /\ restarts = 0

-----------------------------------------------------------------------------
\* Mutation: pop instead of shift.
MutTakeLast(q) ==
    /\ inCatch' = FALSE /\ attempt' = 0 /\ report' = "queued"
    /\ IF q = <<>> THEN phase' = "inactive" /\ current' = NoJob /\ queue' = q
                   ELSE /\ phase' = "mkdtemp" /\ current' = q[Len(q)]
                        /\ queue' = SubSeq(q, 1, Len(q) - 1)

\* The while loop of drainQueue.  processJob runs up to its first await, mkdtemp, in
\* the same turn as the shift.
TakeNext(q) ==
    /\ inCatch' = FALSE /\ attempt' = 0 /\ report' = "queued"
    /\ IF q = <<>> THEN phase' = "inactive" /\ current' = NoJob /\ queue' = q
                   ELSE phase' = "mkdtemp" /\ current' = Head(q) /\ queue' = Tail(q)

SetJob(status) == jobs' = [jobs EXCEPT ![current].status = status]

\* Mutation: the catch block reports a failure it does not record.
MutStartReportUnrecorded(status, catching) ==
    /\ IF catching THEN UNCHANGED jobs ELSE SetJob(status)
    /\ phase' = "posting" /\ attempt' = 1
    /\ report' = status
    /\ inCatch' = catching
    /\ UNCHANGED <<queue, current, issued, restarts>>

\* postCallback: the first attempt of a report, which carries the job's new status.
StartReport(status, catching) ==
    /\ SetJob(status)
    /\ phase' = "posting" /\ attempt' = 1
    /\ report' = status
    /\ inCatch' = catching
    /\ UNCHANGED <<queue, current, issued, restarts>>

\* Anything processJob awaits may throw; the catch block reports the failure.
JobThrows == StartReport("failed", TRUE)

\* POST /v1/scans for a scan the table does not know.  A known one changes nothing
\* and is answered with the id and the status it has.
Known(scan) == \E j \in LiveJobs : jobs[j].scan = scan

\* Mutation: drainQueue does not look at workerActive.
MutAcceptStartsWorker(scan, j) ==
    /\ ~Known(scan)
    /\ j \in JobIds \ issued
    /\ jobs' = [jobs EXCEPT ![j] = [scan |-> scan, status |-> "queued"]]
    /\ issued' = issued \union {j}
    /\ TakeNext(Append(queue, j))
    /\ UNCHANGED restarts

Accept(scan, j) ==
    /\ ~Known(scan)
    /\ j \in JobIds \ issued
    /\ jobs' = [jobs EXCEPT ![j] = [scan |-> scan, status |-> "queued"]]
    /\ issued' = issued \union {j}
    /\ IF phase = "inactive" THEN TakeNext(Append(queue, j))
                             ELSE /\ queue' = Append(queue, j)
                                  /\ UNCHANGED <<phase, current, report, attempt, inCatch>>
    /\ UNCHANGED restarts

DirectoryMade == phase = "mkdtemp" /\ StartReport("running", FALSE)

DirectoryFails == phase = "mkdtemp" /\ JobThrows

\* HCSC answered 2xx.
ReportAcknowledged ==
    /\ phase = "posting"
    /\ IF report = "running" THEN /\ phase' = "strix"
                                  /\ UNCHANGED <<queue, current, report, attempt, inCatch>>
                             ELSE TakeNext(queue)
    /\ UNCHANGED <<jobs, issued, restarts>>

\* Mutation: a report that cannot be delivered is dropped, whatever it was about.
MutGiveUpSilently == TakeNext(queue) /\ UNCHANGED <<jobs, issued, restarts>>

\* Mutation: Strix is started even if HCSC was not told that the scan is running.
MutGiveUpAndScan ==
    IF inCatch THEN TakeNext(queue) /\ UNCHANGED <<jobs, issued, restarts>>
    ELSE IF report = "running"
         THEN phase' = "strix" /\ UNCHANGED <<jobs, queue, current, report, attempt, inCatch,
                                              issued, restarts>>
         ELSE JobThrows

\* postCallback throws: the catch block swallows it, processJob does not.
GiveUp ==
    IF inCatch THEN TakeNext(queue) /\ UNCHANGED <<jobs, issued, restarts>>
               ELSE JobThrows

\* HCSC answered 4xx other than 429.
ReportRejected == phase = "posting" /\ GiveUp

\* Mutation: one attempt too many.
MutReportFailsOnceMore ==
    /\ phase = "posting"
    /\ IF attempt <= MaxAttempts
       THEN /\ phase' = "backoff"
            /\ UNCHANGED <<jobs, queue, current, report, attempt, inCatch, issued, restarts>>
       ELSE GiveUp

\* Network error, no answer within 15 s, 429 or 5xx.
ReportFails ==
    /\ phase = "posting"
    /\ IF attempt < MaxAttempts
       THEN /\ phase' = "backoff"
            /\ UNCHANGED <<jobs, queue, current, report, attempt, inCatch, issued, restarts>>
       ELSE GiveUp

Retry ==
    /\ phase = "backoff"
    /\ phase' = "posting"
    /\ attempt' = attempt + 1
    /\ UNCHANGED <<jobs, queue, current, report, inCatch, issued, restarts>>

\* Strix exits; 0 and 2 mean it completed.
StrixExits(status) == phase = "strix" /\ StartReport(status, FALSE)

\* Strix cannot be started, or its SARIF file cannot be read.
StrixThrows == phase = "strix" /\ JobThrows

\* Nothing of the runner's state survives its process.
Restart ==
    /\ restarts < MaxRestarts
    /\ restarts' = restarts + 1
    /\ jobs' = [j \in JobIds |-> Unused]
    /\ queue' = <<>>
    /\ phase' = "inactive"
    /\ current' = NoJob
    /\ report' = "queued"
    /\ attempt' = 0
    /\ inCatch' = FALSE
    /\ UNCHANGED issued

-----------------------------------------------------------------------------
\* The worker's own steps, and the outcome of the attempt in flight.
Worker ==
    \/ DirectoryMade \/ DirectoryFails
    \/ Retry
    \/ \E status \in {"completed", "failed"} : StrixExits(status)
    \/ StrixThrows

Outcome == ReportAcknowledged \/ ReportRejected \/ ReportFails

RunnerNext ==
    \/ \E scan \in Scans, j \in JobIds : Accept(scan, j)
    \/ Worker \/ Outcome \/ Restart

\* Every await of the worker ends: a fetch has a deadline, a timer fires, and Strix is
\* assumed to exit (runStrix sets no limit of its own).
RunnerFairness == WF_runnerVars(Worker) /\ WF_runnerVars(Outcome)

RunnerSpec == RunnerInit /\ [][RunnerNext]_runnerVars /\ RunnerFairness

-----------------------------------------------------------------------------
InQueue == {queue[i] : i \in DOMAIN queue}

\* No accepted job is dropped or taken twice: a job waits for the worker exactly when
\* its status is queued, and it waits in one place only.
QueuedJobsWait ==
    /\ {j \in JobIds : jobs[j].status = "queued"} =
           InQueue \union (IF phase = "mkdtemp" THEN {current} ELSE {})
    /\ current \notin InQueue
    /\ Len(queue) = Cardinality(InQueue)

\* What the worker reports is what it has recorded for the job, through all attempts of a
\* report; while Strix runs its job is recorded as running, and what the catch block
\* reports is a failure.  So a scan that is asked for again (Known) is answered with what
\* HCSC is being told.  Whether HCSC has acknowledged a report is not seen here: see
\* ScanRunsOnlyRecorded in SelfHostedScan.
ReportMatchesJob ==
    /\ phase \in {"posting", "backoff"} => jobs[current].status = report
    /\ phase = "strix" => jobs[current].status = "running"
    /\ inCatch => report = "failed" /\ phase \in {"posting", "backoff"}

\* Jobs are started in the order they were accepted.
StartedInOrder ==
    [][queue # <<>> /\ restarts' = restarts =>
          \/ queue' = queue \/ queue' = Tail(queue)
          \/ \E j \in JobIds : queue' = Append(queue, j)]_runnerVars

\* However reports fare, every accepted job is worked off or lost in a restart.
JobsSettle ==
    \A j \in JobIds : jobs[j].status = "queued" ~>
                      jobs[j].status \in {"completed", "failed", "unused"}
=============================================================================
