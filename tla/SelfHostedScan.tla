--------------------------- MODULE SelfHostedScan ---------------------------
(***************************************************************************)
(* A self-hosted scan from end to end: HCSC (SecurityTestRun) posts a run  *)
(* to the runner (StrixRunner), which answers with its job id and reports  *)
(* to HCSC's callback route.  Scans are Runs, and job ids are ExtIds.      *)
(*                                                                         *)
(* Both sides wait 15 seconds for an answer and then go on without it; the *)
(* other side does not notice, and finishes what it was asked to do.       *)
(***************************************************************************)
EXTENDS SecurityTestRun, StrixRunner

CONSTANT MaxLosses    \* bound on answers that come too late or not at all

ASSUME ScanAssumption ==
    /\ Scans = Runs /\ JobIds = ExtIds /\ NoJob = None
    /\ {"none", "sent", "refused", "ok", "error"} \intersect (ExtIds \union Handlers) = {}
    /\ "self_hosted" \in Modes /\ {"running", "completed", "failed"} \subseteq Reports
    /\ <<>> \in Payloads
    /\ MaxLosses \in Nat

VARIABLES
    posted,    \* posted[r]: POST /v1/scans for r is "none", "sent", "refused", or the
               \* job id the runner answered with
    exchange,  \* the report in flight: "none" (not arrived yet), the request that
               \* serves it, or the answer "ok" (2xx) or "error" (5xx) on its way back
    sarif,     \* findings read from the SARIF file of the current job
    losses     \* losses so far

linkVars == <<posted, exchange, sarif, losses>>
scanVars == <<run, finding, event, notices, authorized, pc, req, faults,
              jobs, queue, phase, current, report, attempt, inCatch, issued, restarts,
              posted, exchange, sarif, losses>>

ScanTypeOK ==
    /\ HcscTypeOK /\ RunnerTypeOK
    /\ posted \in [Runs -> {"none", "sent", "refused"} \union ExtIds]
    /\ exchange \in {"none", "ok", "error"} \union Handlers
    /\ sarif \in PartialSeverities
    /\ losses \in 0..MaxLosses

ScanInit ==
    /\ HcscInit /\ RunnerInit
    /\ posted = [r \in Runs |-> "none"]
    /\ exchange = "none"
    /\ sarif = <<>>
    /\ losses = 0

Lose == losses < MaxLosses /\ losses' = losses + 1

\* The runner goes on; what it has read stays only while it is reported.
RunnerGoesOn(step) ==
    /\ step
    /\ sarif' = IF phase' \in {"posting", "backoff"} /\ ~inCatch' THEN sarif ELSE <<>>

-----------------------------------------------------------------------------
(* Launching *)

\* launchSecurityTestRun up to the fetch of the provider.
Launch(h, r) ==
    /\ LaunchStart(h, r, "self_hosted")
    /\ posted' = [posted EXCEPT ![r] = "sent"]
    /\ UNCHANGED <<runnerVars, exchange, sarif, losses>>

\* The POST arrives, whether HCSC still waits for the answer or not.
RunnerAccepts(r, j) ==
    /\ posted[r] = "sent"
    /\ Accept(r, j)
    /\ posted' = [posted EXCEPT ![r] = j]
    /\ UNCHANGED <<hcscVars, exchange, sarif, losses>>

\* 4xx: the target is not on the runner's allowlist, or the request is malformed.
RunnerRefuses(h) ==
    /\ At(h, "awaitProvider") /\ posted[req[h].run] = "sent"
    /\ LaunchRefused(h)
    /\ posted' = [posted EXCEPT ![req[h].run] = "refused"]
    /\ UNCHANGED <<runnerVars, exchange, sarif, losses>>

\* 202 with the job's id and the status it was created with.
LaunchAnswered(h) ==
    /\ At(h, "awaitProvider") /\ posted[req[h].run] \in ExtIds
    /\ LiveAnswer(h, posted[req[h].run], "queued")
    /\ UNCHANGED <<runnerVars, posted, exchange, sarif, losses>>

LaunchTimesOut(h) ==
    /\ Lose
    /\ LaunchRefused(h)
    /\ UNCHANGED <<runnerVars, posted, exchange, sarif>>

-----------------------------------------------------------------------------
(* Reporting *)

\* The findings of a report: only processJob's last one has any.
Reporting == IF report \in {"completed", "failed"} /\ ~inCatch THEN sarif ELSE <<>>

ReportArrives(h) ==
    /\ phase = "posting" /\ exchange = "none"
    /\ CallbackRead(h, jobs[current].scan, current, report, Reporting)
    /\ exchange' = h
    /\ UNCHANGED <<runnerVars, posted, sarif, losses>>

\* HCSC answers 404 or 409, and nothing has changed there.
ReportRefused ==
    /\ phase = "posting" /\ exchange = "none"
    /\ ~CallbackAccepted(jobs[current].scan, current, report)
    /\ RunnerGoesOn(ReportRejected)
    /\ UNCHANGED <<hcscVars, posted, exchange, losses>>

\* The steps of HCSC's requests; the one that ends the request answers the runner.
Answers(h, answer) ==
    /\ exchange' = IF exchange = h /\ pc'[h] = "idle" THEN answer ELSE exchange
    /\ UNCHANGED <<runnerVars, posted, sarif, losses>>

\* Mutation: the callback route answers 2xx even if applying the report failed.
MutFaultAnswersOk(h) == Fault(h) /\ Answers(h, "ok")

HcscStep(h)  == OwnStep(h) /\ Answers(h, "ok")
HcscFault(h) == Fault(h) /\ Answers(h, "error")

\* Requests that change an event for itself (EventRead) are left out: nothing below depends
\* on the status of an event.
Triaging(h) ==
    /\ \E r \in Runs, f \in Findings, t \in Triages : TriageRead(h, r, f, t)
    /\ UNCHANGED <<runnerVars, linkVars>>

AnswerArrives ==
    /\ exchange \in {"ok", "error"}
    /\ RunnerGoesOn(IF exchange = "ok" THEN ReportAcknowledged ELSE ReportFails)
    /\ exchange' = "none"
    /\ UNCHANGED <<hcscVars, posted, losses>>

\* The report or its answer is lost, or HCSC is too slow; its request goes on unheard.
ReportTimesOut ==
    /\ Lose
    /\ RunnerGoesOn(ReportFails)
    /\ exchange' = "none"
    /\ UNCHANGED <<hcscVars, posted>>

-----------------------------------------------------------------------------
(* The runner's own steps *)

\* Strix exits, and its SARIF file is read.
ScanEnds ==
    /\ \E status \in {"completed", "failed"} : StrixExits(status)
    /\ sarif' \in Payloads
    /\ UNCHANGED <<hcscVars, posted, exchange, losses>>

RunnerWorks ==
    /\ RunnerGoesOn(DirectoryMade \/ DirectoryFails \/ Retry \/ StrixThrows)
    /\ UNCHANGED <<hcscVars, posted, exchange, losses>>

RunnerRestarts ==
    /\ RunnerGoesOn(Restart)
    /\ exchange' = "none"
    /\ UNCHANGED <<hcscVars, posted, losses>>

Expiry == AuthorizationExpires /\ UNCHANGED <<runnerVars, linkVars>>

-----------------------------------------------------------------------------
RunnerProgress == ScanEnds \/ RunnerWorks \/ AnswerArrives \/ ReportRefused
Delivery       == \E h \in Handlers : ReportArrives(h)

ScanNext ==
    \/ \E h \in Handlers :
          \/ \E r \in Runs : Launch(h, r)
          \/ RunnerRefuses(h) \/ LaunchAnswered(h) \/ LaunchTimesOut(h)
          \/ HcscStep(h) \/ HcscFault(h) \/ Triaging(h)
    \/ \E r \in Runs, j \in ExtIds : RunnerAccepts(r, j)
    \/ RunnerProgress \/ Delivery \/ ReportTimesOut \/ RunnerRestarts
    \/ Expiry

\* A request goes on until it has answered, an accepted launch is answered, and every
\* await of the worker ends (Strix is assumed to exit).  Delivery is strongly fair: the
\* web server does not turn the runner away for ever in favour of analysts.
ScanFairness ==
    /\ \A h \in Handlers : WF_scanVars(HcscStep(h)) /\ WF_scanVars(LaunchAnswered(h))
    /\ WF_scanVars(RunnerProgress) /\ SF_scanVars(Delivery)

ScanSpec == ScanInit /\ [][ScanNext]_scanVars /\ ScanFairness

-----------------------------------------------------------------------------
\* Strix is let loose on a target only for a job whose id HCSC has stored for the run,
\* even if HCSC has given the launch up or has crashed since it posted it.
ScanRunsOnlyRecorded ==
    phase = "strix" => run[jobs[current].scan].ext = current

\* When the runner hears "ok" for a report, HCSC has every finding of it: nothing the
\* runner forgets then exists only there.
AcknowledgedFindingsStored ==
    phase = "posting" /\ exchange = "ok" =>
        DOMAIN Reporting \subseteq Stored(jobs[current].scan)

LaunchPending(r) == \E h \in Handlers : req[h].kind = "launch" /\ req[h].run = r
Disturbed        == losses + faults + restarts > 0

\* A scan that is running when its launch request is over ends in HCSC with the outcome
\* the runner has for it, unless an answer, a request or the runner is lost on the way.
\* (A launch that is still pending may overwrite the outcome: see StatusFollowsPolicy.)
OutcomeArrives ==
    \A r \in Runs :
        phase = "strix" /\ jobs[current].scan = r /\ ~LaunchPending(r) ~>
            \/ Disturbed
            \/ \E j \in JobIds : /\ jobs[j].scan = r
                                 /\ run[r].status = jobs[j].status
                                 /\ run[r].status \in {"completed", "failed"}

\* A report that is sent again does not create a security event a second time: no two
\* callback requests are both about to link an event of their own to a finding.
ResentReportAddsNoEvent ==
    \A g, h \in Handlers :
        /\ g # h /\ At(g, "linkFinding") /\ At(h, "linkFinding")
        /\ req[g].kind = "callback" /\ req[h].kind = "callback" /\ req[g].run = req[h].run
        => req[g].cur # req[h].cur
=============================================================================
