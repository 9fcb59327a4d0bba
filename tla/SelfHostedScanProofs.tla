------------------------- MODULE SelfHostedScanProofs -------------------------
(***************************************************************************)
(* The composition of HCSC and the runner implements both of them, so that *)
(* what is proved of each holds for it, and the two agree: what the runner *)
(* acts on, HCSC has stored.                                               *)
(***************************************************************************)
EXTENDS SelfHostedScan, SecurityTestRunProofs, StrixRunnerProofs

\* The run of the report under way has the job's id, and all the findings reported.
Heard ==
    /\ run[jobs[current].scan].ext = current
    /\ DOMAIN Reporting \subseteq Stored(jobs[current].scan)

\* A request carries the id of the run's job until it has stored it.
ReqExt(h) == pc[h] \in {"launchTx", "tx", "commit"} => req[h].ext = posted[req[h].run]

\* Request h applies the report under way.
Serving(h) ==
    /\ pc[h] \in {"tx", "commit", "link", "linkFinding", "notify"}
    /\ req[h].kind = "callback" /\ req[h].run = jobs[current].scan
    /\ pc[h] \in {"tx", "commit"} => req[h].payload = Reporting
    /\ pc[h] \in {"link", "linkFinding", "notify"} => Heard

PostedOK ==
    /\ posted \in [Runs -> {"none", "sent", "refused"} \union ExtIds]
    /\ \A r \in Runs : run[r].status = "absent" => posted[r] = "none"
    /\ \A j \in LiveJobs : posted[jobs[j].scan] = j
    /\ \A r \in Runs : run[r].ext # None => run[r].ext = posted[r]
    /\ \A h \in Handlers : ReqExt(h)

ExchangeOK ==
    /\ exchange \in {"none", "ok", "error"} \union Handlers
    /\ exchange # "none" => phase = "posting"
    /\ exchange \in Handlers => Serving(exchange)
    /\ exchange = "ok" => Heard

LinkInv == PostedOK /\ ExchangeOK /\ sarif \in Payloads /\ ScanRunsOnlyRecorded

ScanInv == HcscInv /\ RunnerInv /\ LinkInv

-----------------------------------------------------------------------------
(* The composition implements its parts *)

\* The worker's job, while it has one, is a live job of a run of HCSC.
LEMMA CurrentJob ==
    ASSUME ScanInv, phase # "inactive"
    PROVE  /\ current \in ExtIds /\ current \in LiveJobs /\ jobs[current].scan \in Runs
           /\ posted[jobs[current].scan] = current
  <1>1. current \in LiveJobs /\ current \in JobIds /\ jobs[current] \in Job
    BY DEF ScanInv, RunnerInv, WorkerSound, LiveJobs, RunnerTypeOK
  <1>2. jobs[current].scan \in Scans
    BY <1>1 DEF Job, LiveJobs
  <1> QED
    BY <1>1, <1>2, ScanAssumption DEF ScanAssumption, ScanInv, LinkInv, PostedOK

LEMMA ReportingPayload ==
    ASSUME ScanInv
    PROVE  Reporting \in Payloads
  BY ScanAssumption DEF ScanAssumption, ScanInv, LinkInv, Reporting

LEMMA ScanStepImplements ==
    ASSUME ScanInv, [ScanNext]_scanVars
    PROVE  [HcscNext]_hcscVars /\ [RunnerNext]_runnerVars
  <1>1. CASE UNCHANGED scanVars
    BY <1>1 DEF scanVars, hcscVars, runnerVars
  <1>2. ASSUME NEW h \in Handlers, NEW r \in Runs, Launch(h, r)
        PROVE  HcscNext /\ UNCHANGED runnerVars
    BY <1>2, ScanAssumption DEF ScanAssumption, Launch, HcscNext, Outside
  <1>3. ASSUME NEW h \in Handlers, RunnerRefuses(h) \/ LaunchTimesOut(h)
        PROVE  HcscNext /\ UNCHANGED runnerVars
    BY <1>3 DEF RunnerRefuses, LaunchTimesOut, HcscNext, Outside
  <1>4. ASSUME NEW h \in Handlers, LaunchAnswered(h)
        PROVE  HcscNext /\ UNCHANGED runnerVars
    BY <1>4 DEF LaunchAnswered, HcscNext, Outside
  <1>5. ASSUME NEW h \in Handlers, HcscStep(h) \/ HcscFault(h)
        PROVE  HcscNext /\ UNCHANGED runnerVars
    BY <1>5 DEF HcscStep, HcscFault, Answers, HcscNext
  <1>6. ASSUME NEW h \in Handlers, Triaging(h)
        PROVE  HcscNext /\ UNCHANGED runnerVars
    BY <1>6 DEF Triaging, HcscNext, Outside
  <1>7. ASSUME NEW h \in Handlers, ReportArrives(h)
        PROVE  HcscNext /\ UNCHANGED runnerVars
    <2>1. phase = "posting" /\ UNCHANGED runnerVars
      BY <1>7 DEF ReportArrives
    <2>2. report \in Reports
      BY <2>1, ScanAssumption
      DEF ScanAssumption, ScanInv, RunnerInv, RunnerTypeOK, WorkerSound, JobStatus
    <2>3. PICK r \in Runs, ext \in ExtIds, p \in Payloads : CallbackRead(h, r, ext, report, p)
      BY <1>7, <2>1, CurrentJob, ReportingPayload DEF ReportArrives
    <2> QED
      BY <2>1, <2>2, <2>3 DEF HcscNext, Outside
  <1>8. CASE Expiry
    BY <1>8 DEF Expiry, HcscNext
  <1>9. ASSUME NEW r \in Runs, NEW j \in ExtIds, RunnerAccepts(r, j)
        PROVE  RunnerNext /\ UNCHANGED hcscVars
    BY <1>9, ScanAssumption DEF ScanAssumption, RunnerAccepts, RunnerNext
  <1>10. CASE RunnerProgress \/ ReportTimesOut \/ RunnerRestarts
    BY <1>10
    DEF RunnerProgress, ScanEnds, RunnerWorks, AnswerArrives, ReportRefused, ReportTimesOut,
        RunnerRestarts, RunnerGoesOn, RunnerNext, Worker, Outcome
  <1> QED
    BY <1>1, <1>2, <1>3, <1>4, <1>5, <1>6, <1>7, <1>8, <1>9, <1>10
    DEF ScanNext, Delivery

-----------------------------------------------------------------------------
(* A step of HCSC *)

\* An id the runner has answered with stays the run's.
PostedKept == \A r \in Runs : posted[r] \in ExtIds => posted'[r] = posted[r]

\* The id a request carries is one of the runner's.
LEMMA CarriedId ==
    ASSUME ScanInv, NEW h \in Handlers, pc[h] \in {"launchTx", "tx", "commit"}
    PROVE  /\ req[h].run \in Runs /\ req[h].ext \in ExtIds
           /\ req[h].ext = posted[req[h].run]
  BY DEF ScanInv, HcscInv, HcscTypeOK, Request, RequestsConsistent, RequestOK, At,
     LinkInv, PostedOK, ReqExt

\* Whatever HCSC writes, the id of a run is the one the runner gave it.
LEMMA RowsLinked ==
    ASSUME ScanInv, [HcscNext]_hcscVars, PostedKept, NEW r \in Runs, run'[r].ext # None
    PROVE  run'[r].ext = posted'[r]
  <1>0. HcscTypeOK /\ run[r] \in Row /\ RequestsConsistent
    BY DEF ScanInv, HcscInv, HcscTypeOK
  <1>1. ASSUME run'[r].ext = run[r].ext
        PROVE  run'[r].ext = posted'[r]
    BY <1>0, <1>1 DEF ScanInv, LinkInv, PostedOK, PostedKept, Row
  <1>2. ASSUME NEW h \in Handlers, NEW q \in Runs, NEW mode \in Modes, LaunchStart(h, q, mode)
        PROVE  run'[r].ext = run[r].ext
    BY <1>0, <1>2 DEF LaunchStart, HcscTypeOK, RequestsConsistent, NotCreated
  <1>3. ASSUME NEW h \in Handlers, LaunchCatch(h)
        PROVE  run'[r].ext = run[r].ext
    BY <1>0, <1>3 DEF LaunchCatch, HcscTypeOK, Row
  <1>4. ASSUME NEW h \in Handlers, LaunchTx(h) \/ CallbackCommit(h)
        PROVE  run'[r].ext = posted'[r]
    <2>1. pc[h] \in {"launchTx", "tx", "commit"}
      BY <1>4 DEF LaunchTx, CallbackCommit, At
    <2>2. run'[r] = run[r] \/ (r = req[h].run /\ run'[r].ext = req[h].ext)
      BY <1>0, <1>4, LaunchTxRow, CallbackCommitRow
    <2> QED
      BY <2>1, <2>2, <1>1, CarriedId DEF PostedKept
  <1> QED
    BY <1>1, <1>2, <1>3, <1>4, Writers DEF RunWritten

\* What HCSC has of a report stays while the runner waits.
LEMMA HeardKept ==
    ASSUME ScanInv, [HcscNext]_hcscVars, PostedKept, UNCHANGED <<runnerVars, sarif>>,
           phase = "posting", Heard
    PROVE  Heard'
  <1>1. PICK r : r = jobs[current].scan
    OBVIOUS
  <1>2. r \in Runs /\ posted[r] = current /\ current \in ExtIds /\ current # None
    BY <1>1, CurrentJob, RunAssumption DEF RunAssumption
  <1>3. jobs'[current'].scan = r /\ current' = current /\ Reporting' = Reporting
    BY <1>1 DEF runnerVars, Reporting
  <1>4. run'[r].ext = current
    BY <1>1, <1>2, RowsLinked, RunLasts DEF Heard, ScanInv, HcscInv, PostedKept
  <1>5. Stored(r) \subseteq Stored(r)'
    BY <1>2, FindingLasts DEF Stored, ScanInv, HcscInv
  <1> QED
    BY <1>1, <1>3, <1>4, <1>5 DEF Heard

\* HCSC takes a step while the runner stands still.  The request in the exchange, if it is
\* the one that moved, serves on, or has answered.
LEMMA HcscSide ==
    ASSUME ScanInv, [HcscNext]_hcscVars, UNCHANGED <<runnerVars, sarif>>,
           posted' \in [Runs -> {"none", "sent", "refused"} \union ExtIds], PostedKept,
           \A r \in Runs : run'[r].status = "absent" => posted'[r] = "none",
           \A g \in Handlers : Still(g) \/ ReqExt(g)',
           \/ exchange' = exchange /\ (exchange \in Handlers => Still(exchange))
           \/ exchange' \in Handlers /\ phase = "posting" /\ Serving(exchange)'
           \/ exchange \in Handlers /\ exchange' = "ok" /\ Heard'
           \/ exchange \in Handlers /\ exchange' = "error"
    PROVE  LinkInv'
  <1>1. ASSUME NEW g \in Handlers PROVE ReqExt(g)'
    BY <1>1, CarriedId DEF Still, ReqExt, PostedKept
  <1>2. ASSUME NEW j \in LiveJobs PROVE jobs[j].scan \in Runs /\ posted'[jobs[j].scan] = j
    <2>1. jobs[j].scan \in Runs /\ j \in ExtIds
      BY ScanAssumption DEF ScanAssumption, LiveJobs, ScanInv, RunnerInv, RunnerTypeOK, Job
    <2> QED
      BY <2>1 DEF ScanInv, LinkInv, PostedOK, PostedKept
  <1>3. PostedOK'
    <2>1. LiveJobs' = LiveJobs /\ jobs' = jobs
      BY DEF LiveJobs, runnerVars
    <2> QED
      BY <1>1, <1>2, <2>1, RowsLinked DEF PostedOK
  <1>4. ExchangeOK'
    <2>1. /\ phase' = phase /\ jobs' = jobs /\ current' = current /\ Reporting' = Reporting
          /\ {"none", "ok", "error"} \intersect Handlers = {}
      BY ScanAssumption DEF ScanAssumption, runnerVars, Reporting
    <2>2. CASE exchange' = exchange /\ (exchange \in Handlers => Still(exchange))
      <3>1. exchange = "ok" => Heard'
        BY HeardKept DEF ScanInv, LinkInv, ExchangeOK
      <3>2. exchange \in Handlers => Serving(exchange)'
        <4> SUFFICES ASSUME exchange \in Handlers PROVE Serving(exchange)'
          OBVIOUS
        <4>1. Serving(exchange) /\ phase = "posting" /\ Still(exchange)
          BY <2>1, <2>2 DEF ScanInv, LinkInv, ExchangeOK
        <4>2. Heard => Heard'
          BY <4>1, HeardKept
        <4> QED
          BY <4>1, <4>2, <2>1, <2>2 DEF Serving, Still
      <3> QED
        BY <3>1, <3>2, <2>1, <2>2 DEF ScanInv, LinkInv, ExchangeOK
    <2>3. CASE exchange' \in Handlers /\ phase = "posting" /\ Serving(exchange)'
      BY <2>1, <2>3 DEF ExchangeOK
    <2>4. CASE exchange \in Handlers /\ exchange' = "ok" /\ Heard'
      BY <2>1, <2>4 DEF ScanInv, LinkInv, ExchangeOK
    <2>5. CASE exchange \in Handlers /\ exchange' = "error"
      BY <2>1, <2>5 DEF ScanInv, LinkInv, ExchangeOK
    <2> QED
      BY <2>2, <2>3, <2>4, <2>5
  <1>5. ScanRunsOnlyRecorded'
    <2> SUFFICES ASSUME phase' = "strix"
                 PROVE  run'[jobs'[current'].scan].ext = current'
      BY DEF ScanRunsOnlyRecorded
    <2>1. phase = "strix" /\ jobs' = jobs /\ current' = current
      BY DEF runnerVars
    <2>2. PICK r : r = jobs[current].scan
      OBVIOUS
    <2>3. /\ r \in Runs /\ posted[r] = current /\ current \in ExtIds /\ current # None
          /\ run[r].ext = current
      BY <2>1, <2>2, CurrentJob, RunAssumption
      DEF RunAssumption, ScanInv, LinkInv, ScanRunsOnlyRecorded
    <2>4. run'[r].ext # None
      BY <2>3, RunLasts DEF ScanInv, HcscInv
    <2> QED
      BY <2>1, <2>2, <2>3, <2>4, RowsLinked DEF PostedKept
  <1> QED
    BY <1>3, <1>4, <1>5 DEF ScanInv, LinkInv

LEMMA StillAbsent ==
    ASSUME ScanInv, [HcscNext]_hcscVars, NEW r \in Runs, run'[r].status = "absent"
    PROVE  run[r].status = "absent" /\ posted[r] = "none"
  BY RunLasts DEF ScanInv, HcscInv, LinkInv, PostedOK

\* A step of HCSC that the exchange has no part in.
LEMMA Aside ==
    ASSUME ScanInv, [HcscNext]_hcscVars, UNCHANGED <<runnerVars, sarif, exchange>>,
           posted' \in [Runs -> {"none", "sent", "refused"} \union ExtIds], PostedKept,
           \A r \in Runs : run'[r].status = "absent" => posted'[r] = "none",
           NEW h \in Handlers, pc'[h] # pc[h], ReqExt(h)', h # exchange
    PROVE  LinkInv'
  BY HcscSide, OnlyMover DEF ScanInv, HcscInv

LEMMA LaunchSide ==
    ASSUME ScanInv, [HcscNext]_hcscVars, NEW h \in Handlers,
           \/ \E r \in Runs : Launch(h, r)
           \/ RunnerRefuses(h) \/ LaunchAnswered(h) \/ LaunchTimesOut(h)
    PROVE  LinkInv'
  <1>0. /\ pc \in [Handlers -> Step] /\ req \in [Handlers -> Request] /\ RequestOK(h)
        /\ posted \in [Runs -> {"none", "sent", "refused"} \union ExtIds]
        /\ {"none", "sent", "refused"} \intersect ExtIds = {}
    BY ScanAssumption
    DEF ScanAssumption, ScanInv, HcscInv, HcscTypeOK, RequestsConsistent, LinkInv, PostedOK
  <1>1. h # exchange
    <2>1. pc[h] \in {"idle", "awaitProvider"}
      BY DEF Launch, LaunchStart, RunnerRefuses, LaunchAnswered, LaunchTimesOut, LaunchRefused, At
    <2> QED
      BY <2>1 DEF ScanInv, LinkInv, ExchangeOK, Serving
  <1>2. ASSUME NEW r \in Runs, Launch(h, r)
        PROVE  LinkInv'
    <2>1. /\ run[r].status = "absent" /\ pc[h] = "idle" /\ pc' = [pc EXCEPT ![h] = "awaitProvider"]
          /\ posted' = [posted EXCEPT ![r] = "sent"]
          /\ UNCHANGED <<runnerVars, sarif, exchange>>
          /\ run' = [run EXCEPT ![r] = [NotCreated EXCEPT !.provider = "self_hosted",
                                                          !.status = "queued"]]
      BY <1>2 DEF Launch, LaunchStart, At, Goto
    <2>2. posted[r] = "none" /\ run'[r].status = "queued"
      BY <2>1 DEF ScanInv, LinkInv, PostedOK, HcscInv, HcscTypeOK, NotCreated
    <2>3. pc'[h] = "awaitProvider"
      BY <2>1, <1>0
    <2>4. PostedKept /\ posted' \in [Runs -> {"none", "sent", "refused"} \union ExtIds]
      BY <2>1, <2>2, <1>0 DEF PostedKept
    <2>5. \A q \in Runs : run'[q].status = "absent" => posted'[q] = "none"
      BY <2>1, <2>2, <1>0, StillAbsent
    <2> QED
      BY <2>1, <2>3, <2>4, <2>5, <1>1, Aside DEF ReqExt
  <1>3. CASE RunnerRefuses(h)
    <2>1. PICK r : r = req[h].run
      OBVIOUS
    <2>2. /\ pc[h] = "awaitProvider" /\ pc' = [pc EXCEPT ![h] = "launchCatch"]
          /\ posted[r] = "sent" /\ posted' = [posted EXCEPT ![r] = "refused"]
          /\ UNCHANGED <<runnerVars, sarif, exchange>>
      BY <1>3, <2>1 DEF RunnerRefuses, LaunchRefused, At, Goto
    <2>3. r \in Runs /\ pc'[h] = "launchCatch"
      BY <2>1, <2>2, <1>0 DEF RequestOK, At
    <2>4. PostedKept /\ posted' \in [Runs -> {"none", "sent", "refused"} \union ExtIds]
      BY <2>2, <1>0 DEF PostedKept
    <2>5. \A q \in Runs : run'[q].status = "absent" => posted'[q] = "none"
      BY <2>2, <2>3, <1>0, StillAbsent
    <2> QED
      BY <2>2, <2>3, <2>4, <2>5, <1>1, Aside DEF ReqExt
  <1>4. CASE LaunchTimesOut(h)
    <2>1. /\ pc[h] = "awaitProvider" /\ pc'[h] = "launchCatch"
          /\ UNCHANGED <<runnerVars, sarif, exchange, posted>>
      BY <1>4, <1>0 DEF LaunchTimesOut, LaunchRefused, At, Goto
    <2> QED
      BY <2>1, <1>0, <1>1, Aside, StillAbsent DEF ReqExt, PostedKept
  <1>5. CASE LaunchAnswered(h)
    <2>1. /\ pc[h] = "awaitProvider" /\ pc'[h] = "launchTx"
          /\ UNCHANGED <<runnerVars, sarif, exchange, posted>>
          /\ req'[h].run = req[h].run /\ req'[h].ext = posted[req[h].run]
      BY <1>5, <1>0 DEF LaunchAnswered, LiveAnswer, LaunchAnswer, At, Goto, Request
    <2> QED
      BY <2>1, <1>0, <1>1, Aside, StillAbsent DEF ReqExt, PostedKept
  <1> QED
    BY <1>2, <1>3, <1>4, <1>5

\* The steps of a request that applies a report.
LEMMA ServeSteps ==
    ASSUME HcscTypeOK, NEW h \in Handlers, OwnStep(h), req[h].kind = "callback",
           pc[h] \in {"tx", "commit", "link", "linkFinding", "notify"}
    PROVE  \/ pc[h] = "tx" /\ pc'[h] = "commit"
           \/ CallbackCommit(h) /\ pc'[h] = "link"
           \/ pc[h] \in {"link", "linkFinding", "notify"}
              /\ pc'[h] \in {"link", "linkFinding", "notify", "idle"}
  <1>1. pc \in [Handlers -> Step]
    BY DEF HcscTypeOK
  <1>2. CASE CallbackCommit(h) \/ CallbackCount(h)
    BY <1>1, <1>2 DEF CallbackCommit, CallbackCount, LinkNext, Goto, At
  <1>3. CASE LaunchTx(h) \/ LaunchCatch(h) \/ TriageWrite(h) \/ WriteEventStatus(h)
    BY <1>3 DEF LaunchTx, LaunchCatch, TriageWrite, WriteEventStatus, At
  <1>4. CASE LinkFinding(h) \/ LinkDone(h) \/ Notify(h) \/ \E f \in Findings : CreateEvent(h, f)
    BY <1>1, <1>4 DEF LinkFinding, LinkDone, Notify, CreateEvent, Goto, Respond, At
  <1> QED
    BY <1>2, <1>3, <1>4 DEF OwnStep

\* The transaction that applies the report stores the id and the findings.
LEMMA CommitHeard ==
    ASSUME ScanInv, NEW h \in Handlers, CallbackCommit(h), Serving(h), phase = "posting",
           UNCHANGED <<runnerVars, sarif>>
    PROVE  Heard'
  <1>1. PICK r : r = jobs[current].scan
    OBVIOUS
  <1>2. /\ r \in Runs /\ posted[r] = current /\ req[h].run = r
        /\ pc[h] = "commit" /\ req[h].payload = Reporting
    BY <1>1, CurrentJob DEF Serving, CallbackCommit, At
  <1>3. jobs'[current'].scan = r /\ current' = current /\ Reporting' = Reporting
    BY <1>1 DEF runnerVars, Reporting
  <1>4. HcscTypeOK /\ req[h].ext = current
    BY <1>2, CarriedId DEF ScanInv, HcscInv
  <1>5. run'[r].ext = current
    BY <1>2, <1>4, CallbackCommitRow
  <1>6. Reporting \in PartialSeverities
    BY ReportingPayload, PayloadPartial
  <1>7. finding'[r] = UpsertedRows(r, Reporting)
    BY <1>2, <1>4 DEF CallbackCommit, HcscTypeOK
  <1>8. DOMAIN Reporting \subseteq Stored(r)'
    <2> SUFFICES ASSUME NEW f \in DOMAIN Reporting PROVE f \in Stored(r)'
      OBVIOUS
    <2>1. f \in Findings
      BY <1>6, PartialSeveritiesElim
    <2>2. finding'[r][f].sev # "none"
      BY <1>2, <1>4, <1>6, <1>7, <2>1, UpsertKeeps
    <2> QED
      BY <2>1, <2>2 DEF Stored
  <1> QED
    BY <1>1, <1>3, <1>5, <1>8 DEF Heard

LEMMA ServerSide ==
    ASSUME ScanInv, [HcscNext]_hcscVars, NEW h \in Handlers, HcscStep(h) \/ HcscFault(h)
    PROVE  LinkInv'
  <1>0. /\ HcscTypeOK /\ pc \in [Handlers -> Step] /\ UNCHANGED <<runnerVars, sarif, posted>>
        /\ posted \in [Runs -> {"none", "sent", "refused"} \union ExtIds]
    BY DEF ScanInv, HcscInv, HcscTypeOK, LinkInv, PostedOK, HcscStep, HcscFault, Answers
  <1>1. pc'[h] # pc[h]
    BY <1>0, RequestMoves DEF HcscStep, HcscFault
  <1>2. PostedKept /\ \A r \in Runs : run'[r].status = "absent" => posted'[r] = "none"
    BY <1>0, StillAbsent DEF PostedKept
  <1>3. ReqExt(h)'
    <2>1. CASE HcscFault(h)
      <3>1. pc'[h] \in {"idle", "launchCatch"}
        BY <1>0, <2>1 DEF HcscFault, Fault, LaunchError, Crash, Respond, Goto
      <3> QED
        BY <3>1 DEF ReqExt
    <2>2. CASE HcscStep(h) /\ pc'[h] \in {"launchTx", "tx", "commit"}
      BY <2>2, <1>0, RequestGoesOn, CarriedId DEF HcscStep, ReqExt
    <2> QED
      BY <2>1, <2>2 DEF ReqExt
  <1>4. CASE exchange # h
    <2>1. exchange' = exchange
      BY <1>4 DEF HcscStep, HcscFault, Answers
    <2> QED
      BY <1>0, <1>1, <1>2, <1>3, <1>4, <2>1, Aside
  <1>5. CASE exchange = h
    <2>1. /\ Serving(h) /\ phase = "posting" /\ exchange \in Handlers /\ req[h].kind = "callback"
          /\ "none" \notin Handlers
      BY <1>5, ScanAssumption DEF ScanAssumption, ScanInv, LinkInv, ExchangeOK, Serving
    <2>2. \A g \in Handlers : Still(g) \/ ReqExt(g)'
      BY <1>1, <1>3, OnlyMover, <1>0
    <2>3. Reporting' = Reporting /\ jobs' = jobs /\ current' = current
      BY <1>0 DEF runnerVars, Reporting
    <2>4. CASE HcscFault(h)
      <3>1. pc'[h] = "idle"
        BY <2>1, <2>4, <1>0 DEF HcscFault, Fault, LaunchError, Crash, Respond, Goto
      <3>2. exchange' = "error"
        BY <1>5, <2>4, <3>1 DEF HcscFault, Answers
      <3> QED
        BY <1>0, <1>2, <2>1, <2>2, <3>2, HcscSide
    <2>5. CASE HcscStep(h)
      <3>1. OwnStep(h) /\ exchange' = IF pc'[h] = "idle" THEN "ok" ELSE h
        BY <1>5, <2>5 DEF HcscStep, Answers
      <3>2. /\ pc[h] \in {"tx", "commit", "link", "linkFinding", "notify"}
            /\ pc[h] \in {"link", "linkFinding", "notify"} => Heard
        BY <2>1 DEF Serving
      <3>3. CASE pc'[h] = "idle"
        <4>1. pc[h] \in {"link", "linkFinding", "notify"}
          BY <1>0, <2>1, <3>1, <3>2, <3>3, ServeSteps
        <4>2. Heard'
          BY <1>0, <1>2, <2>1, <3>2, <4>1, HeardKept
        <4> QED
          BY <1>0, <1>2, <2>1, <2>2, <3>1, <3>3, <4>2, HcscSide
      <3>4. CASE pc'[h] # "idle"
        <4>1. /\ req'[h].kind = "callback" /\ req'[h].run = jobs'[current'].scan
              /\ pc'[h] \in {"tx", "commit"} => req'[h].payload = Reporting'
          BY <1>0, <2>1, <2>3, <3>1, <3>4, RequestGoesOn DEF Serving
        <4>2. /\ pc'[h] \in {"tx", "commit", "link", "linkFinding", "notify"}
              /\ pc'[h] \in {"link", "linkFinding", "notify"} => Heard'
          <5>1. CASE pc[h] = "tx"
            BY <5>1, <1>0, <2>1, <3>1, <3>2, <3>4, ServeSteps DEF CallbackCommit, At
          <5>2. CASE CallbackCommit(h)
            BY <5>2, <1>0, <2>1, <3>1, <3>2, <3>4, ServeSteps, CommitHeard
            DEF CallbackCommit, At
          <5>3. CASE pc[h] \in {"link", "linkFinding", "notify"}
            BY <5>3, <1>0, <1>2, <2>1, <3>1, <3>2, <3>4, ServeSteps, HeardKept
          <5> QED
            BY <5>1, <5>2, <5>3, <1>0, <2>1, <3>1, <3>2, ServeSteps
        <4>3. Serving(h)'
          BY <4>1, <4>2 DEF Serving
        <4> QED
          BY <1>0, <1>2, <1>5, <2>1, <2>2, <3>1, <3>4, <4>3, HcscSide
      <3> QED
        BY <3>3, <3>4
    <2> QED
      BY <2>4, <2>5
  <1> QED
    BY <1>4, <1>5

LEMMA OtherHcscSide ==
    ASSUME ScanInv, [HcscNext]_hcscVars,
           (\E h \in Handlers : Triaging(h)) \/ Expiry \/ UNCHANGED scanVars
    PROVE  LinkInv'
  <1>0. /\ pc \in [Handlers -> Step] /\ UNCHANGED <<runnerVars, sarif, posted, exchange>>
        /\ posted \in [Runs -> {"none", "sent", "refused"} \union ExtIds]
    BY DEF ScanInv, HcscInv, HcscTypeOK, LinkInv, PostedOK, Triaging, Expiry, linkVars,
       scanVars, runnerVars
  <1>1. PostedKept /\ \A r \in Runs : run'[r].status = "absent" => posted'[r] = "none"
    BY <1>0, StillAbsent DEF PostedKept
  <1>2. ASSUME NEW h \in Handlers, Triaging(h)
        PROVE  LinkInv'
    <2>1. pc[h] = "idle" /\ pc'[h] = "triage"
      BY <1>0, <1>2 DEF Triaging, TriageRead, At, Goto
    <2>2. h # exchange
      BY <2>1 DEF ScanInv, LinkInv, ExchangeOK, Serving
    <2> QED
      BY <1>0, <1>1, <2>1, <2>2, Aside DEF ReqExt
  <1>3. CASE Expiry \/ UNCHANGED scanVars
    <2>1. \A g \in Handlers : Still(g)
      BY <1>3 DEF Expiry, AuthorizationExpires, scanVars, Still
    <2> QED
      BY <1>0, <1>1, <2>1, HcscSide
  <1> QED
    BY <1>2, <1>3

LEMMA ArrivalSide ==
    ASSUME ScanInv, [HcscNext]_hcscVars, NEW h \in Handlers, ReportArrives(h)
    PROVE  LinkInv'
  <1>0. /\ pc \in [Handlers -> Step] /\ req \in [Handlers -> Request]
        /\ UNCHANGED <<runnerVars, sarif, posted>>
        /\ posted \in [Runs -> {"none", "sent", "refused"} \union ExtIds]
        /\ phase = "posting" /\ exchange' = h
    BY DEF ScanInv, HcscInv, HcscTypeOK, LinkInv, PostedOK, ReportArrives
  <1>1. PostedKept /\ \A r \in Runs : run'[r].status = "absent" => posted'[r] = "none"
    BY <1>0, StillAbsent DEF PostedKept
  <1>2. /\ pc[h] = "idle" /\ pc'[h] = "tx"
        /\ req'[h].kind = "callback" /\ req'[h].run = jobs[current].scan
        /\ req'[h].ext = current /\ req'[h].payload = Reporting
    BY <1>0 DEF ReportArrives, CallbackRead, At, Goto, NoRequest
  <1>3. ReqExt(h)'
    BY <1>0, <1>2, CurrentJob DEF ReqExt
  <1>4. Reporting' = Reporting /\ jobs' = jobs /\ current' = current
    BY <1>0 DEF runnerVars, Reporting
  <1>5. Serving(h)'
    BY <1>2, <1>4 DEF Serving
  <1> QED
    BY <1>0, <1>1, <1>2, <1>3, <1>5, OnlyMover, HcscSide DEF ScanInv, HcscInv

-----------------------------------------------------------------------------
(* A step of the runner *)

\* The runner goes on with no report in flight; HCSC stands still.
LEMMA RunnerSide ==
    ASSUME ScanInv, UNCHANGED <<hcscVars, posted>>, exchange' = "none", sarif' \in Payloads,
           \A j \in LiveJobs' : j \in LiveJobs /\ jobs'[j].scan = jobs[j].scan,
           ScanRunsOnlyRecorded'
    PROVE  LinkInv'
  <1>1. run' = run /\ pc' = pc /\ req' = req /\ posted' = posted
    BY DEF hcscVars
  <1>2. PostedOK'
    BY <1>1 DEF ScanInv, LinkInv, PostedOK, ReqExt
  <1>3. ExchangeOK'
    BY ScanAssumption DEF ScanAssumption, ExchangeOK
  <1> QED
    BY <1>2, <1>3 DEF LinkInv

\* The worker moves on with the jobs it has.
LEMMA WorkerTable ==
    ASSUME RunnerInv, \/ UNCHANGED jobs
                      \/ \E status, catching : phase # "inactive" /\ StartReport(status, catching)
                      \/ Restart
    PROVE  \A j \in LiveJobs' : j \in LiveJobs /\ jobs'[j].scan = jobs[j].scan
  <1>1. jobs \in [JobIds -> Job]
    BY DEF RunnerInv, RunnerTypeOK
  <1>2. CASE UNCHANGED jobs
    BY <1>2 DEF LiveJobs
  <1>3. CASE Restart
    BY <1>3 DEF Restart, LiveJobs
  <1>4. ASSUME NEW status, NEW catching, phase # "inactive", StartReport(status, catching)
        PROVE  \A j \in LiveJobs' : j \in LiveJobs /\ jobs'[j].scan = jobs[j].scan
    <2>1. current \in LiveJobs /\ current \in JobIds
      BY <1>4 DEF RunnerInv, WorkerSound, LiveJobs
    <2>2. PICK job : job = [jobs[current] EXCEPT !.status = status]
      OBVIOUS
    <2>3. job.scan = jobs[current].scan
      BY <1>1, <2>1, <2>2 DEF Job, Unused
    <2>4. jobs' = [jobs EXCEPT ![current] = job]
      BY <1>4, <2>2, <1>1, <2>1 DEF StartReport, SetJob
    <2> QED
      BY <1>1, <2>1, <2>3, <2>4 DEF LiveJobs
  <1> QED
    BY <1>2, <1>3, <1>4

\* Only an acknowledged "running" report lets Strix loose.
LEMMA StrixStart ==
    ASSUME phase' = "strix",
           \/ Worker \/ ReportAcknowledged \/ ReportRejected \/ ReportFails
    PROVE  ReportAcknowledged /\ report = "running" /\ UNCHANGED <<jobs, current>>
  BY DEF Worker, DirectoryMade, DirectoryFails, Retry, StrixExits, StrixThrows, JobThrows,
     StartReport, ReportAcknowledged, ReportRejected, ReportFails, GiveUp, TakeNext

LEMMA WorkerSide ==
    ASSUME ScanInv, RunnerProgress \/ ReportTimesOut \/ RunnerRestarts
    PROVE  LinkInv'
  <1>1. CASE ScanEnds \/ RunnerWorks \/ AnswerArrives \/ ReportRefused \/ ReportTimesOut
    <2>1. \/ Worker \/ ReportRejected
          \/ ReportAcknowledged /\ exchange = "ok"
          \/ ReportFails
      BY <1>1
      DEF ScanEnds, RunnerWorks, AnswerArrives, ReportRefused, ReportTimesOut, RunnerGoesOn, Worker
    <2>2. sarif' \in Payloads
      BY <1>1, ScanAssumption
      DEF ScanAssumption, ScanEnds, RunnerWorks, AnswerArrives, ReportRefused, ReportTimesOut,
          RunnerGoesOn, ScanInv, LinkInv
    <2>3. exchange' = "none"
      BY <1>1
      DEF ScanEnds, RunnerWorks, AnswerArrives, ReportRefused, ReportTimesOut, RunnerGoesOn,
          StrixExits, StrixThrows, DirectoryMade, DirectoryFails, Retry,
          ScanInv, LinkInv, ExchangeOK
    <2>4. UNCHANGED <<hcscVars, posted>>
      BY <1>1 DEF ScanEnds, RunnerWorks, AnswerArrives, ReportRefused, ReportTimesOut
    <2>5. \/ UNCHANGED jobs
          \/ \E status, catching : phase # "inactive" /\ StartReport(status, catching)
      BY <2>1
      DEF Worker, DirectoryMade, DirectoryFails, Retry, StrixExits, StrixThrows, JobThrows,
          ReportAcknowledged, ReportRejected, ReportFails, GiveUp
    <2>6. ScanRunsOnlyRecorded'
      <3> SUFFICES ASSUME phase' = "strix"
                   PROVE  run'[jobs'[current'].scan].ext = current'
        BY DEF ScanRunsOnlyRecorded
      <3>1. ReportAcknowledged /\ report = "running" /\ UNCHANGED <<jobs, current>>
        BY <2>1, StrixStart
      <3>2. ReportAcknowledged /\ exchange = "ok"
        BY <2>1, <3>1
        DEF Worker, DirectoryMade, DirectoryFails, Retry, StrixExits, StrixThrows, JobThrows,
            StartReport, ReportAcknowledged, ReportRejected, ReportFails, GiveUp, TakeNext
      <3>3. Heard /\ run' = run
        BY <2>4, <3>2 DEF ScanInv, LinkInv, ExchangeOK, hcscVars
      <3> QED
        BY <3>1, <3>3 DEF Heard
    <2> QED
      BY <2>2, <2>3, <2>4, <2>5, <2>6, WorkerTable, RunnerSide DEF ScanInv
  <1>2. CASE RunnerRestarts
    <2>1. /\ Restart /\ UNCHANGED <<hcscVars, posted>> /\ exchange' = "none"
          /\ sarif' = sarif \/ sarif' = <<>>
      BY <1>2 DEF RunnerRestarts, RunnerGoesOn
    <2>2. sarif' \in Payloads /\ ScanRunsOnlyRecorded'
      BY <2>1, ScanAssumption
      DEF ScanAssumption, Restart, ScanRunsOnlyRecorded, ScanInv, LinkInv
    <2> QED
      BY <2>1, <2>2, WorkerTable, RunnerSide DEF ScanInv
  <1> QED
    BY <1>1, <1>2 DEF RunnerProgress

\* A job is accepted for a run that has none, under an id that was never used.
LEMMA AcceptSide ==
    ASSUME ScanInv, NEW r \in Runs, NEW j \in ExtIds, RunnerAccepts(r, j)
    PROVE  LinkInv'
  <1>1. /\ posted[r] = "sent" /\ ~Known(r) /\ j \in JobIds \ issued
        /\ jobs' = [jobs EXCEPT ![j] = [scan |-> r, status |-> "queued"]]
        /\ posted' = [posted EXCEPT ![r] = j]
        /\ UNCHANGED <<hcscVars, exchange, sarif>>
    BY DEF RunnerAccepts, Accept
  <1>2. /\ jobs \in [JobIds -> Job] /\ LiveJobs \subseteq issued
        /\ posted \in [Runs -> {"none", "sent", "refused"} \union ExtIds]
        /\ run' = run /\ finding' = finding /\ pc' = pc /\ req' = req
        /\ "sent" \notin ExtIds
    BY <1>1, ScanAssumption
    DEF ScanAssumption, ScanInv, RunnerInv, RunnerTypeOK, WorkerSound, LinkInv, PostedOK, hcscVars
  <1>3. PostedOK'
    <2>1. posted' \in [Runs -> {"none", "sent", "refused"} \union ExtIds]
      BY <1>1, <1>2
    <2>2. \A q \in Runs : run'[q].status = "absent" => posted'[q] = "none"
      BY <1>1, <1>2 DEF ScanInv, LinkInv, PostedOK
    <2>3. ASSUME NEW k \in LiveJobs'
          PROVE  posted'[jobs'[k].scan] = k
      <3>1. CASE k = j
        BY <1>1, <1>2, <2>3, <3>1
      <3>2. CASE k # j
        <4>1. k \in LiveJobs /\ jobs'[k] = jobs[k]
          BY <1>1, <1>2, <2>3, <3>2 DEF LiveJobs
        <4>2. jobs[k].scan # r /\ posted[jobs[k].scan] = k
          BY <1>1, <4>1 DEF Known, ScanInv, LinkInv, PostedOK
        <4> QED
          BY <1>1, <1>2, <4>1, <4>2
      <3> QED
        BY <3>1, <3>2
    <2>4. \A q \in Runs : run'[q].ext # None => run'[q].ext = posted'[q]
      <3> SUFFICES ASSUME NEW q \in Runs, run[q].ext # None
                   PROVE  run[q].ext = posted'[q]
        BY <1>2
      <3>1. run[q] \in Row /\ run[q].ext = posted[q]
        BY DEF ScanInv, LinkInv, PostedOK, HcscInv, HcscTypeOK
      <3> QED
        BY <1>1, <1>2, <3>1 DEF Row
    <2>5. ASSUME NEW h \in Handlers
          PROVE  ReqExt(h)'
      BY <1>1, <1>2, CarriedId DEF ReqExt
    <2> QED
      BY <2>1, <2>2, <2>3, <2>4, <2>5 DEF PostedOK
  <1>4. phase \in {"posting", "strix"} =>
           /\ UNCHANGED <<phase, current, report, inCatch>>
           /\ jobs'[current] = jobs[current]
    BY <1>1, <1>2, CurrentJob DEF RunnerAccepts, Accept
  <1>5. phase' \in {"posting", "strix"} => phase' = phase
    BY DEF RunnerAccepts, Accept, TakeNext
  <1>6. Reporting' = Reporting \/ phase \notin {"posting", "strix"}
    BY <1>1, <1>4 DEF Reporting
  <1>7. phase \in {"posting", "strix"} =>
           /\ Heard' <=> Heard
           /\ \A h \in Handlers : Serving(h)' <=> Serving(h)
    BY <1>2, <1>4, <1>6 DEF Heard, Serving, Stored
  <1>8. ExchangeOK'
    <2>1. ExchangeOK /\ exchange' = exchange
      BY <1>1 DEF ScanInv, LinkInv
    <2>2. CASE exchange = "none"
      BY <2>1, <2>2, ScanAssumption DEF ScanAssumption, ExchangeOK
    <2>3. CASE phase = "posting"
      BY <2>1, <2>3, <1>4, <1>7 DEF ExchangeOK
    <2> QED
      BY <2>1, <2>2, <2>3 DEF ExchangeOK
  <1>9. ScanRunsOnlyRecorded'
    <2> SUFFICES ASSUME phase' = "strix"
                 PROVE  run'[jobs'[current'].scan].ext = current'
      BY DEF ScanRunsOnlyRecorded
    <2>1. phase = "strix" /\ current' = current /\ jobs'[current] = jobs[current] /\ run' = run
      BY <1>2, <1>4, <1>5
    <2> QED
      BY <2>1 DEF ScanInv, LinkInv, ScanRunsOnlyRecorded
  <1> QED
    BY <1>1, <1>3, <1>8, <1>9 DEF ScanInv, LinkInv

-----------------------------------------------------------------------------
(* The inductive invariant and the theorems *)

LEMMA ScanInvInit == ScanInit => ScanInv
  <1> SUFFICES ASSUME ScanInit PROVE ScanInv
    OBVIOUS
  <1>1. HcscInv /\ RunnerInv
    BY HcscInvInit, RunnerStarts DEF ScanInit
  <1>2. PostedOK
    <2>1. \A r \in Runs : run[r].ext = None
      BY DEF ScanInit, HcscInit, NotCreated
    <2>2. \A h \in Handlers : ReqExt(h)
      BY DEF ScanInit, HcscInit, ReqExt
    <2>3. LiveJobs = {}
      BY DEF ScanInit, RunnerInit, LiveJobs
    <2> QED
      BY <2>1, <2>2, <2>3 DEF ScanInit, PostedOK
  <1>3. ExchangeOK /\ sarif \in Payloads /\ ScanRunsOnlyRecorded
    BY ScanAssumption
    DEF ScanAssumption, ScanInit, RunnerInit, ExchangeOK, ScanRunsOnlyRecorded
  <1> QED
    BY <1>1, <1>2, <1>3 DEF ScanInv, LinkInv

LEMMA ScanInvNext ==
    ASSUME ScanInv, [ScanNext]_scanVars
    PROVE  ScanInv'
  <1>1. [HcscNext]_hcscVars /\ [RunnerNext]_runnerVars
    BY ScanStepImplements
  <1>2. HcscInv' /\ RunnerInv'
    BY <1>1, HcscInvNext, RunnerStep DEF ScanInv
  <1>3. LinkInv'
    <2>1. CASE UNCHANGED scanVars
      BY <1>1, <2>1, OtherHcscSide
    <2>2. ASSUME NEW h \in Handlers,
                 \/ \E r \in Runs : Launch(h, r)
                 \/ RunnerRefuses(h) \/ LaunchAnswered(h) \/ LaunchTimesOut(h)
          PROVE  LinkInv'
      BY <1>1, <2>2, LaunchSide
    <2>3. ASSUME NEW h \in Handlers, HcscStep(h) \/ HcscFault(h)
          PROVE  LinkInv'
      BY <1>1, <2>3, ServerSide
    <2>4. ASSUME NEW h \in Handlers, ReportArrives(h)
          PROVE  LinkInv'
      BY <1>1, <2>4, ArrivalSide
    <2>5. CASE Expiry \/ \E h \in Handlers : Triaging(h)
      BY <1>1, <2>5, OtherHcscSide
    <2>6. ASSUME NEW r \in Runs, NEW j \in ExtIds, RunnerAccepts(r, j)
          PROVE  LinkInv'
      BY <2>6, AcceptSide
    <2>7. CASE RunnerProgress \/ ReportTimesOut \/ RunnerRestarts
      BY <2>7, WorkerSide
    <2> QED
      BY <2>1, <2>2, <2>3, <2>4, <2>5, <2>6, <2>7 DEF ScanNext, Delivery
  <1> QED
    BY <1>2, <1>3 DEF ScanInv

\* The invariant of the composition: that of each side, and what the two agree on.
THEOREM ScanInvariant == ScanSpec => []ScanInv
  <1>1. ScanInit => ScanInv
    BY ScanInvInit
  <1>2. ScanInv /\ [ScanNext]_scanVars => ScanInv'
    BY ScanInvNext
  <1> QED
    BY <1>1, <1>2, PTL DEF ScanSpec

\* A self-hosted scan implements HCSC's side with an open provider, so every theorem of
\* SecurityTestRun holds of it.
THEOREM ScanImplementsHcsc == ScanSpec => HcscSpec
  <1>1. ScanInit => HcscInit
    BY DEF ScanInit
  <1>2. ScanInv /\ [ScanNext]_scanVars => [HcscNext]_hcscVars
    BY ScanStepImplements
  <1> QED
    BY <1>1, <1>2, ScanInvariant, PTL DEF ScanSpec, HcscSpec

\* It implements the safety part of the runner with an open HCSC.
THEOREM ScanImplementsRunner == ScanSpec => RunnerInit /\ [][RunnerNext]_runnerVars
  <1>1. ScanInit => RunnerInit
    BY DEF ScanInit
  <1>2. ScanInv /\ [ScanNext]_scanVars => [RunnerNext]_runnerVars
    BY ScanStepImplements
  <1> QED
    BY <1>1, <1>2, ScanInvariant, PTL DEF ScanSpec

\* Strix runs only for a job whose id HCSC has stored for the run.
THEOREM StrixOnlyForRecorded == ScanSpec => []ScanRunsOnlyRecorded
  <1>1. ScanInv => ScanRunsOnlyRecorded
    BY DEF ScanInv, LinkInv
  <1> QED
    BY <1>1, ScanInvariant, PTL

\* What the runner forgets after an acknowledged report, HCSC has stored.
THEOREM AcknowledgedStored == ScanSpec => []AcknowledgedFindingsStored
  <1>1. ScanInv => AcknowledgedFindingsStored
    BY DEF ScanInv, LinkInv, ExchangeOK, Heard, AcknowledgedFindingsStored
  <1> QED
    BY <1>1, ScanInvariant, PTL
=============================================================================
