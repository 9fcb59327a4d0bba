----------------------- MODULE SecurityTestRunProofs -----------------------
(***************************************************************************)
(* What SecurityTestRun guarantees for every set of runs, findings and     *)
(* requests, every provider and any number of faults; and, further down,   *)
(* what it guarantees as long as requests do not overlap and none fails.   *)
(***************************************************************************)
EXTENDS SecurityTestRun, FiniteSetTheorems, SequenceTheorems, TLAPS

-----------------------------------------------------------------------------
(* The operators the model is built from *)

\* Stored and the domain of an upsert are sets of findings, hence finite.
LEMMA StoredFinite ==
    ASSUME NEW r
    PROVE  Stored(r) \subseteq Findings /\ IsFiniteSet(Stored(r))
  <1>1. Stored(r) \subseteq Findings
    BY DEF Stored
  <1> QED  BY <1>1, RunAssumption, FS_Subset DEF RunAssumption

\* A partial map of severities is one of those the type invariant names.
LEMMA PartialSeveritiesIntro ==
    ASSUME NEW p, DOMAIN p \subseteq Findings, p \in [DOMAIN p -> Severity]
    PROVE  p \in PartialSeverities
  BY DEF PartialSeverities

LEMMA PartialSeveritiesElim ==
    ASSUME NEW p \in PartialSeverities
    PROVE  DOMAIN p \subseteq Findings /\ p \in [DOMAIN p -> Severity]
  BY DEF PartialSeverities

LEMMA NoSeverities == <<>> \in PartialSeverities
  <1>1. <<>> = [f \in {} |-> "low"]
    OBVIOUS
  <1> QED BY <1>1 DEF PartialSeverities

LEMMA DemoPayloadPartial == DemoPayload \in PartialSeverities
  BY RunAssumption, PartialSeveritiesIntro DEF RunAssumption

LEMMA PayloadPartial ==
    ASSUME NEW p \in Payloads
    PROVE  p \in PartialSeverities
  BY RunAssumption, PartialSeveritiesIntro DEF RunAssumption

\* An upsert yields a severity for each stored row and each row of the payload.
LEMMA UpsertedType ==
    ASSUME HcscTypeOK, NEW r \in Runs, NEW p \in PartialSeverities
    PROVE  /\ Upserted(r, p) \in PartialSeverities
           /\ DOMAIN Upserted(r, p) = Stored(r) \union DOMAIN p
           /\ UpsertedRows(r, p) \in [Findings -> FindRow]
  <1>1. DOMAIN p \subseteq Findings /\ p \in [DOMAIN p -> Severity]
    BY PartialSeveritiesElim
  <1>2. DOMAIN Upserted(r, p) = Stored(r) \union DOMAIN p
    BY DEF Upserted
  <1>3. finding[r] \in [Findings -> FindRow]
    BY DEF HcscTypeOK
  <1>4. ASSUME NEW f \in Stored(r) \union DOMAIN p
        PROVE  Upserted(r, p)[f] \in Severity
    BY <1>1, <1>3, <1>4 DEF Upserted, Stored, FindRow
  <1>5. Upserted(r, p) \in [DOMAIN Upserted(r, p) -> Severity]
    BY <1>2, <1>4 DEF Upserted
  <1>6. Upserted(r, p) \in PartialSeverities
    BY <1>1, <1>2, <1>5, StoredFinite, PartialSeveritiesIntro
  <1>7. ASSUME NEW f \in Findings
        PROVE  UpsertedRows(r, p)[f] \in FindRow
    BY <1>1, <1>3, <1>7 DEF UpsertedRows, FindRow
  <1> QED  BY <1>2, <1>6, <1>7 DEF UpsertedRows

\* The counters written to a run are numbers.
LEMMA CountersNat ==
    ASSUME NEW p \in PartialSeverities
    PROVE  Cardinality(DOMAIN p) \in Nat /\ Cardinality(HighIn(p)) \in Nat
  <1>1. DOMAIN p \subseteq Findings /\ HighIn(p) \subseteq Findings
    BY PartialSeveritiesElim DEF HighIn
  <1> QED  BY <1>1, RunAssumption, FS_Subset, FS_CardinalityType DEF RunAssumption

LEMMA NoRequestType == NoRequest \in Request
  BY NoSeverities DEF NoRequest, Request, RunStatus, Triage

LEMMA RespondType ==
    ASSUME HcscTypeOK, NEW h \in Handlers, Respond(h)
    PROVE  pc' \in [Handlers -> Step] /\ req' \in [Handlers -> Request]
  BY NoRequestType DEF HcscTypeOK, Respond, Goto, Step

LEMMA RowUpdateType ==
    ASSUME NEW row \in Row, NEW ext \in ExtIds \union {None}, NEW status \in RunStatus,
           NEW count \in Nat, NEW high \in Nat, NEW finished \in BOOLEAN
    PROVE  [row EXCEPT !.ext = ext, !.status = status, !.count = count, !.high = high,
                       !.finished = finished] \in Row
  BY DEF Row

LEMMA OneMoreNoticeType ==
    ASSUME HcscTypeOK, NEW r
    PROVE  OneMoreNotice(r) \in [Runs -> 0..2]
  <1>1. ASSUME NEW n \in 0..2
        PROVE  (IF n = 2 THEN 2 ELSE n + 1) \in 0..2
    OBVIOUS
  <1>2. notices \in [Runs -> 0..2]
    BY DEF HcscTypeOK
  <1> QED  BY <1>1, <1>2 DEF OneMoreNotice

\* Replacing an element of a sequence, at any index, leaves a sequence of that length.
LEMMA ExceptType ==
    ASSUME NEW S, NEW s \in Seq(S), NEW i, NEW v \in S
    PROVE  [s EXCEPT ![i] = v] \in Seq(S) /\ Len([s EXCEPT ![i] = v]) = Len(s)
  <1>1. CASE i \in 1..Len(s)
    BY <1>1, ExceptSeq
  <1>2. CASE i \notin 1..Len(s)
    <2>1. s = [j \in DOMAIN s |-> s[j]] /\ DOMAIN s = 1..Len(s)
      OBVIOUS
    <2>2. [s EXCEPT ![i] = v] = s
      BY <1>2, <2>1
    <2> QED  BY <2>2
  <1> QED  BY <1>1, <1>2

LEMMA LinkNextType ==
    ASSUME HcscTypeOK, NEW h \in Handlers, NEW todo \in SUBSET Findings, LinkNext(h, todo)
    PROVE  pc' \in [Handlers -> Step] /\ req' \in [Handlers -> Request]
  <1>1. req[h] \in Request
    BY DEF HcscTypeOK
  <1>2. [NoRequest EXCEPT !.kind = req[h].kind, !.run = req[h].run,
                          !.notify = req[h].notify, !.todo = todo] \in Request
    BY <1>1, NoRequestType DEF Request
  <1> QED  BY <1>2 DEF HcscTypeOK, LinkNext, Goto, Step

-----------------------------------------------------------------------------
(* Type correctness *)

LEMMA TypeInit == HcscInit => HcscTypeOK
  <1> SUFFICES ASSUME HcscInit PROVE HcscTypeOK
    OBVIOUS
  <1>1. run \in [Runs -> Row]
    BY DEF HcscInit, NotCreated, Row, RunStatus
  <1>2. finding \in [Runs -> [Findings -> FindRow]]
    BY DEF HcscInit, NotStored, FindRow, Triage
  <1>3. event \in [Runs -> [Findings -> Seq(Event)]]
    BY DEF HcscInit
  <1>4. pc \in [Handlers -> Step] /\ req \in [Handlers -> Request]
    BY NoRequestType DEF HcscInit, Step
  <1> QED  BY <1>1, <1>2, <1>3, <1>4, RunAssumption DEF HcscInit, HcscTypeOK, RunAssumption

LEMMA TypeLaunch ==
    ASSUME HcscTypeOK, NEW h \in Handlers, NEW r \in Runs, NEW mode \in Modes,
           LaunchStart(h, r, mode)
    PROVE  HcscTypeOK'
  <1>1. [NotCreated EXCEPT !.provider = mode, !.status = "queued"] \in Row
    BY RunAssumption DEF NotCreated, Row, RunStatus, Reported, RunAssumption
  <1>2. [NoRequest EXCEPT !.kind = "launch", !.run = r] \in Request
    BY NoRequestType DEF Request
  <1>3. run' \in [Runs -> Row]
    BY <1>1 DEF LaunchStart, HcscTypeOK
  <1>4. req' \in [Handlers -> Request]
    BY <1>2 DEF LaunchStart, HcscTypeOK
  <1>5. pc' \in [Handlers -> Step]
    BY DEF LaunchStart, Goto, Step, HcscTypeOK
  <1> QED  BY <1>3, <1>4, <1>5 DEF LaunchStart, HcscTypeOK

LEMMA TypeAnswer ==
    ASSUME HcscTypeOK, NEW h \in Handlers, NEW ext \in ExtIds, NEW status \in Reported,
           NEW p \in PartialSeverities, LaunchAnswer(h, ext, status, p)
    PROVE  HcscTypeOK'
  <1>1. [req[h] EXCEPT !.ext = ext, !.status = status, !.payload = p,
                       !.notify = (status = "completed")] \in Request
    BY ZenonT(60) DEF HcscTypeOK, Request, RunStatus
  <1>2. req' \in [Handlers -> Request]
    BY <1>1 DEF LaunchAnswer, HcscTypeOK
  <1>3. pc' \in [Handlers -> Step]
    BY DEF LaunchAnswer, Goto, Step, HcscTypeOK
  <1> QED  BY <1>2, <1>3 DEF LaunchAnswer, HcscTypeOK

LEMMA TypeLaunchTx ==
    ASSUME HcscTypeOK, RequestsConsistent, NEW h \in Handlers, LaunchTx(h)
    PROVE  HcscTypeOK'
  <1> DEFINE r == req[h].run  p == req[h].payload
  <1>1. r \in Runs /\ p \in PartialSeverities /\ req[h].ext \in ExtIds \union {None}
        /\ req[h].status \in RunStatus
    BY DEF HcscTypeOK, RequestsConsistent, RequestOK, LaunchTx, At, Request
  <1>2. Cardinality(DOMAIN p) \in Nat /\ Cardinality(HighIn(p)) \in Nat
    BY <1>1, CountersNat
  <1>3. run' \in [Runs -> Row]
    <2>1. run[r] \in Row
      BY <1>1 DEF HcscTypeOK
    <2>2. [run[r] EXCEPT !.ext = req[h].ext, !.status = req[h].status,
                         !.count = Cardinality(DOMAIN p), !.high = Cardinality(HighIn(p)),
                         !.finished = (req[h].status = "completed")] \in Row
      BY <1>1, <1>2, <2>1, RowUpdateType
    <2> QED  BY <2>2 DEF LaunchTx, HcscTypeOK
  <1>4. finding' \in [Runs -> [Findings -> FindRow]]
    BY <1>1, UpsertedType DEF LaunchTx, HcscTypeOK
  <1>5. {f \in HighIn(Upserted(r, p)) : finding[r][f].event = 0} \subseteq Findings
    BY <1>1, UpsertedType, PartialSeveritiesElim DEF HighIn
  <1>6. pc' \in [Handlers -> Step] /\ req' \in [Handlers -> Request]
    BY <1>5, LinkNextType DEF LaunchTx
  <1> QED  BY <1>3, <1>4, <1>6 DEF LaunchTx, HcscTypeOK

LEMMA TypeCallbackRead ==
    ASSUME HcscTypeOK, NEW h \in Handlers, NEW r \in Runs, NEW ext \in ExtIds,
           NEW status \in Reported, NEW p \in PartialSeverities,
           CallbackRead(h, r, ext, status, p)
    PROVE  HcscTypeOK'
  <1>1. [NoRequest EXCEPT !.kind = "callback", !.run = r, !.ext = ext, !.status = status,
                          !.payload = p, !.seen = Stored(r),
                          !.notify = EndsRun(r, status)] \in Request
    BY NoRequestType, StoredFinite DEF Request, RunStatus, EndsRun
  <1>2. req' \in [Handlers -> Request]
    BY <1>1 DEF CallbackRead, HcscTypeOK
  <1>3. pc' \in [Handlers -> Step]
    BY DEF CallbackRead, Goto, Step, HcscTypeOK
  <1> QED  BY <1>2, <1>3 DEF CallbackRead, HcscTypeOK

LEMMA TypeCallbackCount ==
    ASSUME HcscTypeOK, RequestsConsistent, NEW h \in Handlers, CallbackCount(h)
    PROVE  HcscTypeOK'
  <1>1. req[h].run \in Runs /\ req[h].payload \in PartialSeverities
    BY DEF HcscTypeOK, RequestsConsistent, RequestOK, CallbackCount, At, Request
  <1>2. Upserted(req[h].run, req[h].payload) \in PartialSeverities
    BY <1>1, UpsertedType
  <1>3. req' \in [Handlers -> Request]
    <2>1. req[h] \in Request
      BY DEF HcscTypeOK
    <2>2. [req[h] EXCEPT !.counted = Upserted(req[h].run, req[h].payload)] \in Request
      BY <1>2, <2>1 DEF Request
    <2> QED  BY <2>2 DEF CallbackCount, HcscTypeOK
  <1>4. pc' \in [Handlers -> Step]
    BY DEF CallbackCount, Goto, Step, HcscTypeOK
  <1> QED  BY <1>3, <1>4 DEF CallbackCount, HcscTypeOK

LEMMA TypeCallbackCommit ==
    ASSUME HcscTypeOK, RequestsConsistent, NEW h \in Handlers, CallbackCommit(h)
    PROVE  HcscTypeOK'
  <1> DEFINE r == req[h].run  p == req[h].payload  counted == req[h].counted
  <1>1. /\ r \in Runs /\ p \in PartialSeverities /\ counted \in PartialSeverities
        /\ req[h].ext \in ExtIds \union {None} /\ req[h].status \in RunStatus
    BY DEF HcscTypeOK, RequestsConsistent, RequestOK, CallbackCommit, At, Request
  <1>2. Cardinality(DOMAIN counted) \in Nat /\ Cardinality(HighIn(counted)) \in Nat
    BY <1>1, CountersNat
  <1>3. run' \in [Runs -> Row]
    <2>1. run[r] \in Row
      BY <1>1 DEF HcscTypeOK
    <2>2. [run[r] EXCEPT !.ext = req[h].ext, !.status = req[h].status,
                         !.count = Cardinality(DOMAIN counted),
                         !.high = Cardinality(HighIn(counted)),
                         !.finished = req[h].status \in Terminal] \in Row
      <3>1. (req[h].status \in Terminal) \in BOOLEAN
        OBVIOUS
      <3> QED  BY <1>1, <1>2, <2>1, <3>1, RowUpdateType
    <2> QED  BY <2>2 DEF CallbackCommit, HcscTypeOK
  <1>4. finding' \in [Runs -> [Findings -> FindRow]]
    BY <1>1, UpsertedType DEF CallbackCommit, HcscTypeOK
  <1>5. NewHighRisk(h) \subseteq Findings
    BY <1>1, UpsertedType, PartialSeveritiesElim DEF NewHighRisk, HighIn
  <1>6. pc' \in [Handlers -> Step] /\ req' \in [Handlers -> Request]
    BY <1>5, LinkNextType DEF CallbackCommit
  <1> QED  BY <1>3, <1>4, <1>6 DEF CallbackCommit, HcscTypeOK

LEMMA TypeCreateEvent ==
    ASSUME HcscTypeOK, RequestsConsistent, NEW h \in Handlers, NEW f \in Findings,
           CreateEvent(h, f)
    PROVE  HcscTypeOK'
  <1> DEFINE r == req[h].run
  <1>1. NewEvent \in Event
    BY DEF NewEvent, Event, EventStatus, EventStatusFor, Triage
  <1>2. r \in Runs /\ event[r][f] \in Seq(Event)
    BY DEF HcscTypeOK, RequestsConsistent, RequestOK, CreateEvent, At
  <1>3. Append(event[r][f], NewEvent) \in Seq(Event) /\ Len(event[r][f]) + 1 \in Nat
    BY <1>1, <1>2
  <1>4. event' \in [Runs -> [Findings -> Seq(Event)]]
    BY <1>2, <1>3 DEF CreateEvent, HcscTypeOK
  <1>5. [req[h] EXCEPT !.cur = f, !.event = Len(event[r][f]) + 1] \in Request
    <2>1. req[h] \in Request
      BY DEF HcscTypeOK
    <2> QED  BY <1>3, <2>1 DEF Request
  <1>6. req' \in [Handlers -> Request]
    BY <1>5 DEF CreateEvent, HcscTypeOK
  <1>7. pc' \in [Handlers -> Step]
    BY DEF CreateEvent, Goto, Step, HcscTypeOK
  <1> QED  BY <1>4, <1>6, <1>7 DEF CreateEvent, HcscTypeOK

LEMMA TypeLinkFinding ==
    ASSUME HcscTypeOK, NEW h \in Handlers, LinkFinding(h)
    PROVE  HcscTypeOK'
  <1>1. req[h] \in Request
    BY DEF HcscTypeOK
  <1>2. [req[h] EXCEPT !.todo = @ \ {req[h].cur}, !.cur = None, !.event = 0] \in Request
    BY <1>1 DEF Request
  <1>3. req' \in [Handlers -> Request]
    BY <1>2 DEF LinkFinding, HcscTypeOK
  <1>4. pc' \in [Handlers -> Step]
    BY DEF LinkFinding, Goto, Step, HcscTypeOK
  <1>5. ASSUME NEW r \in Runs, NEW f \in Findings
        PROVE  [finding[r][f] EXCEPT !.event = req[h].event] \in FindRow
    <2>1. finding[r][f] \in FindRow
      BY DEF HcscTypeOK
    <2> QED  BY <1>1, <2>1 DEF FindRow, Request
  <1>6. finding' \in [Runs -> [Findings -> FindRow]]
    BY <1>5 DEF LinkFinding, HcscTypeOK
  <1> QED  BY <1>3, <1>4, <1>6 DEF LinkFinding, HcscTypeOK

LEMMA TypeRespond ==
    ASSUME HcscTypeOK, NEW h \in Handlers,
           LaunchCatch(h) \/ LinkDone(h) \/ Notify(h) \/ Crash(h)
    PROVE  HcscTypeOK'
  <1>1. pc' \in [Handlers -> Step] /\ req' \in [Handlers -> Request]
    BY RespondType DEF LaunchCatch, LinkDone, Notify, Crash, Goto, Step, HcscTypeOK
  <1>2. run' \in [Runs -> Row]
    <2>1. ASSUME NEW r \in Runs
          PROVE  [run[r] EXCEPT !.status = "failed", !.finished = TRUE] \in Row
      <3>1. run[r] \in Row
        BY DEF HcscTypeOK
      <3> QED  BY <3>1 DEF Row, RunStatus, Reported, Terminal
    <2>2. CASE LaunchCatch(h)
      BY <2>1, <2>2 DEF LaunchCatch, HcscTypeOK
    <2>3. CASE LinkDone(h) \/ Notify(h) \/ Crash(h)
      BY <2>3 DEF LinkDone, Notify, Crash, HcscTypeOK
    <2> QED  BY <2>2, <2>3
  <1>3. notices' \in [Runs -> 0..2]
    BY OneMoreNoticeType
    DEF LaunchCatch, LinkDone, Notify, Crash, NoticesMaybeOut, HcscTypeOK
  <1>4. faults' \in 0..MaxFaults
    BY RunAssumption DEF LaunchCatch, LinkDone, Notify, Crash, HcscTypeOK, RunAssumption
  <1> QED  BY <1>1, <1>2, <1>3, <1>4 DEF LaunchCatch, LinkDone, Notify, Crash, HcscTypeOK

LEMMA TypeTriageRead ==
    ASSUME HcscTypeOK, NEW h \in Handlers, NEW r \in Runs, NEW f \in Findings,
           NEW t \in Triages, TriageRead(h, r, f, t)
    PROVE  HcscTypeOK'
  <1>1. [NoRequest EXCEPT !.kind = "triage", !.run = r, !.cur = f, !.triage = t,
                          !.event = finding[r][f].event] \in Request
    <2>1. finding[r][f] \in FindRow
      BY DEF HcscTypeOK
    <2>2. finding[r][f].event \in Nat /\ t \in Triage
      BY <2>1, RunAssumption DEF FindRow, RunAssumption
    <2> QED  BY <2>2, NoRequestType DEF Request
  <1>2. req' \in [Handlers -> Request]
    BY <1>1 DEF TriageRead, HcscTypeOK
  <1>3. pc' \in [Handlers -> Step]
    BY DEF TriageRead, Goto, Step, HcscTypeOK
  <1> QED  BY <1>2, <1>3 DEF TriageRead, HcscTypeOK

LEMMA TypeTriageWrite ==
    ASSUME HcscTypeOK, NEW h \in Handlers, TriageWrite(h)
    PROVE  HcscTypeOK'
  <1>1. req[h] \in Request
    BY DEF HcscTypeOK
  <1>2. pc' \in [Handlers -> Step] /\ req' \in [Handlers -> Request]
    BY RespondType DEF TriageWrite, Goto, Step, HcscTypeOK
  <1>3. ASSUME NEW r \in Runs, NEW f \in Findings
        PROVE  [finding[r][f] EXCEPT !.triage = req[h].triage] \in FindRow
    <2>1. finding[r][f] \in FindRow
      BY DEF HcscTypeOK
    <2> QED  BY <1>1, <2>1 DEF FindRow, Request
  <1>4. finding' \in [Runs -> [Findings -> FindRow]]
    BY <1>3 DEF TriageWrite, HcscTypeOK
  <1> QED  BY <1>2, <1>4 DEF TriageWrite, HcscTypeOK

LEMMA TypeEventRead ==
    ASSUME HcscTypeOK, NEW h \in Handlers, NEW r \in Runs, NEW f \in Findings,
           NEW t \in Triages, NEW n \in 1..Len(event[r][f]), EventRead(h, r, f, n, t)
    PROVE  HcscTypeOK'
  <1>1. n \in Nat /\ t \in Triage
    BY RunAssumption DEF RunAssumption
  <1>2. [NoRequest EXCEPT !.kind = "event", !.run = r, !.cur = f, !.triage = t,
                          !.event = n] \in Request
    BY <1>1, NoRequestType DEF Request
  <1>3. req' \in [Handlers -> Request]
    BY <1>2 DEF EventRead, HcscTypeOK
  <1>4. pc' \in [Handlers -> Step]
    BY DEF EventRead, Goto, Step, HcscTypeOK
  <1> QED  BY <1>3, <1>4 DEF EventRead, HcscTypeOK

\* The update leaves a row of an event.
LEMMA EventUpdatedType ==
    ASSUME HcscTypeOK, NEW h \in Handlers
    PROVE  EventUpdated(h) \in Event
  <1>1. EventStatusFor[req[h].triage] \in EventStatus
    BY DEF HcscTypeOK, Request, EventStatus
  <1>2. (req[h].kind = "event") \in BOOLEAN
    OBVIOUS
  <1> QED  BY <1>1, <1>2 DEF EventUpdated, Event

LEMMA TypeWriteEventStatus ==
    ASSUME HcscTypeOK, NEW h \in Handlers, WriteEventStatus(h)
    PROVE  HcscTypeOK'
  <1>1. EventUpdated(h) \in Event
    BY EventUpdatedType
  <1>2. ASSUME NEW r \in Runs, NEW f \in Findings
        PROVE  [event[r][f] EXCEPT ![req[h].event] = EventUpdated(h)]
                  \in Seq(Event)
    <2>1. event[r][f] \in Seq(Event)
      BY DEF HcscTypeOK
    <2> QED  BY <1>1, <2>1, ExceptType
  <1>3. event' \in [Runs -> [Findings -> Seq(Event)]]
    BY <1>2 DEF WriteEventStatus, HcscTypeOK
  <1>4. pc' \in [Handlers -> Step] /\ req' \in [Handlers -> Request]
    BY RespondType DEF WriteEventStatus
  <1> QED  BY <1>3, <1>4 DEF WriteEventStatus, HcscTypeOK

LEMMA TypeLaunchError ==
    ASSUME HcscTypeOK, NEW h \in Handlers, LaunchError(h) \/ LaunchRefused(h)
    PROVE  HcscTypeOK'
  <1>1. pc' \in [Handlers -> Step]
    BY DEF LaunchError, LaunchRefused, Goto, Step, HcscTypeOK
  <1>2. notices' \in [Runs -> 0..2]
    BY OneMoreNoticeType DEF LaunchError, LaunchRefused, NoticesMaybeOut, HcscTypeOK
  <1>3. faults' \in 0..MaxFaults
    BY RunAssumption DEF LaunchError, LaunchRefused, HcscTypeOK, RunAssumption
  <1> QED  BY <1>1, <1>2, <1>3 DEF LaunchError, LaunchRefused, HcscTypeOK

\* Every step but the passing of time is the step of one request.
LEMMA TypeNext ==
    ASSUME HcscTypeOK, RequestsConsistent, [HcscNext]_hcscVars
    PROVE  HcscTypeOK'
  <1>1. CASE UNCHANGED hcscVars
    BY <1>1 DEF HcscTypeOK, hcscVars
  <1>2. CASE AuthorizationExpires
    BY <1>2 DEF HcscTypeOK, AuthorizationExpires
  <1>3. ASSUME NEW h \in Handlers, OwnStep(h)
        PROVE  HcscTypeOK'
    BY <1>3, TypeLaunchTx, TypeCallbackCount, TypeCallbackCommit, TypeCreateEvent,
       TypeLinkFinding, TypeRespond, TypeTriageWrite, TypeWriteEventStatus DEF OwnStep
  <1>4. ASSUME NEW h \in Handlers, Fault(h)
        PROVE  HcscTypeOK'
    BY <1>4, TypeLaunchError, TypeRespond DEF Fault
  <1>5. ASSUME NEW h \in Handlers, Outside(h)
        PROVE  HcscTypeOK'
    <2>1. ASSUME NEW r \in Runs, NEW mode \in Modes, LaunchStart(h, r, mode)
          PROVE  HcscTypeOK'
      BY <2>1, TypeLaunch
    <2>2. ASSUME NEW ext \in ExtIds, DemoAnswer(h, ext)
          PROVE  HcscTypeOK'
      BY <2>2, TypeAnswer, DemoPayloadPartial DEF DemoAnswer, Reported, Terminal
    <2>3. ASSUME NEW ext \in ExtIds, NEW status \in {"queued", "running", "completed"},
                 LiveAnswer(h, ext, status)
          PROVE  HcscTypeOK'
      BY <2>3, TypeAnswer, NoSeverities DEF LiveAnswer, Reported, Terminal
    <2>4. CASE LaunchRefused(h)
      BY <2>4, TypeLaunchError
    <2>5. ASSUME NEW r \in Runs, NEW ext \in ExtIds, NEW status \in Reports,
                 NEW p \in Payloads, CallbackRead(h, r, ext, status, p)
          PROVE  HcscTypeOK'
      BY <2>5, TypeCallbackRead, PayloadPartial, RunAssumption DEF RunAssumption
    <2>6. ASSUME NEW r \in Runs, NEW f \in Findings, NEW t \in Triages, TriageRead(h, r, f, t)
          PROVE  HcscTypeOK'
      BY <2>6, TypeTriageRead
    <2>7. ASSUME NEW r \in Runs, NEW f \in Findings, NEW t \in Triages,
                 NEW n \in 1..Len(event[r][f]), EventRead(h, r, f, n, t)
          PROVE  HcscTypeOK'
      BY <2>7, TypeEventRead
    <2> QED  BY <1>5, <2>1, <2>2, <2>3, <2>4, <2>5, <2>6, <2>7 DEF Outside
  <1> QED  BY <1>1, <1>2, <1>3, <1>4, <1>5 DEF HcscNext

-----------------------------------------------------------------------------
(* Who writes what *)

RunWritten(h) ==
    \/ \E r \in Runs, mode \in Modes : LaunchStart(h, r, mode)
    \/ LaunchTx(h) \/ LaunchCatch(h) \/ CallbackCommit(h)

FindingWritten(h) == LaunchTx(h) \/ CallbackCommit(h) \/ LinkFinding(h) \/ TriageWrite(h)

EventWritten(h) == (\E f \in Findings : CreateEvent(h, f)) \/ WriteEventStatus(h)

\* The rows of runs, of findings and of security events change in these statements only.
LEMMA Writers ==
    ASSUME [HcscNext]_hcscVars
    PROVE  /\ run' = run \/ \E h \in Handlers : RunWritten(h)
           /\ finding' = finding \/ \E h \in Handlers : FindingWritten(h)
           /\ event' = event \/ \E h \in Handlers : EventWritten(h)
  <1>1. CASE UNCHANGED hcscVars
    BY <1>1 DEF hcscVars
  <1>2. CASE AuthorizationExpires
    BY <1>2 DEF AuthorizationExpires
  <1>3. ASSUME NEW h \in Handlers, OwnStep(h)
        PROVE  /\ run' = run \/ RunWritten(h)
               /\ finding' = finding \/ FindingWritten(h)
               /\ event' = event \/ EventWritten(h)
    <2>1. CASE LaunchTx(h) \/ CallbackCommit(h)
      <3>1. event' = event
        BY <2>1 DEF LaunchTx, CallbackCommit
      <3> QED  BY <2>1, <3>1 DEF RunWritten, FindingWritten
    <2>2. CASE LaunchCatch(h)
      <3>1. finding' = finding /\ event' = event
        BY <2>2 DEF LaunchCatch
      <3> QED  BY <2>2, <3>1 DEF RunWritten
    <2>3. CASE LinkFinding(h) \/ TriageWrite(h)
      <3>1. run' = run /\ event' = event
        BY <2>3 DEF LinkFinding, TriageWrite
      <3> QED  BY <2>3, <3>1 DEF FindingWritten
    <2>4. CASE (\E f \in Findings : CreateEvent(h, f)) \/ WriteEventStatus(h)
      <3>1. run' = run /\ finding' = finding
        BY <2>4 DEF CreateEvent, WriteEventStatus
      <3> QED  BY <2>4, <3>1 DEF EventWritten
    <2>5. CASE CallbackCount(h) \/ LinkDone(h) \/ Notify(h)
      BY <2>5 DEF CallbackCount, LinkDone, Notify
    <2> QED  BY <1>3, <2>1, <2>2, <2>3, <2>4, <2>5 DEF OwnStep
  <1>4. ASSUME NEW h \in Handlers, Fault(h)
        PROVE  UNCHANGED <<run, finding, event>>
    BY <1>4 DEF Fault, LaunchError, Crash
  <1>5. ASSUME NEW h \in Handlers, Outside(h)
        PROVE  (run' = run \/ RunWritten(h)) /\ UNCHANGED <<finding, event>>
    <2>1. CASE \E r \in Runs, mode \in Modes : LaunchStart(h, r, mode)
      <3>1. UNCHANGED <<finding, event>>
        BY <2>1 DEF LaunchStart
      <3> QED  BY <2>1, <3>1 DEF RunWritten
    <2>2. CASE LaunchRefused(h)
      BY <2>2 DEF LaunchRefused
    <2>3. CASE \/ \E ext \in ExtIds : DemoAnswer(h, ext)
               \/ \E ext \in ExtIds, status \in {"queued", "running", "completed"} :
                     LiveAnswer(h, ext, status)
      BY <2>3 DEF DemoAnswer, LiveAnswer, LaunchAnswer
    <2>4. CASE \/ \E r \in Runs, ext \in ExtIds, status \in Reports, p \in Payloads :
                     CallbackRead(h, r, ext, status, p)
               \/ \E r \in Runs, f \in Findings, t \in Triages : TriageRead(h, r, f, t)
               \/ \E r \in Runs, f \in Findings, t \in Triages :
                     \E n \in 1..Len(event[r][f]) : EventRead(h, r, f, n, t)
      BY <2>4 DEF CallbackRead, TriageRead, EventRead
    <2> QED  BY <1>5, <2>1, <2>2, <2>3, <2>4 DEF Outside
  <1> QED  BY <1>1, <1>2, <1>3, <1>4, <1>5 DEF HcscNext

-----------------------------------------------------------------------------
(* What no step takes back *)

\* The row a transaction leaves in its run; other runs keep theirs.
LEMMA LaunchTxRow ==
    ASSUME HcscTypeOK, NEW h \in Handlers, LaunchTx(h), NEW r \in Runs
    PROVE  \/ r # req[h].run /\ run'[r] = run[r]
           \/ /\ r = req[h].run
              /\ run'[r].provider = run[r].provider
              /\ run'[r].ext = req[h].ext /\ run'[r].status = req[h].status
              /\ run'[r].count = Cardinality(DOMAIN req[h].payload)
              /\ run'[r].finished = (req[h].status = "completed")
  <1>1. run[r] \in Row
    BY DEF HcscTypeOK
  <1>2. CASE r # req[h].run
    BY <1>2 DEF LaunchTx, HcscTypeOK
  <1>3. CASE r = req[h].run
    <2> DEFINE p == req[h].payload
    <2>1. run'[r] = [run[r] EXCEPT !.ext = req[h].ext, !.status = req[h].status,
                                   !.count = Cardinality(DOMAIN p),
                                   !.high = Cardinality(HighIn(p)),
                                   !.finished = (req[h].status = "completed")]
      BY <1>3 DEF LaunchTx, HcscTypeOK
    <2> QED  BY <1>1, <1>3, <2>1 DEF Row
  <1> QED  BY <1>2, <1>3

LEMMA CallbackCommitRow ==
    ASSUME HcscTypeOK, NEW h \in Handlers, CallbackCommit(h), NEW r \in Runs
    PROVE  \/ r # req[h].run /\ run'[r] = run[r]
           \/ /\ r = req[h].run
              /\ run'[r].provider = run[r].provider
              /\ run'[r].ext = req[h].ext /\ run'[r].status = req[h].status
              /\ run'[r].count = Cardinality(DOMAIN req[h].counted)
              /\ run'[r].finished = (req[h].status \in Terminal)
  <1>1. run[r] \in Row
    BY DEF HcscTypeOK
  <1>2. CASE r # req[h].run
    BY <1>2 DEF CallbackCommit, HcscTypeOK
  <1>3. CASE r = req[h].run
    <2> DEFINE counted == req[h].counted
    <2>1. run'[r] = [run[r] EXCEPT !.ext = req[h].ext, !.status = req[h].status,
                                   !.count = Cardinality(DOMAIN counted),
                                   !.high = Cardinality(HighIn(counted)),
                                   !.finished = req[h].status \in Terminal]
      BY <1>3 DEF CallbackCommit, HcscTypeOK
    <2> QED  BY <1>1, <1>3, <2>1 DEF Row
  <1> QED  BY <1>2, <1>3

LEMMA RunLasts ==
    ASSUME HcscTypeOK, RequestsConsistent, [HcscNext]_hcscVars, NEW r \in Runs
    PROVE  /\ run[r].status # "absent" =>
                 run'[r].status # "absent" /\ run'[r].provider = run[r].provider
           /\ run[r].ext # None => run'[r].ext # None
  <1>1. CASE run' = run
    BY <1>1
  <1>2. ASSUME NEW h \in Handlers, NEW q \in Runs, NEW mode \in Modes, LaunchStart(h, q, mode)
        PROVE  /\ run'[r] = run[r] \/ run[r].status = "absent"
               /\ run[r].ext # None => run'[r].ext # None
    <2>1. run'[r] = run[r] \/ (r = q /\ run[r].status = "absent")
      BY <1>2 DEF LaunchStart, HcscTypeOK
    <2>2. run[r].status = "absent" => run[r].ext = None
      BY DEF RequestsConsistent, NotCreated
    <2> QED  BY <2>1, <2>2
  <1>3. ASSUME NEW h \in Handlers, LaunchTx(h) \/ CallbackCommit(h)
        PROVE  /\ run[r].status # "absent" =>
                     run'[r].status # "absent" /\ run'[r].provider = run[r].provider
               /\ run[r].ext # None => run'[r].ext # None
    <2>1. req[h].ext # None /\ req[h].status # "absent"
      BY <1>3 DEF RequestsConsistent, RequestOK, LaunchTx, CallbackCommit, At, Reported, Terminal
    <2>2. run[r] \in Row
      BY DEF HcscTypeOK
    <2>3. \/ run'[r] = run[r]
          \/ /\ run'[r].ext = req[h].ext /\ run'[r].status = req[h].status
             /\ run'[r].provider = run[r].provider
      BY <1>3, <2>2, LaunchTxRow, CallbackCommitRow
    <2> QED  BY <2>1, <2>3
  <1>4. ASSUME NEW h \in Handlers, LaunchCatch(h)
        PROVE  /\ run[r].status # "absent" =>
                     run'[r].status # "absent" /\ run'[r].provider = run[r].provider
               /\ run[r].ext # None => run'[r].ext # None
    <2>1. run[r] \in Row
      BY DEF HcscTypeOK
    <2> QED  BY <1>4, <2>1 DEF LaunchCatch, HcscTypeOK, Row
  <1> QED  BY <1>1, <1>2, <1>3, <1>4, Writers DEF RunWritten

\* The rows an upsert leaves: what was stored stays, with its triage and its event, and
\* the rows of the payload are stored.
LEMMA UpsertKeeps ==
    ASSUME HcscTypeOK, NEW r \in Runs, NEW p \in PartialSeverities, NEW f \in Findings
    PROVE  /\ UpsertedRows(r, p)[f].event = finding[r][f].event
           /\ UpsertedRows(r, p)[f].triage = finding[r][f].triage
           /\ UpsertedRows(r, p)[f].sev # "none" <=> f \in Stored(r) \union DOMAIN p
  <1>1. finding[r][f] \in FindRow
    BY DEF HcscTypeOK
  <1>2. CASE f \in DOMAIN p
    <2>1. p[f] \in Severity
      BY <1>2, PartialSeveritiesElim
    <2> QED  BY <1>1, <1>2, <2>1 DEF UpsertedRows, FindRow, Severity
  <1>3. CASE f \notin DOMAIN p
    BY <1>1, <1>3 DEF UpsertedRows, Stored
  <1> QED  BY <1>2, <1>3

LEMMA FindingLasts ==
    ASSUME HcscTypeOK, RequestsConsistent, [HcscNext]_hcscVars,
           NEW r \in Runs, NEW f \in Findings
    PROVE  /\ finding[r][f].sev # "none" => finding'[r][f].sev # "none"
           /\ finding[r][f].event # 0 => finding'[r][f].event # 0
  <1>1. CASE finding' = finding
    BY <1>1
  <1>2. ASSUME NEW h \in Handlers, LaunchTx(h) \/ CallbackCommit(h)
        PROVE  /\ finding[r][f].sev # "none" => finding'[r][f].sev # "none"
               /\ finding[r][f].event # 0 => finding'[r][f].event # 0
    <2>1. req[h].payload \in PartialSeverities
      BY DEF HcscTypeOK, Request
    <2>2. finding'[r] = finding[r] \/ finding'[r] = UpsertedRows(r, req[h].payload)
      BY <1>2 DEF LaunchTx, CallbackCommit, HcscTypeOK
    <2> QED  BY <2>1, <2>2, UpsertKeeps DEF Stored
  <1>3. ASSUME NEW h \in Handlers, LinkFinding(h)
        PROVE  /\ finding'[r][f].sev = finding[r][f].sev
               /\ finding[r][f].event # 0 => finding'[r][f].event # 0
    <2>1. finding[r][f] \in FindRow
      BY DEF HcscTypeOK
    <2>2. req[h].event # 0
      BY <1>3 DEF RequestsConsistent, RequestOK, LinkFinding, At
    <2> QED  BY <1>3, <2>1, <2>2 DEF LinkFinding, HcscTypeOK, FindRow
  <1>4. ASSUME NEW h \in Handlers, TriageWrite(h)
        PROVE  /\ finding'[r][f].sev = finding[r][f].sev
               /\ finding'[r][f].event = finding[r][f].event
    <2>1. finding[r][f] \in FindRow
      BY DEF HcscTypeOK
    <2> QED  BY <1>4, <2>1 DEF TriageWrite, HcscTypeOK, FindRow
  <1> QED  BY <1>1, <1>2, <1>3, <1>4, Writers DEF FindingWritten

LEMMA EventLasts ==
    ASSUME HcscTypeOK, RequestsConsistent, [HcscNext]_hcscVars,
           NEW r \in Runs, NEW f \in Findings
    PROVE  Len(event[r][f]) <= Len(event'[r][f])
  <1>0. event[r][f] \in Seq(Event) /\ event[r] \in [Findings -> Seq(Event)]
    BY DEF HcscTypeOK
  <1>1. CASE event' = event
    BY <1>0, <1>1
  <1>2. ASSUME NEW h \in Handlers, NEW g \in Findings, CreateEvent(h, g)
        PROVE  Len(event[r][f]) <= Len(event'[r][f])
    <2>1. event'[r][f] = event[r][f] \/ event'[r][f] = Append(event[r][f], NewEvent)
      BY <1>2, <1>0 DEF CreateEvent, HcscTypeOK
    <2> QED  BY <1>0, <2>1
  <1>3. ASSUME NEW h \in Handlers, WriteEventStatus(h)
        PROVE  Len(event[r][f]) <= Len(event'[r][f])
    <2>1. EventUpdated(h) \in Event
      BY EventUpdatedType
    <2>2. \/ event'[r][f] = event[r][f]
          \/ event'[r][f] = [event[r][f] EXCEPT ![req[h].event] = EventUpdated(h)]
      BY <1>3, <1>0 DEF WriteEventStatus, HcscTypeOK
    <2> QED  BY <1>0, <2>1, <2>2, ExceptType
  <1> QED  BY <1>1, <1>2, <1>3, Writers DEF EventWritten

-----------------------------------------------------------------------------
(* Consistency of the requests at work *)

LEMMA ConsistencyInit == HcscInit => RequestsConsistent /\ LinkedEventExists
  <1> SUFFICES ASSUME HcscInit PROVE RequestsConsistent /\ LinkedEventExists
    OBVIOUS
  <1>1. \A r \in Runs : run[r] = NotCreated /\ Stored(r) = {}
                         /\ \A f \in Findings : event[r][f] = <<>>
    BY DEF HcscInit, Stored, NotStored
  <1>2. \A h \in Handlers : RequestOK(h)
    BY DEF HcscInit, RequestOK, At
  <1>3. LinkedEventExists
    BY DEF HcscInit, LinkedEventExists, NotStored
  <1> QED  BY <1>1, <1>2, <1>3 DEF RequestsConsistent

LEMMA AtMostTransitive ==
    \A a, b, c \in Nat : a <= b /\ b <= c => a <= c
  OBVIOUS

\* A request that has stored the run goes on to its links, for the same run.
LEMMA LinkNextRun ==
    ASSUME HcscTypeOK, NEW h \in Handlers, NEW todo, LinkNext(h, todo)
    PROVE  pc'[h] = "link" /\ req'[h].run = req[h].run
  BY DEF LinkNext, Goto, HcscTypeOK, NoRequest

\* A request that does not move stays consistent whatever the others do.
LEMMA OthersConsistent ==
    ASSUME HcscTypeOK, RequestsConsistent, [HcscNext]_hcscVars,
           NEW g \in Handlers, pc'[g] = pc[g], req'[g] = req[g]
    PROVE  RequestOK(g)'
  <1>1. CASE At(g, "idle")
    BY <1>1 DEF RequestOK, At
  <1>2. CASE ~At(g, "idle")
    <2> DEFINE r == req[g].run
    <2>1. r \in Runs /\ RequestOK(g)
      BY <1>2 DEF RequestsConsistent, RequestOK
    <2>2. run'[r].status # "absent" /\ run'[r].provider = run[r].provider
      BY <1>2, <2>1, RunLasts DEF RequestOK
    <2>3. Stored(r) \subseteq Stored(r)'
      BY <2>1, FindingLasts DEF Stored
    <2>4. pc[g] \in {"linkFinding", "triage", "eventStatus"} =>
             req[g].event <= Len(event'[r][req[g].cur])
      <3> SUFFICES ASSUME pc[g] \in {"linkFinding", "triage", "eventStatus"}
                   PROVE  req[g].event <= Len(event'[r][req[g].cur])
        OBVIOUS
      <3>1. req[g].cur \in Findings /\ req[g].event <= Len(event[r][req[g].cur])
        BY <2>1 DEF RequestOK
      <3>2. Len(event[r][req[g].cur]) <= Len(event'[r][req[g].cur])
        BY <2>1, <3>1, EventLasts
      <3>3. req[g].event \in Nat /\ Len(event[r][req[g].cur]) \in Nat
            /\ Len(event'[r][req[g].cur]) \in Nat
        BY <2>1, <3>1, TypeNext DEF HcscTypeOK, Request
      <3> QED  BY <3>1, <3>2, <3>3, AtMostTransitive
    <2> QED  BY <2>1, <2>2, <2>3, <2>4 DEF RequestOK, At
  <1> QED  BY <1>1, <1>2

LEMMA OwnStepConsistent ==
    ASSUME HcscTypeOK, RequestsConsistent, LinkedEventExists, HcscTypeOK',
           [HcscNext]_hcscVars, NEW h \in Handlers, OwnStep(h) \/ Fault(h)
    PROVE  RequestOK(h)'
  <1> DEFINE r == req[h].run
  <1>1. RequestOK(h) /\ req[h] \in Request
    BY DEF RequestsConsistent, HcscTypeOK
  <1>2. CASE Respond(h)
    BY <1>2 DEF Respond, Goto, HcscTypeOK, RequestOK, At
  <1>3. ASSUME ~At(h, "idle"), req'[h].run = r
        PROVE  r \in Runs /\ run'[r].status # "absent"
    BY <1>1, <1>3, RunLasts DEF RequestOK
  <1>4. CASE LaunchTx(h) \/ CallbackCommit(h)
    <2>1. pc'[h] = "link" /\ req'[h].run = r /\ ~At(h, "idle")
      <3>1. CASE LaunchTx(h)
        BY <3>1, LinkNextRun DEF LaunchTx, At
      <3>2. CASE CallbackCommit(h)
        BY <3>2, LinkNextRun DEF CallbackCommit, At
      <3> QED  BY <1>4, <3>1, <3>2
    <2> QED  BY <1>3, <2>1 DEF RequestOK, At
  <1>5. CASE CallbackCount(h)
    <2>1. pc'[h] = "commit" /\ ~At(h, "idle")
      BY <1>5 DEF CallbackCount, Goto, HcscTypeOK, At
    <2>2. /\ req'[h].run = r /\ req'[h].payload = req[h].payload /\ req'[h].ext = req[h].ext
          /\ req'[h].status = req[h].status
          /\ req'[h].counted = Upserted(r, req[h].payload)
      BY <1>1, <1>5 DEF CallbackCount, HcscTypeOK, Request
    <2>3. r \in Runs /\ run[r].status # "absent" /\ run[r].provider # "demo"
          /\ req[h].ext # None /\ req[h].status \in Reported /\ req[h].payload \in PartialSeverities
      BY <1>1, <1>5 DEF CallbackCount, RequestOK, At, Request
    <2>4. DOMAIN Upserted(r, req[h].payload) = Stored(r) \union DOMAIN req[h].payload
      BY <2>3, UpsertedType
    <2>5. UNCHANGED <<run, finding>>
      BY <1>5 DEF CallbackCount
    <2>6. DOMAIN req'[h].counted = Stored(r)' \union DOMAIN req'[h].payload
      BY <2>2, <2>4, <2>5 DEF Stored
    <2> QED  BY <2>1, <2>2, <2>3, <2>5, <2>6 DEF RequestOK, At
  <1>6. ASSUME NEW f \in Findings, CreateEvent(h, f)
        PROVE  RequestOK(h)'
    <2>1. pc'[h] = "linkFinding" /\ ~At(h, "idle")
      BY <1>6 DEF CreateEvent, Goto, HcscTypeOK, At
    <2>2. r \in Runs /\ run[r].status # "absent"
      BY <1>1, <1>6 DEF CreateEvent, RequestOK, At
    <2>3. req'[h].run = r /\ req'[h].cur = f /\ req'[h].event = Len(event[r][f]) + 1
      BY <1>1, <1>6 DEF CreateEvent, HcscTypeOK, Request
    <2>4. event'[r][f] = Append(event[r][f], NewEvent) /\ run' = run
      BY <1>6, <2>2 DEF CreateEvent, HcscTypeOK
    <2>5. event[r][f] \in Seq(Event)
      BY <2>2 DEF HcscTypeOK
    <2>6. Len(event'[r][f]) = Len(event[r][f]) + 1 /\ Len(event[r][f]) \in Nat
      BY <2>4, <2>5
    <2> QED  BY <2>1, <2>2, <2>3, <2>4, <2>6 DEF RequestOK, At
  <1>7. CASE LinkFinding(h)
    <2>1. pc'[h] = "link" /\ ~At(h, "idle")
      BY <1>7 DEF LinkFinding, Goto, HcscTypeOK, At
    <2>2. req'[h].run = r
      BY <1>1, <1>7 DEF LinkFinding, HcscTypeOK, Request
    <2> QED  BY <1>3, <2>1, <2>2 DEF RequestOK, At
  <1>8. CASE LinkDone(h) /\ ~Respond(h)
    <2>1. pc'[h] = "notify" /\ ~At(h, "idle") /\ req'[h].run = r
      BY <1>8 DEF LinkDone, Goto, HcscTypeOK, At
    <2> QED  BY <1>3, <2>1 DEF RequestOK, At
  <1>9. CASE TriageWrite(h) /\ ~Respond(h)
    <2>1. pc'[h] = "eventStatus" /\ At(h, "triage") /\ req' = req /\ UNCHANGED <<run, event>>
      BY <1>9 DEF TriageWrite, Goto, HcscTypeOK
    <2> QED  BY <1>1, <2>1 DEF RequestOK, At
  <1>10. CASE LaunchError(h)
    <2>1. pc'[h] = "launchCatch" /\ ~At(h, "idle") /\ req'[h].run = r
      BY <1>10 DEF LaunchError, Goto, HcscTypeOK, At
    <2> QED  BY <1>3, <2>1 DEF RequestOK, At
  <1> QED
    BY <1>2, <1>4, <1>5, <1>6, <1>7, <1>8, <1>9, <1>10
    DEF OwnStep, Fault, LaunchCatch, LinkDone, Notify, WriteEventStatus, Crash, TriageWrite

LEMMA OutsideConsistent ==
    ASSUME HcscTypeOK, RequestsConsistent, LinkedEventExists, HcscTypeOK',
           [HcscNext]_hcscVars, NEW h \in Handlers, Outside(h)
    PROVE  RequestOK(h)'
  <1>1. RequestOK(h) /\ req[h] \in Request
    BY DEF RequestsConsistent, HcscTypeOK
  <1>2. ASSUME NEW r \in Runs, NEW mode \in Modes, LaunchStart(h, r, mode)
        PROVE  RequestOK(h)'
    <2>1. pc'[h] = "awaitProvider" /\ req'[h].run = r
      BY <1>2 DEF LaunchStart, Goto, HcscTypeOK, NoRequest
    <2>2. run'[r].status = "queued"
      BY <1>2 DEF LaunchStart, HcscTypeOK, NotCreated
    <2> QED  BY <2>1, <2>2 DEF RequestOK, At
  <1>3. ASSUME NEW ext \in ExtIds, NEW status \in {"queued", "running", "completed"}, NEW p,
               LaunchAnswer(h, ext, status, p),
               run[req[h].run].provider = "demo" => p = DemoPayload
        PROVE  RequestOK(h)'
    <2>1. pc'[h] = "launchTx" /\ At(h, "awaitProvider") /\ run' = run
      BY <1>3 DEF LaunchAnswer, Goto, HcscTypeOK
    <2>2. /\ req'[h].run = req[h].run /\ req'[h].ext = ext /\ req'[h].status = status
          /\ req'[h].payload = p
      BY <1>1, <1>3 DEF LaunchAnswer, HcscTypeOK, Request
    <2>3. ext # None
      BY RunAssumption DEF RunAssumption
    <2> QED  BY <1>1, <1>3, <2>1, <2>2, <2>3 DEF RequestOK, At
  <1>4. ASSUME NEW ext \in ExtIds, DemoAnswer(h, ext)
        PROVE  RequestOK(h)'
    BY <1>3, <1>4 DEF DemoAnswer
  <1>5. ASSUME NEW ext \in ExtIds, NEW status \in {"queued", "running", "completed"},
               LiveAnswer(h, ext, status)
        PROVE  RequestOK(h)'
    BY <1>3, <1>5 DEF LiveAnswer
  <1>6. CASE LaunchRefused(h)
    <2>1. pc'[h] = "launchCatch" /\ ~At(h, "idle") /\ req' = req /\ run' = run
      BY <1>6 DEF LaunchRefused, Goto, HcscTypeOK, At
    <2> QED  BY <1>1, <2>1 DEF RequestOK, At
  <1>7. ASSUME NEW r \in Runs, NEW ext \in ExtIds, NEW status \in Reports, NEW p \in Payloads,
               CallbackRead(h, r, ext, status, p)
        PROVE  RequestOK(h)'
    <2>1. pc'[h] = "tx" /\ run' = run
      BY <1>7 DEF CallbackRead, Goto, HcscTypeOK
    <2>2. req'[h].run = r /\ req'[h].ext = ext /\ req'[h].status = status
      BY <1>7 DEF CallbackRead, HcscTypeOK, NoRequest
    <2>3. run[r].provider # "demo" /\ run[r].status # "absent"
      BY <1>7 DEF CallbackRead, CallbackAccepted, TransitionAllowed, Terminal
    <2>4. ext # None /\ status \in Reported
      BY RunAssumption DEF RunAssumption
    <2> QED  BY <2>1, <2>2, <2>3, <2>4 DEF RequestOK, At
  <1>8. ASSUME NEW r \in Runs, NEW f \in Findings, NEW t \in Triages, TriageRead(h, r, f, t)
        PROVE  RequestOK(h)'
    <2>1. pc'[h] = "triage" /\ run' = run /\ event' = event
      BY <1>8 DEF TriageRead, Goto, HcscTypeOK
    <2>2. req'[h].run = r /\ req'[h].cur = f /\ req'[h].event = finding[r][f].event
      BY <1>8 DEF TriageRead, HcscTypeOK, NoRequest
    <2>3. run[r].status # "absent"
      BY <1>8 DEF TriageRead, RequestsConsistent
    <2>4. finding[r][f].event <= Len(event[r][f])
      BY DEF LinkedEventExists
    <2> QED  BY <2>1, <2>2, <2>3, <2>4 DEF RequestOK, At
  <1>9. ASSUME NEW r \in Runs, NEW f \in Findings, NEW t \in Triages,
               NEW n \in 1..Len(event[r][f]), EventRead(h, r, f, n, t)
        PROVE  RequestOK(h)'
    <2>1. pc'[h] = "eventStatus" /\ run' = run /\ event' = event
      BY <1>9 DEF EventRead, Goto, HcscTypeOK
    <2>2. req'[h].run = r /\ req'[h].cur = f /\ req'[h].event = n
      BY <1>9 DEF EventRead, HcscTypeOK, NoRequest
    <2>3. event[r][f] \in Seq(Event)
      BY DEF HcscTypeOK
    <2>4. n <= Len(event[r][f]) /\ event[r][f] # <<>>
      BY <2>3
    <2>5. run[r].status # "absent"
      BY <2>4 DEF RequestsConsistent
    <2> QED  BY <2>1, <2>2, <2>4, <2>5 DEF RequestOK, At
  <1> QED  BY <1>2, <1>4, <1>5, <1>6, <1>7, <1>8, <1>9 DEF Outside

\* One request moves at a time.
LEMMA OneMoves ==
    ASSUME HcscTypeOK, [HcscNext]_hcscVars
    PROVE  \/ UNCHANGED <<pc, req>>
           \/ \E h \in Handlers :
                 /\ OwnStep(h) \/ Fault(h) \/ Outside(h)
                 /\ \A g \in Handlers : g # h => pc'[g] = pc[g] /\ req'[g] = req[g]
  <1>1. CASE UNCHANGED hcscVars \/ AuthorizationExpires
    BY <1>1 DEF hcscVars, AuthorizationExpires
  <1>2. ASSUME NEW h \in Handlers, OwnStep(h) \/ Fault(h) \/ Outside(h)
        PROVE  \A g \in Handlers : g # h => pc'[g] = pc[g] /\ req'[g] = req[g]
    <2>1. SUFFICES ASSUME NEW g \in Handlers, g # h
                   PROVE  pc'[g] = pc[g] /\ req'[g] = req[g]
      OBVIOUS
    <2>2. ASSUME NEW step, Goto(h, step)
          PROVE  pc'[g] = pc[g]
      BY <2>1, <2>2 DEF Goto, HcscTypeOK
    <2>3. ASSUME Respond(h)
          PROVE  pc'[g] = pc[g] /\ req'[g] = req[g]
      BY <2>1, <2>2, <2>3 DEF Respond, HcscTypeOK
    <2>4. CASE OwnStep(h)
      <3>1. CASE LaunchTx(h) \/ CallbackCommit(h)
        BY <2>1, <2>2, <3>1 DEF LaunchTx, CallbackCommit, LinkNext, HcscTypeOK
      <3>2. CASE CallbackCount(h) \/ LinkFinding(h) \/ \E f \in Findings : CreateEvent(h, f)
        BY <2>1, <2>2, <3>2 DEF CallbackCount, LinkFinding, CreateEvent, HcscTypeOK
      <3>3. CASE LaunchCatch(h) \/ LinkDone(h) \/ Notify(h) \/ TriageWrite(h) \/ WriteEventStatus(h)
        BY <2>2, <2>3, <3>3 DEF LaunchCatch, LinkDone, Notify, TriageWrite, WriteEventStatus
      <3> QED  BY <2>4, <3>1, <3>2, <3>3 DEF OwnStep
    <2>5. CASE Fault(h)
      BY <2>2, <2>3, <2>5 DEF Fault, LaunchError, Crash
    <2>6. CASE Outside(h)
      <3>1. ASSUME NEW r \in Runs, NEW mode \in Modes, LaunchStart(h, r, mode)
            PROVE  pc'[g] = pc[g] /\ req'[g] = req[g]
        BY <2>1, <2>2, <3>1 DEF LaunchStart, HcscTypeOK
      <3>2. ASSUME NEW ext, NEW status, NEW p, LaunchAnswer(h, ext, status, p)
            PROVE  pc'[g] = pc[g] /\ req'[g] = req[g]
        BY <2>1, <2>2, <3>2 DEF LaunchAnswer, HcscTypeOK
      <3>3. CASE LaunchRefused(h)
        BY <2>2, <3>3 DEF LaunchRefused
      <3>4. ASSUME NEW r \in Runs, NEW ext \in ExtIds, NEW status \in Reports, NEW p \in Payloads,
                   CallbackRead(h, r, ext, status, p)
            PROVE  pc'[g] = pc[g] /\ req'[g] = req[g]
        BY <2>1, <2>2, <3>4 DEF CallbackRead, HcscTypeOK
      <3>5. ASSUME NEW r \in Runs, NEW f \in Findings, NEW t \in Triages, TriageRead(h, r, f, t)
            PROVE  pc'[g] = pc[g] /\ req'[g] = req[g]
        BY <2>1, <2>2, <3>5 DEF TriageRead, HcscTypeOK
      <3>6. ASSUME NEW r \in Runs, NEW f \in Findings, NEW t \in Triages,
                   NEW n \in 1..Len(event[r][f]), EventRead(h, r, f, n, t)
            PROVE  pc'[g] = pc[g] /\ req'[g] = req[g]
        BY <2>1, <2>2, <3>6 DEF EventRead, HcscTypeOK
      <3> QED
        BY <2>6, <3>1, <3>2, <3>3, <3>4, <3>5, <3>6 DEF Outside, DemoAnswer, LiveAnswer
    <2> QED  BY <1>2, <2>4, <2>5, <2>6
  <1> QED  BY <1>1, <1>2 DEF HcscNext

Still(g) == pc'[g] = pc[g] /\ req'[g] = req[g]

\* The request that moves is the only one.
LEMMA OnlyMover ==
    ASSUME HcscTypeOK, [HcscNext]_hcscVars, NEW h \in Handlers, pc'[h] # pc[h]
    PROVE  \A g \in Handlers : g # h => Still(g)
  BY OneMoves DEF Still

\* Every step of a request moves it.
LEMMA RequestMoves ==
    ASSUME HcscTypeOK, NEW h \in Handlers, OwnStep(h) \/ Fault(h)
    PROVE  pc'[h] # pc[h]
  <1>1. pc \in [Handlers -> Step]
    BY DEF HcscTypeOK
  <1>2. CASE LaunchTx(h) \/ CallbackCommit(h) \/ CallbackCount(h) \/ LinkFinding(h)
    BY <1>1, <1>2 DEF LaunchTx, CallbackCommit, CallbackCount, LinkFinding, LinkNext, Goto, At
  <1>3. CASE LaunchCatch(h) \/ Notify(h) \/ WriteEventStatus(h)
    BY <1>1, <1>3 DEF LaunchCatch, Notify, WriteEventStatus, Respond, Goto, At
  <1>4. CASE LinkDone(h) \/ TriageWrite(h) \/ \E f \in Findings : CreateEvent(h, f)
    BY <1>1, <1>4 DEF LinkDone, TriageWrite, CreateEvent, Respond, Goto, At
  <1>5. CASE Fault(h)
    BY <1>1, <1>5 DEF Fault, LaunchError, Crash, Respond, Goto
  <1> QED
    BY <1>2, <1>3, <1>4, <1>5 DEF OwnStep

\* A request's own step keeps what it is for, until it has answered.
LEMMA RequestGoesOn ==
    ASSUME HcscTypeOK, NEW h \in Handlers, OwnStep(h), pc'[h] # "idle"
    PROVE  /\ req'[h].kind = req[h].kind /\ req'[h].run = req[h].run
           /\ pc'[h] \in {"launchTx", "tx", "commit"} =>
                 /\ pc[h] = "tx" /\ req'[h].ext = req[h].ext /\ req'[h].status = req[h].status
                 /\ req'[h].payload = req[h].payload
  <1>1. pc \in [Handlers -> Step] /\ req \in [Handlers -> Request] /\ req[h] \in Request
    BY DEF HcscTypeOK
  <1>2. CASE LaunchTx(h) \/ CallbackCommit(h)
    <2>1. PICK todo : LinkNext(h, todo)
      BY <1>2 DEF LaunchTx, CallbackCommit
    <2>2. PICK q : q = [NoRequest EXCEPT !.kind = req[h].kind, !.run = req[h].run,
                                         !.notify = req[h].notify, !.todo = todo]
      OBVIOUS
    <2>3. q.kind = req[h].kind /\ q.run = req[h].run
      BY <2>2 DEF NoRequest
    <2>4. pc'[h] = "link" /\ req'[h] = q
      BY <1>1, <2>1, <2>2 DEF LinkNext, Goto
    <2> QED
      BY <2>3, <2>4
  <1>3. CASE CallbackCount(h)
    BY <1>1, <1>3 DEF CallbackCount, At, Goto, Request
  <1>4. CASE LinkFinding(h)
    BY <1>1, <1>4 DEF LinkFinding, Goto, Request
  <1>5. ASSUME NEW f \in Findings, CreateEvent(h, f)
        PROVE  pc'[h] = "linkFinding" /\ req'[h].kind = req[h].kind /\ req'[h].run = req[h].run
    BY <1>1, <1>5 DEF CreateEvent, Goto, Request
  <1>6. CASE LaunchCatch(h) \/ Notify(h) \/ WriteEventStatus(h)
    BY <1>1, <1>6 DEF LaunchCatch, Notify, WriteEventStatus, Respond, Goto
  <1>7. CASE LinkDone(h) \/ TriageWrite(h)
    BY <1>1, <1>7 DEF LinkDone, TriageWrite, Respond, Goto
  <1> QED
    BY <1>2, <1>3, <1>4, <1>5, <1>6, <1>7 DEF OwnStep

\* A run that is not there yet has neither columns nor findings.
LEMMA AbsentClean ==
    ASSUME HcscTypeOK, RequestsConsistent, [HcscNext]_hcscVars,
           NEW r \in Runs, run'[r].status = "absent"
    PROVE  run'[r] = NotCreated /\ Stored(r)' = {} /\ \A f \in Findings : event'[r][f] = <<>>
  <1>1. run[r].status = "absent" /\ run[r] = NotCreated /\ Stored(r) = {}
        /\ \A f \in Findings : event[r][f] = <<>>
    BY RunLasts DEF RequestsConsistent
  <1>2. ASSUME NEW h \in Handlers, LaunchTx(h) \/ CallbackCommit(h)
        PROVE  req[h].run # r
    BY <1>1, <1>2 DEF RequestsConsistent, RequestOK, LaunchTx, CallbackCommit, At
  <1>3. run'[r] = run[r]
    <2>1. ASSUME NEW h \in Handlers, NEW q \in Runs, NEW mode \in Modes, LaunchStart(h, q, mode)
          PROVE  run'[r] = run[r]
      <3>1. q # r
        BY <2>1 DEF LaunchStart, HcscTypeOK, NotCreated
      <3> QED  BY <2>1, <3>1 DEF LaunchStart, HcscTypeOK
    <2>2. ASSUME NEW h \in Handlers, LaunchCatch(h)
          PROVE  run'[r] = run[r]
      <3>1. req[h].run # r
        BY <1>1, <2>2 DEF RequestsConsistent, RequestOK, LaunchCatch, At
      <3> QED  BY <2>2, <3>1 DEF LaunchCatch, HcscTypeOK
    <2>3. ASSUME NEW h \in Handlers, LaunchTx(h) \/ CallbackCommit(h)
          PROVE  run'[r] = run[r]
      BY <1>2, <2>3, LaunchTxRow, CallbackCommitRow
    <2> QED  BY <2>1, <2>2, <2>3, Writers DEF RunWritten
  <1>4. ASSUME NEW f \in Findings
        PROVE  finding'[r][f].sev = finding[r][f].sev
    <2>1. finding[r] \in [Findings -> FindRow] /\ finding[r][f] \in FindRow
      BY DEF HcscTypeOK
    <2>2. ASSUME NEW h \in Handlers, LaunchTx(h) \/ CallbackCommit(h)
          PROVE  finding'[r] = finding[r]
      BY <1>2, <2>2 DEF LaunchTx, CallbackCommit, HcscTypeOK
    <2>3. ASSUME NEW h \in Handlers, LinkFinding(h)
          PROVE  finding'[r][f].sev = finding[r][f].sev
      BY <2>1, <2>3 DEF LinkFinding, HcscTypeOK, FindRow
    <2>4. ASSUME NEW h \in Handlers, TriageWrite(h)
          PROVE  finding'[r][f].sev = finding[r][f].sev
      BY <2>1, <2>4 DEF TriageWrite, HcscTypeOK, FindRow
    <2> QED  BY <2>2, <2>3, <2>4, Writers DEF FindingWritten
  <1>5. Stored(r)' = {}
    BY <1>1, <1>4 DEF Stored
  <1>6. event'[r] = event[r]
    <2>1. ASSUME NEW h \in Handlers, NEW f \in Findings, CreateEvent(h, f)
          PROVE  event'[r] = event[r]
      <3>1. req[h].run # r
        BY <1>1, <2>1 DEF RequestsConsistent, RequestOK, CreateEvent, At
      <3> QED  BY <2>1, <3>1 DEF CreateEvent, HcscTypeOK
    <2>2. ASSUME NEW h \in Handlers, WriteEventStatus(h)
          PROVE  event'[r] = event[r]
      <3>1. req[h].run # r
        BY <1>1, <2>2 DEF RequestsConsistent, RequestOK, WriteEventStatus, At
      <3> QED  BY <2>2, <3>1 DEF WriteEventStatus, HcscTypeOK
    <2> QED  BY <2>1, <2>2, Writers DEF EventWritten
  <1> QED  BY <1>1, <1>3, <1>5, <1>6

\* A link is made only to an event that was created, and events are not deleted.
LEMMA LinkedEventStep ==
    ASSUME HcscTypeOK, RequestsConsistent, LinkedEventExists, HcscTypeOK', [HcscNext]_hcscVars
    PROVE  LinkedEventExists'
  <1> SUFFICES ASSUME NEW r \in Runs, NEW f \in Findings
               PROVE  finding'[r][f].event <= Len(event'[r][f])
    BY DEF LinkedEventExists
  <1>1. /\ finding[r][f].event \in Nat /\ finding'[r][f].event \in Nat
        /\ Len(event[r][f]) \in Nat /\ Len(event'[r][f]) \in Nat
    BY DEF HcscTypeOK, FindRow
  <1>2. Len(event[r][f]) <= Len(event'[r][f])
    BY EventLasts
  <1>3. finding'[r][f].event <= Len(event[r][f])
    <2>0. /\ finding[r][f].event <= Len(event[r][f])
          /\ finding[r] \in [Findings -> FindRow] /\ finding[r][f] \in FindRow
      BY DEF LinkedEventExists, HcscTypeOK
    <2>1. ASSUME NEW h \in Handlers, LaunchTx(h) \/ CallbackCommit(h)
          PROVE  finding'[r][f].event = finding[r][f].event
      <3>1. finding'[r] = finding[r] \/ finding'[r] = UpsertedRows(r, req[h].payload)
        BY <2>1 DEF LaunchTx, CallbackCommit, HcscTypeOK
      <3>2. req[h].payload \in PartialSeverities
        BY DEF HcscTypeOK, Request
      <3> QED  BY <3>1, <3>2, UpsertKeeps
    <2>2. ASSUME NEW h \in Handlers, TriageWrite(h)
          PROVE  finding'[r][f].event = finding[r][f].event
      BY <2>0, <2>2 DEF TriageWrite, HcscTypeOK, FindRow
    <2>3. ASSUME NEW h \in Handlers, LinkFinding(h)
          PROVE  finding'[r][f].event <= Len(event[r][f])
      <3>1. RequestOK(h)
        BY DEF RequestsConsistent
      <3>2. CASE r = req[h].run /\ f = req[h].cur
        <4>1. finding'[r][f].event = req[h].event
          BY <2>0, <2>3, <3>2 DEF LinkFinding, HcscTypeOK, FindRow
        <4> QED  BY <2>3, <3>1, <3>2, <4>1 DEF LinkFinding, RequestOK, At
      <3>3. CASE ~(r = req[h].run /\ f = req[h].cur)
        <4>1. finding'[r][f] = finding[r][f]
          BY <2>0, <2>3, <3>3 DEF LinkFinding, HcscTypeOK
        <4> QED  BY <2>0, <4>1
      <3> QED  BY <3>2, <3>3
    <2> QED  BY <2>0, <2>1, <2>2, <2>3, Writers DEF FindingWritten
  <1> QED  BY <1>1, <1>2, <1>3, AtMostTransitive

-----------------------------------------------------------------------------
(* The inductive invariant and the first theorems *)

\* Type correctness needs the requests to be consistent (what they write goes to rows
\* that exist), consistency needs links to be sound (a triage request updates the event
\* it read from the finding), and both need the types.
HcscInv == HcscTypeOK /\ RequestsConsistent /\ LinkedEventExists

LEMMA HcscInvInit == HcscInit => HcscInv
  BY TypeInit, ConsistencyInit DEF HcscInv

LEMMA HcscInvNext ==
    ASSUME HcscInv, [HcscNext]_hcscVars
    PROVE  HcscInv'
  <1>1. HcscTypeOK /\ RequestsConsistent /\ LinkedEventExists
    BY DEF HcscInv
  <1>2. HcscTypeOK'
    BY <1>1, TypeNext
  <1>3. LinkedEventExists'
    BY <1>1, <1>2, LinkedEventStep
  <1>4. \A r \in Runs : run'[r].status = "absent" =>
           run'[r] = NotCreated /\ Stored(r)' = {} /\ \A f \in Findings : event'[r][f] = <<>>
    BY <1>1, AbsentClean
  <1>5. ASSUME NEW g \in Handlers
        PROVE  RequestOK(g)'
    BY <1>1, <1>2, OneMoves, OthersConsistent, OwnStepConsistent, OutsideConsistent
  <1>6. RequestsConsistent'
    BY <1>4, <1>5 DEF RequestsConsistent
  <1> QED  BY <1>2, <1>3, <1>6 DEF HcscInv

\* The inductive invariant holds in every state: whatever the statements of overlapping
\* requests write goes to rows that exist and keeps their types.
THEOREM HcscInvariant == HcscSpec => []HcscInv
  <1>1. HcscInit => HcscInv
    BY HcscInvInit
  <1>2. HcscInv /\ [HcscNext]_hcscVars => HcscInv'
    BY HcscInvNext
  <1> QED  BY <1>1, <1>2, PTL DEF HcscSpec

\* Every row and every request has its type, for every provider and any faults.
THEOREM TypeCorrect == HcscSpec => []HcscTypeOK
  <1>1. HcscInv => HcscTypeOK
    BY DEF HcscInv
  <1> QED  BY <1>1, HcscInvariant, PTL

\* What a request has read or counted stays true until it uses it.
THEOREM RequestsStayConsistent == HcscSpec => []RequestsConsistent
  <1>1. HcscInv => RequestsConsistent
    BY DEF HcscInv
  <1> QED  BY <1>1, HcscInvariant, PTL

\* No finding is linked to an event that was not created for it.
THEOREM LinksSound == HcscSpec => []LinkedEventExists
  <1>1. HcscInv => LinkedEventExists
    BY DEF HcscInv
  <1> QED  BY <1>1, HcscInvariant, PTL

-----------------------------------------------------------------------------
(* The safety properties the runs check *)

\* Only the catch block of a launch or a transaction gives a run its end time.
LEMMA FinishedStep ==
    ASSUME HcscInv, FinishedIffTerminal, [HcscNext]_hcscVars
    PROVE  FinishedIffTerminal'
  <1> SUFFICES ASSUME NEW r \in Runs
               PROVE  run'[r].finished <=> run'[r].status \in Terminal
    BY DEF FinishedIffTerminal
  <1>1. run[r] \in Row /\ (run[r].finished <=> run[r].status \in Terminal)
    BY DEF HcscInv, HcscTypeOK, FinishedIffTerminal
  <1>2. ASSUME NEW h \in Handlers, NEW q \in Runs, NEW mode \in Modes, LaunchStart(h, q, mode)
        PROVE  run'[r].finished <=> run'[r].status \in Terminal
    <2>1. \/ run'[r] = run[r]
          \/ run'[r].finished = FALSE /\ run'[r].status = "queued"
      BY <1>2 DEF HcscInv, LaunchStart, HcscTypeOK, NotCreated
    <2> QED  BY <1>1, <2>1 DEF Terminal
  <1>3. ASSUME NEW h \in Handlers, LaunchTx(h)
        PROVE  run'[r].finished <=> run'[r].status \in Terminal
    <2>1. req[h].status \in {"queued", "running", "completed"}
      BY <1>3 DEF HcscInv, RequestsConsistent, RequestOK, LaunchTx, At
    <2>2. \/ run'[r] = run[r]
          \/ /\ run'[r].status = req[h].status
             /\ run'[r].finished = (req[h].status = "completed")
      BY <1>3, LaunchTxRow DEF HcscInv
    <2> QED  BY <1>1, <2>1, <2>2 DEF Terminal
  <1>4. ASSUME NEW h \in Handlers, CallbackCommit(h)
        PROVE  run'[r].finished <=> run'[r].status \in Terminal
    <2>1. \/ run'[r] = run[r]
          \/ /\ run'[r].status = req[h].status
             /\ run'[r].finished = (req[h].status \in Terminal)
      BY <1>4, CallbackCommitRow DEF HcscInv
    <2> QED  BY <1>1, <2>1
  <1>5. ASSUME NEW h \in Handlers, LaunchCatch(h)
        PROVE  run'[r].finished <=> run'[r].status \in Terminal
    <2>1. \/ run'[r] = run[r]
          \/ run'[r] = [run[r] EXCEPT !.status = "failed", !.finished = TRUE]
      BY <1>5 DEF HcscInv, LaunchCatch, HcscTypeOK
    <2>2. run'[r] = run[r] \/ (run'[r].status = "failed" /\ run'[r].finished = TRUE)
      BY <1>1, <2>1 DEF Row
    <2> QED  BY <1>1, <2>2 DEF Terminal
  <1>6. CASE run' = run
    BY <1>1, <1>6
  <1>7. run' = run \/ \E h \in Handlers : RunWritten(h)
    BY Writers DEF HcscInv
  <1> QED  BY <1>2, <1>3, <1>4, <1>5, <1>6, <1>7 DEF RunWritten

\* What a request has counted it has also stored when it commits.
LEMMA WrittenCountStored ==
    ASSUME HcscInv, NEW h \in Handlers, NEW p \in PartialSeverities,
           NEW r \in Runs, finding'[r] = UpsertedRows(r, p)
    PROVE  Stored(r)' = Stored(r) \union DOMAIN p
  <1>1. DOMAIN p \subseteq Findings
    BY PartialSeveritiesElim
  <1>2. \A f \in Findings :
           finding'[r][f].sev # "none" <=> f \in Stored(r) \union DOMAIN p
    BY UpsertKeeps DEF HcscInv
  <1> QED  BY <1>1, <1>2 DEF Stored

LEMMA SmallerCount ==
    ASSUME HcscInv', NEW r \in Runs, NEW S, S \subseteq Stored(r)'
    PROVE  Cardinality(S) <= Cardinality(Stored(r)')
  <1>1. Stored(r)' \subseteq Findings
    BY DEF Stored
  <1>2. IsFiniteSet(Stored(r)')
    BY <1>1, RunAssumption, FS_Subset DEF RunAssumption
  <1> QED  BY <1>2, FS_Subset


\* A transaction counts rows that were stored when it counted, which still are, and its
\* own, which it stores together with the count.
LEMMA CountStep ==
    ASSUME HcscInv, HcscInv', CountNeverExceedsStored, [HcscNext]_hcscVars
    PROVE  CountNeverExceedsStored'
  <1> SUFFICES ASSUME NEW r \in Runs
               PROVE  run'[r].count <= Cardinality(Stored(r)')
    BY DEF CountNeverExceedsStored
  <1>1. CASE run'[r].count = run[r].count
    <2>1. Stored(r) \subseteq Stored(r)'
      BY FindingLasts DEF Stored, HcscInv
    <2>2. Cardinality(Stored(r)) <= Cardinality(Stored(r)')
      BY <2>1, SmallerCount
    <2>3. run[r].count <= Cardinality(Stored(r))
      BY DEF CountNeverExceedsStored
    <2>4. /\ run[r].count \in Nat /\ Cardinality(Stored(r)) \in Nat
          /\ Cardinality(Stored(r)') \in Nat
      <3>1. Stored(r) \subseteq Findings /\ Stored(r)' \subseteq Findings
        BY DEF Stored
      <3>2. IsFiniteSet(Stored(r)) /\ IsFiniteSet(Stored(r)')
        BY <3>1, RunAssumption, FS_Subset DEF RunAssumption
      <3>3. Cardinality(Stored(r)) \in Nat /\ Cardinality(Stored(r)') \in Nat
        BY <3>2, FS_CardinalityType
      <3>4. run[r] \in Row
        BY DEF HcscInv, HcscTypeOK
      <3> QED  BY <3>3, <3>4 DEF Row
    <2> QED  BY <1>1, <2>2, <2>3, <2>4, AtMostTransitive
  <1>2. ASSUME NEW h \in Handlers, LaunchTx(h), r = req[h].run
        PROVE  run'[r].count <= Cardinality(Stored(r)')
    <2>1. req[h].payload \in PartialSeverities
      BY DEF HcscInv, HcscTypeOK, Request
    <2>2. finding'[r] = UpsertedRows(r, req[h].payload)
      BY <1>2 DEF LaunchTx, HcscInv, HcscTypeOK
    <2>3. DOMAIN req[h].payload \subseteq Stored(r)'
      BY <2>1, <2>2, WrittenCountStored
    <2>4. run'[r].count = Cardinality(DOMAIN req[h].payload)
      BY <1>2, LaunchTxRow DEF HcscInv
    <2> QED  BY <2>3, <2>4, SmallerCount
  <1>3. ASSUME NEW h \in Handlers, CallbackCommit(h), r = req[h].run
        PROVE  run'[r].count <= Cardinality(Stored(r)')
    <2>1. req[h].payload \in PartialSeverities
      BY DEF HcscInv, HcscTypeOK, Request
    <2>2. finding'[r] = UpsertedRows(r, req[h].payload)
      BY <1>3 DEF CallbackCommit, HcscInv, HcscTypeOK
    <2>3. Stored(r)' = Stored(r) \union DOMAIN req[h].payload
      BY <2>1, <2>2, WrittenCountStored
    <2>4. DOMAIN req[h].counted \subseteq Stored(r) \union DOMAIN req[h].payload
      BY <1>3 DEF HcscInv, RequestsConsistent, RequestOK, CallbackCommit, At
    <2>5. run'[r].count = Cardinality(DOMAIN req[h].counted)
      BY <1>3, CallbackCommitRow DEF HcscInv
    <2> QED  BY <2>3, <2>4, <2>5, SmallerCount
  <1>4. ASSUME NEW h \in Handlers, LaunchTx(h) \/ CallbackCommit(h), r # req[h].run
        PROVE  run'[r].count = run[r].count
    BY <1>4, LaunchTxRow, CallbackCommitRow DEF HcscInv
  <1>5. ASSUME NEW h \in Handlers, LaunchCatch(h)
        PROVE  run'[r].count = run[r].count
    <2>1. run[r] \in Row
      BY DEF HcscInv, HcscTypeOK
    <2> QED  BY <1>5, <2>1 DEF HcscInv, LaunchCatch, HcscTypeOK, Row
  <1>6. ASSUME NEW h \in Handlers, NEW q \in Runs, NEW mode \in Modes, LaunchStart(h, q, mode)
        PROVE  run'[r].count = run[r].count
    <2>1. CASE r = q
      <3>1. run[r] = NotCreated
        BY <1>6, <2>1 DEF HcscInv, RequestsConsistent, LaunchStart
      <3>2. run'[r].count = 0
        BY <1>6, <2>1 DEF HcscInv, LaunchStart, HcscTypeOK, NotCreated
      <3> QED  BY <3>1, <3>2 DEF NotCreated
    <2>2. CASE r # q
      BY <1>6, <2>2 DEF HcscInv, LaunchStart, HcscTypeOK
    <2> QED  BY <2>1, <2>2
  <1>7. run' = run \/ \E h \in Handlers : RunWritten(h)
    BY Writers DEF HcscInv
  <1> QED  BY <1>1, <1>2, <1>3, <1>4, <1>5, <1>6, <1>7 DEF RunWritten

\* The launch of a demo run writes the provider id and the findings in one transaction.
LEMMA DemoStep ==
    ASSUME HcscInv, HcscInv', DemoRunCarriesFindings, [HcscNext]_hcscVars
    PROVE  DemoRunCarriesFindings'
  <1> SUFFICES ASSUME NEW r \in Runs, run'[r].provider = "demo", run'[r].ext # None
               PROVE  DOMAIN DemoPayload \subseteq Stored(r)'
    BY DEF DemoRunCarriesFindings
  <1>1. CASE run'[r].provider = run[r].provider /\ run'[r].ext = run[r].ext
    <2>1. DOMAIN DemoPayload \subseteq Stored(r)
      BY <1>1 DEF DemoRunCarriesFindings
    <2>2. Stored(r) \subseteq Stored(r)'
      BY FindingLasts DEF Stored, HcscInv
    <2> QED  BY <2>1, <2>2
  <1>2. ASSUME NEW h \in Handlers, LaunchTx(h), r = req[h].run
        PROVE  DOMAIN DemoPayload \subseteq Stored(r)'
    <2>1. req[h].payload \in PartialSeverities
      BY DEF HcscInv, HcscTypeOK, Request
    <2>2. finding'[r] = UpsertedRows(r, req[h].payload)
      BY <1>2 DEF LaunchTx, HcscInv, HcscTypeOK
    <2>3. run[r].provider = "demo"
      BY <1>2, LaunchTxRow DEF HcscInv
    <2>4. req[h].payload = DemoPayload
      BY <1>2, <2>3 DEF HcscInv, RequestsConsistent, RequestOK, LaunchTx, At
    <2> QED  BY <2>1, <2>2, <2>4, WrittenCountStored
  <1>3. ASSUME NEW h \in Handlers, CallbackCommit(h), r = req[h].run
        PROVE  FALSE
    <2>1. run[r].provider = "demo"
      BY <1>3, CallbackCommitRow DEF HcscInv
    <2> QED  BY <1>3, <2>1 DEF HcscInv, RequestsConsistent, RequestOK, CallbackCommit, At
  <1>4. ASSUME NEW h \in Handlers, LaunchTx(h) \/ CallbackCommit(h), r # req[h].run
        PROVE  run'[r] = run[r]
    BY <1>4, LaunchTxRow, CallbackCommitRow DEF HcscInv
  <1>5. ASSUME NEW h \in Handlers, LaunchCatch(h)
        PROVE  run'[r].provider = run[r].provider /\ run'[r].ext = run[r].ext
    <2>1. run[r] \in Row
      BY DEF HcscInv, HcscTypeOK
    <2> QED  BY <1>5, <2>1 DEF HcscInv, LaunchCatch, HcscTypeOK, Row
  <1>6. ASSUME NEW h \in Handlers, NEW q \in Runs, NEW mode \in Modes, LaunchStart(h, q, mode)
        PROVE  run'[r] = run[r]
    <2>1. CASE r = q
      BY <1>6, <2>1 DEF HcscInv, LaunchStart, HcscTypeOK, NotCreated
    <2>2. CASE r # q
      BY <1>6, <2>2 DEF HcscInv, LaunchStart, HcscTypeOK
    <2> QED  BY <2>1, <2>2
  <1>7. run' = run \/ \E h \in Handlers : RunWritten(h)
    BY Writers DEF HcscInv
  <1> QED  BY <1>1, <1>2, <1>3, <1>4, <1>5, <1>6, <1>7 DEF RunWritten

LEMMA TriageStep ==
    ASSUME HcscInv, [HcscNext]_hcscVars, NEW r \in Runs, NEW f \in Findings,
           finding[r][f].triage # finding'[r][f].triage
    PROVE  \E h \in Handlers : /\ pc[h] = "triage" /\ pc'[h] # "triage"
                               /\ req[h].run = r /\ req[h].cur = f
  <1>0. finding[r] \in [Findings -> FindRow] /\ finding[r][f] \in FindRow
    BY DEF HcscInv, HcscTypeOK
  <1>1. ASSUME NEW h \in Handlers, LaunchTx(h) \/ CallbackCommit(h)
        PROVE  finding'[r][f].triage = finding[r][f].triage
    <2>1. finding'[r] = finding[r] \/ finding'[r] = UpsertedRows(r, req[h].payload)
      BY <1>1 DEF LaunchTx, CallbackCommit, HcscInv, HcscTypeOK
    <2>2. req[h].payload \in PartialSeverities
      BY DEF HcscInv, HcscTypeOK, Request
    <2> QED  BY <2>1, <2>2, UpsertKeeps DEF HcscInv
  <1>2. ASSUME NEW h \in Handlers, LinkFinding(h)
        PROVE  finding'[r][f].triage = finding[r][f].triage
    BY <1>0, <1>2 DEF LinkFinding, HcscInv, HcscTypeOK, FindRow
  <1>3. ASSUME NEW h \in Handlers, TriageWrite(h)
        PROVE  pc[h] = "triage" /\ pc'[h] # "triage" /\ req[h].run = r /\ req[h].cur = f
    <2>1. pc[h] = "triage"
      BY <1>3 DEF TriageWrite, At
    <2>2. pc'[h] # "triage"
      BY <1>3 DEF TriageWrite, Respond, Goto, HcscInv, HcscTypeOK
    <2>3. req[h].run = r /\ req[h].cur = f
      <3>1. CASE ~(req[h].run = r /\ req[h].cur = f)
        <4>1. finding'[r][f] = finding[r][f]
          BY <1>0, <1>3, <3>1 DEF TriageWrite, HcscInv, HcscTypeOK
        <4> QED  BY <4>1
      <3> QED  BY <3>1
    <2> QED  BY <2>1, <2>2, <2>3
  <1>4. finding' # finding
    OBVIOUS
  <1>5. \E h \in Handlers : FindingWritten(h)
    BY <1>4, Writers DEF HcscInv
  <1> QED  BY <1>1, <1>2, <1>3, <1>5 DEF FindingWritten

-----------------------------------------------------------------------------
(* The theorems about what is stored *)

\* However requests overlap or fail, a run has an end time exactly when it has ended.
THEOREM FinishedSound == HcscSpec => []FinishedIffTerminal
  <1>1. HcscInit => FinishedIffTerminal
    BY DEF HcscInit, FinishedIffTerminal, NotCreated, Terminal
  <1>2. HcscInv /\ FinishedIffTerminal /\ [HcscNext]_hcscVars => FinishedIffTerminal'
    BY FinishedStep
  <1> QED  BY <1>1, <1>2, HcscInvariant, PTL DEF HcscSpec

\* However callbacks overlap, the stored count of a run is at most that of its findings.
THEOREM CountsBounded == HcscSpec => []CountNeverExceedsStored
  <1>1. HcscInit => CountNeverExceedsStored
    <2> SUFFICES ASSUME HcscInit, NEW r \in Runs
                 PROVE  run[r].count <= Cardinality(Stored(r))
      BY DEF CountNeverExceedsStored
    <2>1. run[r].count = 0
      BY DEF HcscInit, NotCreated
    <2>2. Stored(r) = {}
      BY DEF HcscInit, Stored, NotStored
    <2> QED  BY <2>1, <2>2, FS_EmptySet
  <1>2. HcscInv /\ HcscInv' /\ CountNeverExceedsStored /\ [HcscNext]_hcscVars
           => CountNeverExceedsStored'
    BY CountStep
  <1> QED  BY <1>1, <1>2, HcscInvariant, PTL DEF HcscSpec

\* The row of a run, its findings and their events agree, however requests overlap.
THEOREM RowsAlwaysAgree == HcscSpec => []RowsAgree
  <1>1. FinishedIffTerminal /\ CountNeverExceedsStored /\ LinkedEventExists => RowsAgree
    BY DEF RowsAgree
  <1> QED  BY <1>1, FinishedSound, CountsBounded, LinksSound, PTL

\* A demo run that has its provider id has all its findings.
THEOREM DemoRunsComplete == HcscSpec => []DemoRunCarriesFindings
  <1>1. HcscInit => DemoRunCarriesFindings
    BY DEF HcscInit, DemoRunCarriesFindings, NotCreated
  <1>2. HcscInv /\ HcscInv' /\ DemoRunCarriesFindings /\ [HcscNext]_hcscVars
           => DemoRunCarriesFindings'
    BY DemoStep
  <1> QED  BY <1>1, <1>2, HcscInvariant, PTL DEF HcscSpec

\* No callback, however often or late it comes, changes what an analyst decided.
THEOREM TriageKept == HcscSpec => TriageOnlyByAnalyst
  <1>1. HcscInv /\ [HcscNext]_hcscVars =>
           [\A r \in Runs : \A f \in Findings :
              finding[r][f].triage # finding'[r][f].triage =>
                  \E h \in Handlers : /\ pc[h] = "triage" /\ pc'[h] # "triage"
                                       /\ req[h].run = r /\ req[h].cur = f]_hcscVars
    BY TriageStep
  <1> QED  BY <1>1, HcscInvariant, PTL DEF HcscSpec, TriageOnlyByAnalyst

\* No request, overlapping or failing, loses a finding, its event link or the
\* provider's id of the run.
THEOREM StorageLasts == HcscSpec => NothingForgotten
  <1>1. HcscInv /\ [HcscNext]_hcscVars =>
           [\A r \in Runs :
              /\ Stored(r) \subseteq Stored(r)'
              /\ run[r].ext # None => run'[r].ext # None
              /\ \A f \in Findings : finding[r][f].event # 0 => finding'[r][f].event # 0]_hcscVars
    BY RunLasts, FindingLasts DEF HcscInv, Stored
  <1> QED  BY <1>1, HcscInvariant, PTL DEF HcscSpec, NothingForgotten

-----------------------------------------------------------------------------
(* One request at a time, and no faults *)

\* A request starts only when the one before it has ended, and none fails.
SerialRequests == MaxFaults = 0 /\ \A g, h \in Handlers : g = h

Linking(h)  == pc[h] \in {"link", "linkFinding"}
Works(h, r, f) == req[h].run = r /\ req[h].cur = f

\* What the one request at work knows of the run it works on.
SerialRequest(h) ==
    LET q == req[h]  r == q.run IN
    /\ pc[h] \in {"awaitProvider", "launchTx", "launchCatch"} =>
          run[r].status = "queued" /\ Stored(r) = {}
    /\ At(h, "launchTx") => q.notify = (q.status = "completed")
    /\ pc[h] \in {"tx", "commit"} => /\ q.seen = Stored(r)
                                     /\ TransitionAllowed(run[r].status, q.status)
                                     /\ q.notify = EndsRun(r, q.status)
    /\ At(h, "commit") => q.counted = Upserted(r, q.payload)
    /\ Linking(h) => \A f \in q.todo : /\ finding[r][f].sev # "none"
                                       /\ finding[r][f].triage = "open"
                                       /\ finding[r][f].event = 0
    /\ At(h, "linkFinding") => /\ q.cur \in q.todo /\ q.event = 1
                               /\ event[r][q.cur] = <<NewEvent>>
    /\ (Linking(h) \/ At(h, "notify")) /\ q.notify =>
          run[r].status \in Terminal /\ notices[r] = 0
    /\ At(h, "notify") => q.notify
    /\ At(h, "triage") => q.cur \in Stored(r) /\ q.event = finding[r][q.cur].event
    /\ At(h, "eventStatus") =>
          /\ q.event # 0 /\ q.event = finding[r][q.cur].event
          /\ q.kind = "event" \/ q.triage = finding[r][q.cur].triage

\* A finding that is not stored has left no trace.
FreshRows ==
    \A r \in Runs, f \in Findings :
        finding[r][f].sev = "none" =>
            finding[r][f].triage = "open" /\ finding[r][f].event = 0 /\ event[r][f] = <<>>

\* A finding is linked to the only event it has, but for the one being linked.
LinkFits(r, f) == finding[r][f].event = Len(event[r][f]) /\ Len(event[r][f]) <= 1
LinksMatch ==
    \A r \in Runs, f \in Findings :
        LinkFits(r, f) \/ \E h \in Handlers : At(h, "linkFinding") /\ Works(h, r, f)

\* The linked event mirrors the finding, but for the one that is being updated and those
\* that were updated for themselves.
EventFits(r, f) ==
    LET linked == event[r][f][finding[r][f].event] IN
    finding[r][f].event # 0 /\ ~linked.own =>
        linked.status = EventStatusFor[finding[r][f].triage]
EventsMatch ==
    \A r \in Runs, f \in Findings :
        EventFits(r, f) \/ \E h \in Handlers : At(h, "eventStatus") /\ Works(h, r, f)

\* A run's counters are those of its findings, in the middle of requests too.
HighStored(r) == {f \in Stored(r) : finding[r][f].sev = "high"}
CountsMatch ==
    \A r \in Runs : /\ run[r].count = Cardinality(Stored(r))
                    /\ run[r].high = Cardinality(HighStored(r))

\* The end of a run has been announced, but for the one being announced.
NoticesFit(r) ==
    /\ notices[r] <= 1
    /\ notices[r] = 1 => run[r].status \in Terminal
    /\ run[r].status \in {"completed", "cancelled"} => notices[r] = 1
NoticesMatch ==
    \A r \in Runs :
        \/ NoticesFit(r)
        \/ \E h \in Handlers : (Linking(h) \/ At(h, "notify")) /\ req[h].run = r /\ req[h].notify

\* What is stored between two steps of the request at work.
SerialRows == FreshRows /\ LinksMatch /\ EventsMatch /\ CountsMatch /\ NoticesMatch
SerialInv  == HcscInv /\ SerialRows /\ \A h \in Handlers : SerialRequest(h)

\* What the request at work does not except holds of every row.
LEMMA RowsFit ==
    ASSUME SerialRequests, SerialInv, NEW h \in Handlers
    PROVE  /\ ~At(h, "linkFinding") => \A r \in Runs, f \in Findings : LinkFits(r, f)
           /\ ~At(h, "eventStatus") => \A r \in Runs, f \in Findings : EventFits(r, f)
           /\ \A r \in Runs, f \in Findings : LinkFits(r, f) \/ Works(h, r, f)
           /\ \A r \in Runs, f \in Findings : EventFits(r, f) \/ Works(h, r, f)
           /\ ~Linking(h) /\ ~At(h, "notify") => \A r \in Runs : NoticesFit(r)
           /\ ~req[h].notify => \A r \in Runs : NoticesFit(r)
           /\ \A r \in Runs : NoticesFit(r) \/ req[h].run = r
  BY DEF SerialRequests, SerialInv, SerialRows, LinksMatch, EventsMatch, NoticesMatch

\* A step that writes no row leaves them as they are, unless it ends an exception.
LEMMA RowsSame ==
    ASSUME SerialRequests, SerialInv, NEW h \in Handlers,
           UNCHANGED <<run, finding, event, notices>>,
           ~Linking(h) /\ ~At(h, "notify") /\ ~At(h, "eventStatus")
    PROVE  SerialRows'
  <1>1. /\ FreshRows /\ CountsMatch
        /\ \A r \in Runs, f \in Findings : LinkFits(r, f) /\ EventFits(r, f)
        /\ \A r \in Runs : NoticesFit(r)
    BY RowsFit DEF SerialInv, SerialRows, Linking, At
  <1>2. FreshRows'
    BY <1>1 DEF FreshRows
  <1>3. CountsMatch'
    BY <1>1 DEF CountsMatch, Stored, HighStored
  <1>4. LinksMatch' /\ EventsMatch' /\ NoticesMatch'
    BY <1>1 DEF LinksMatch, EventsMatch, NoticesMatch, LinkFits, EventFits, NoticesFit
  <1> QED  BY <1>2, <1>3, <1>4 DEF SerialRows

\* Findings keep their severities, runs their counters.
LEMMA CountsKept ==
    ASSUME CountsMatch,
           \A r \in Runs, f \in Findings : finding'[r][f].sev = finding[r][f].sev,
           \A r \in Runs : run'[r].count = run[r].count /\ run'[r].high = run[r].high
    PROVE  CountsMatch'
  <1>1. \A r \in Runs : Stored(r)' = Stored(r) /\ HighStored(r)' = HighStored(r)
    BY DEF Stored, HighStored
  <1> QED  BY <1>1 DEF CountsMatch

LEMMA SerialStart ==
    ASSUME SerialRequests, SerialInv, NEW h \in Handlers, NEW r \in Runs, NEW mode \in Modes,
           LaunchStart(h, r, mode)
    PROVE  SerialRows' /\ SerialRequest(h)'
  <1>1. /\ run[r] = NotCreated /\ Stored(r) = {}
        /\ FreshRows /\ CountsMatch
        /\ \A q \in Runs, f \in Findings : LinkFits(q, f) /\ EventFits(q, f)
        /\ \A q \in Runs : NoticesFit(q)
    BY RowsFit DEF SerialInv, SerialRows, Linking, At, LaunchStart, HcscInv, RequestsConsistent
  <1>2. /\ pc'[h] = "awaitProvider" /\ req'[h].run = r
        /\ UNCHANGED <<finding, event, notices>>
    BY DEF LaunchStart, Goto, SerialInv, HcscInv, HcscTypeOK, NoRequest
  <1>3. /\ run'[r].status = "queued" /\ run'[r].count = 0 /\ run'[r].high = 0
        /\ \A q \in Runs : q # r => run'[q] = run[q]
    BY DEF LaunchStart, SerialInv, HcscInv, HcscTypeOK, NotCreated
  <1>4. FreshRows' /\ LinksMatch' /\ EventsMatch'
    BY <1>1, <1>2 DEF FreshRows, LinksMatch, EventsMatch, LinkFits, EventFits
  <1>5. CountsMatch'
    <2>1. run[r].count = 0 /\ run[r].high = 0
      BY <1>1 DEF NotCreated
    <2> QED  BY <1>1, <1>2, <1>3, <2>1, CountsKept
  <1>6. NoticesMatch'
    <2>1. notices[r] # 1 /\ notices[r] <= 1
      BY <1>1 DEF NoticesFit, NotCreated, Terminal
    <2> QED  BY <1>1, <1>2, <1>3, <2>1 DEF NoticesMatch, NoticesFit, Terminal
  <1>7. SerialRequest(h)'
    BY <1>1, <1>2, <1>3 DEF SerialRequest, At, Linking, Stored
  <1> QED  BY <1>4, <1>5, <1>6, <1>7 DEF SerialRows

LEMMA SerialAnswer ==
    ASSUME SerialRequests, SerialInv, NEW h \in Handlers, NEW ext, NEW status, NEW p,
           LaunchAnswer(h, ext, status, p)
    PROVE  SerialRows' /\ SerialRequest(h)'
  <1>1. UNCHANGED <<run, finding, event, notices>> /\ At(h, "awaitProvider")
    BY DEF LaunchAnswer
  <1>2. SerialRows'
    BY <1>1, RowsSame DEF Linking, At
  <1>3. /\ pc'[h] = "launchTx" /\ req'[h].run = req[h].run
        /\ req'[h].status = status /\ req'[h].notify = (status = "completed")
    BY DEF LaunchAnswer, Goto, SerialInv, HcscInv, HcscTypeOK, Request
  <1>4. SerialRequest(h)
    BY DEF SerialInv
  <1>5. SerialRequest(h)'
    BY <1>1, <1>3, <1>4 DEF SerialRequest, At, Linking, Stored
  <1> QED  BY <1>2, <1>5

LEMMA SerialRefused ==
    ASSUME SerialRequests, SerialInv, NEW h \in Handlers, LaunchRefused(h)
    PROVE  SerialRows' /\ SerialRequest(h)'
  <1>1. UNCHANGED <<run, finding, event, notices, req>> /\ At(h, "awaitProvider")
    BY DEF LaunchRefused
  <1>2. SerialRows'
    BY <1>1, RowsSame DEF Linking, At
  <1>3. pc'[h] = "launchCatch" /\ SerialRequest(h)
    BY DEF LaunchRefused, Goto, SerialInv, HcscInv, HcscTypeOK
  <1>4. SerialRequest(h)'
    BY <1>1, <1>3 DEF SerialRequest, At, Linking, Stored
  <1> QED  BY <1>2, <1>4

LEMMA SerialRead ==
    ASSUME SerialRequests, SerialInv, NEW h \in Handlers, NEW r \in Runs, NEW ext, NEW status,
           NEW p, CallbackRead(h, r, ext, status, p)
    PROVE  SerialRows' /\ SerialRequest(h)'
  <1>1. UNCHANGED <<run, finding, event, notices>> /\ At(h, "idle")
        /\ TransitionAllowed(run[r].status, status)
    BY DEF CallbackRead, CallbackAccepted
  <1>2. SerialRows'
    BY <1>1, RowsSame DEF Linking, At
  <1>3. /\ pc'[h] = "tx" /\ req'[h].run = r /\ req'[h].status = status
        /\ req'[h].seen = Stored(r) /\ req'[h].notify = EndsRun(r, status)
    BY DEF CallbackRead, Goto, SerialInv, HcscInv, HcscTypeOK, NoRequest
  <1>4. SerialRequest(h)'
    BY <1>1, <1>3 DEF SerialRequest, At, Linking, Stored, EndsRun
  <1> QED  BY <1>2, <1>4

LEMMA SerialCount ==
    ASSUME SerialRequests, SerialInv, NEW h \in Handlers, CallbackCount(h)
    PROVE  SerialRows' /\ SerialRequest(h)'
  <1> DEFINE r == req[h].run  p == req[h].payload
  <1>1. UNCHANGED <<run, finding, event, notices>> /\ At(h, "tx")
    BY DEF CallbackCount
  <1>2. SerialRows'
    BY <1>1, RowsSame DEF Linking, At
  <1>3. /\ pc'[h] = "commit" /\ req'[h].run = r /\ req'[h].status = req[h].status
        /\ req'[h].seen = req[h].seen /\ req'[h].notify = req[h].notify
        /\ req'[h].payload = p /\ req'[h].counted = Upserted(r, p)
    BY DEF CallbackCount, Goto, SerialInv, HcscInv, HcscTypeOK, Request
  <1>4. SerialRequest(h)
    BY DEF SerialInv
  <1>5. Upserted(r, p)' = Upserted(r, p)
    BY <1>1, <1>3 DEF Upserted, Stored
  <1>6. SerialRequest(h)'
    BY <1>1, <1>3, <1>4, <1>5 DEF SerialRequest, At, Linking, Stored, EndsRun
  <1> QED  BY <1>2, <1>6

LEMMA SerialTriageRead ==
    ASSUME SerialRequests, SerialInv, NEW h \in Handlers, NEW r \in Runs, NEW f \in Findings,
           NEW t, TriageRead(h, r, f, t)
    PROVE  SerialRows' /\ SerialRequest(h)'
  <1>1. UNCHANGED <<run, finding, event, notices>> /\ At(h, "idle") /\ f \in Stored(r)
    BY DEF TriageRead
  <1>2. SerialRows'
    BY <1>1, RowsSame DEF Linking, At
  <1>3. /\ pc'[h] = "triage" /\ req'[h].run = r /\ req'[h].cur = f
        /\ req'[h].event = finding[r][f].event
    BY DEF TriageRead, Goto, SerialInv, HcscInv, HcscTypeOK, NoRequest
  <1>4. SerialRequest(h)'
    BY <1>1, <1>3 DEF SerialRequest, At, Linking, Stored
  <1> QED  BY <1>2, <1>4

LEMMA SerialEventRead ==
    ASSUME SerialRequests, SerialInv, NEW h \in Handlers, NEW r \in Runs, NEW f \in Findings,
           NEW t, NEW n \in 1..Len(event[r][f]), EventRead(h, r, f, n, t)
    PROVE  SerialRows' /\ SerialRequest(h)'
  <1>1. UNCHANGED <<run, finding, event, notices>> /\ At(h, "idle")
    BY DEF EventRead
  <1>2. SerialRows'
    BY <1>1, RowsSame DEF Linking, At
  <1>3. /\ pc'[h] = "eventStatus" /\ req'[h].run = r /\ req'[h].cur = f
        /\ req'[h].event = n /\ req'[h].kind = "event"
    BY DEF EventRead, Goto, SerialInv, HcscInv, HcscTypeOK, NoRequest
  <1>4. n = finding[r][f].event /\ n # 0
    <2>1. LinkFits(r, f)
      BY <1>1, RowsFit DEF At
    <2>2. Len(event[r][f]) \in Nat
      BY DEF SerialInv, HcscInv, HcscTypeOK
    <2> QED  BY <2>1, <2>2 DEF LinkFits
  <1>5. SerialRequest(h)'
    BY <1>1, <1>3, <1>4 DEF SerialRequest, At, Linking, Stored
  <1> QED  BY <1>2, <1>5

\* A request that has answered knows nothing.
LEMMA SerialRespond ==
    ASSUME SerialInv, NEW h \in Handlers, Respond(h)
    PROVE  SerialRequest(h)' /\ pc'[h] = "idle"
  <1>1. pc'[h] = "idle"
    BY DEF Respond, Goto, SerialInv, HcscInv, HcscTypeOK
  <1> QED  BY <1>1 DEF SerialRequest, At, Linking

\* The row of a run whose launch has failed.
LEMMA SerialCatch ==
    ASSUME SerialRequests, SerialInv, NEW h \in Handlers, LaunchCatch(h)
    PROVE  SerialRows' /\ SerialRequest(h)'
  <1> DEFINE r == req[h].run
  <1>1. /\ FreshRows /\ CountsMatch /\ SerialRequest(h)
        /\ \A q \in Runs, f \in Findings : LinkFits(q, f) /\ EventFits(q, f)
        /\ \A q \in Runs : NoticesFit(q)
    BY RowsFit DEF SerialInv, SerialRows, Linking, At, LaunchCatch
  <1>2. UNCHANGED <<finding, event, notices>> /\ r \in Runs /\ run[r].status = "queued"
    BY <1>1 DEF LaunchCatch, SerialRequest, At, SerialInv, HcscInv, RequestsConsistent, RequestOK
  <1>3. /\ run'[r].status = "failed"
        /\ \A q \in Runs : /\ q # r => run'[q] = run[q]
                           /\ run'[q].count = run[q].count /\ run'[q].high = run[q].high
    <2>1. ASSUME NEW q \in Runs
          PROVE  run[q] \in Row
      BY DEF SerialInv, HcscInv, HcscTypeOK
    <2> QED  BY <1>2, <2>1 DEF LaunchCatch, SerialInv, HcscInv, HcscTypeOK, Row
  <1>4. FreshRows' /\ LinksMatch' /\ EventsMatch'
    BY <1>1, <1>2 DEF FreshRows, LinksMatch, EventsMatch, LinkFits, EventFits
  <1>5. CountsMatch'
    BY <1>1, <1>2, <1>3, CountsKept
  <1>6. NoticesMatch'
    <2>1. notices[r] # 1 /\ notices[r] <= 1
      BY <1>1, <1>2 DEF NoticesFit, Terminal
    <2> QED  BY <1>1, <1>2, <1>3, <2>1 DEF NoticesMatch, NoticesFit, Terminal
  <1> QED  BY <1>4, <1>5, <1>6, SerialRespond DEF SerialRows, LaunchCatch

\* The links are made; what remains is to announce the end of the run, if it has ended.
LEMMA SerialLinkDone ==
    ASSUME SerialRequests, SerialInv, NEW h \in Handlers, LinkDone(h)
    PROVE  SerialRows' /\ SerialRequest(h)'
  <1>1. /\ FreshRows /\ CountsMatch /\ SerialRequest(h) /\ At(h, "link")
        /\ \A q \in Runs, f \in Findings : LinkFits(q, f) /\ EventFits(q, f)
        /\ \A q \in Runs : NoticesFit(q) \/ req[h].run = q
        /\ ~req[h].notify => \A q \in Runs : NoticesFit(q)
        /\ UNCHANGED <<run, finding, event, notices>>
    BY RowsFit DEF SerialInv, SerialRows, At, LinkDone
  <1>2. FreshRows' /\ LinksMatch' /\ EventsMatch'
    BY <1>1 DEF FreshRows, LinksMatch, EventsMatch, LinkFits, EventFits
  <1>3. CountsMatch'
    BY <1>1, CountsKept
  <1>4. CASE req[h].notify
    <2>1. req' = req /\ pc'[h] = "notify"
      BY <1>4 DEF LinkDone, Goto, SerialInv, HcscInv, HcscTypeOK
    <2>2. NoticesMatch'
      BY <1>1, <1>4, <2>1 DEF NoticesMatch, NoticesFit, At
    <2>3. SerialRequest(h)'
      BY <1>1, <1>4, <2>1 DEF SerialRequest, At, Linking
    <2> QED  BY <1>2, <1>3, <2>2, <2>3 DEF SerialRows
  <1>5. CASE ~req[h].notify
    <2>1. NoticesMatch'
      BY <1>1, <1>5 DEF NoticesMatch, NoticesFit
    <2> QED  BY <1>2, <1>3, <1>5, <2>1, SerialRespond DEF SerialRows, LinkDone
  <1> QED  BY <1>4, <1>5

LEMMA SerialNotify ==
    ASSUME SerialRequests, SerialInv, NEW h \in Handlers, Notify(h)
    PROVE  SerialRows' /\ SerialRequest(h)'
  <1> DEFINE r == req[h].run
  <1>1. /\ FreshRows /\ CountsMatch /\ SerialRequest(h) /\ At(h, "notify") /\ r \in Runs
        /\ \A q \in Runs, f \in Findings : LinkFits(q, f) /\ EventFits(q, f)
        /\ \A q \in Runs : NoticesFit(q) \/ r = q
        /\ UNCHANGED <<run, finding, event>>
    BY RowsFit
    DEF SerialInv, SerialRows, At, Notify, HcscInv, RequestsConsistent, RequestOK
  <1>2. FreshRows' /\ LinksMatch' /\ EventsMatch'
    BY <1>1 DEF FreshRows, LinksMatch, EventsMatch, LinkFits, EventFits
  <1>3. CountsMatch'
    BY <1>1, CountsKept
  <1>4. run[r].status \in Terminal /\ notices[r] = 0
    BY <1>1 DEF SerialRequest, At
  <1>5. notices'[r] = 1 /\ \A q \in Runs : q # r => notices'[q] = notices[q]
    BY <1>1, <1>4 DEF Notify, OneMoreNotice, SerialInv, HcscInv, HcscTypeOK
  <1>6. NoticesMatch'
    BY <1>1, <1>4, <1>5 DEF NoticesMatch, NoticesFit
  <1> QED  BY <1>2, <1>3, <1>6, SerialRespond DEF SerialRows, Notify

LEMMA SerialTriageWrite ==
    ASSUME SerialRequests, SerialInv, NEW h \in Handlers, TriageWrite(h)
    PROVE  SerialRows' /\ SerialRequest(h)'
  <1> DEFINE r == req[h].run  g == req[h].cur
  <1>1. /\ FreshRows /\ CountsMatch /\ SerialRequest(h) /\ At(h, "triage")
        /\ \A q \in Runs, f \in Findings : LinkFits(q, f) /\ EventFits(q, f)
        /\ \A q \in Runs : NoticesFit(q)
        /\ UNCHANGED <<run, event, notices>>
    BY RowsFit DEF SerialInv, SerialRows, At, TriageWrite, Linking
  <1>2. r \in Runs /\ g \in Findings /\ g \in Stored(r)
        /\ req[h].event = finding[r][g].event
    BY <1>1 DEF SerialInv, HcscInv, RequestsConsistent, RequestOK, SerialRequest, At
  <1>3. \A q \in Runs, f \in Findings :
           /\ finding'[q][f].sev = finding[q][f].sev
           /\ finding'[q][f].event = finding[q][f].event
           /\ ~Works(h, q, f) => finding'[q][f] = finding[q][f]
    <2>1. \A q \in Runs, f \in Findings : finding[q][f] \in FindRow
      BY DEF SerialInv, HcscInv, HcscTypeOK
    <2> QED  BY <2>1 DEF TriageWrite, SerialInv, HcscInv, HcscTypeOK, FindRow, Works
  <1>4. finding'[r][g].triage = req[h].triage
    <2>1. finding[r][g] \in FindRow /\ finding[r] \in [Findings -> FindRow]
      BY <1>2 DEF SerialInv, HcscInv, HcscTypeOK
    <2> QED  BY <1>2, <2>1 DEF TriageWrite, SerialInv, HcscInv, HcscTypeOK, FindRow
  <1>5. FreshRows'
    BY <1>1, <1>2, <1>3 DEF FreshRows, Stored, Works
  <1>6. LinksMatch' /\ NoticesMatch'
    BY <1>1, <1>3 DEF LinksMatch, LinkFits, NoticesMatch, NoticesFit
  <1>7. CountsMatch'
    BY <1>1, <1>3, CountsKept
  <1>8. CASE req[h].event # 0
    <2>1. req' = req /\ pc'[h] = "eventStatus"
      BY <1>8 DEF TriageWrite, Goto, SerialInv, HcscInv, HcscTypeOK
    <2>2. EventsMatch'
      BY <1>1, <1>3, <2>1 DEF EventsMatch, EventFits, At, Works
    <2>3. SerialRequest(h)'
      BY <1>2, <1>3, <1>4, <1>8, <2>1 DEF SerialRequest, At, Linking
    <2> QED  BY <1>5, <1>6, <1>7, <2>2, <2>3 DEF SerialRows
  <1>9. CASE req[h].event = 0
    <2>1. ASSUME NEW q \in Runs, NEW f \in Findings
          PROVE  EventFits(q, f)'
      <3>1. CASE Works(h, q, f)
        BY <1>2, <1>3, <1>9, <3>1 DEF EventFits, Works
      <3>2. CASE ~Works(h, q, f)
        BY <1>1, <1>3, <3>2 DEF EventFits
      <3> QED  BY <3>1, <3>2
    <2>2. EventsMatch'
      BY <2>1 DEF EventsMatch
    <2> QED  BY <1>5, <1>6, <1>7, <1>9, <2>2, SerialRespond DEF SerialRows, TriageWrite
  <1> QED  BY <1>8, <1>9

LEMMA SerialWriteEventStatus ==
    ASSUME SerialRequests, SerialInv, NEW h \in Handlers, WriteEventStatus(h)
    PROVE  SerialRows' /\ SerialRequest(h)'
  <1> DEFINE r == req[h].run  g == req[h].cur
  <1>1. /\ FreshRows /\ CountsMatch /\ SerialRequest(h) /\ At(h, "eventStatus")
        /\ \A q \in Runs, f \in Findings : LinkFits(q, f) /\ (EventFits(q, f) \/ Works(h, q, f))
        /\ \A q \in Runs : NoticesFit(q)
        /\ UNCHANGED <<run, finding, notices>>
    BY RowsFit DEF SerialInv, SerialRows, At, WriteEventStatus, Linking
  <1>2. /\ r \in Runs /\ g \in Findings
        /\ req[h].event # 0 /\ req[h].event = finding[r][g].event
        /\ req[h].kind = "event" \/ req[h].triage = finding[r][g].triage
    BY <1>1 DEF SerialInv, HcscInv, RequestsConsistent, RequestOK, SerialRequest, At
  <1>3. /\ \A q \in Runs, f \in Findings : ~Works(h, q, f) => event'[q][f] = event[q][f]
        /\ event'[r][g] = [event[r][g] EXCEPT ![req[h].event] = EventUpdated(h)]
    <2>1. \A q \in Runs : event[q] \in [Findings -> Seq(Event)]
      BY DEF SerialInv, HcscInv, HcscTypeOK
    <2> QED  BY <1>2, <2>1 DEF WriteEventStatus, SerialInv, HcscInv, HcscTypeOK, Works
  <1>4. /\ event[r][g] \in Seq(Event) /\ EventUpdated(h) \in Event
        /\ Len(event[r][g]) = 1 /\ req[h].event = 1
    <2>1. event[r][g] \in Seq(Event) /\ finding[r][g] \in FindRow /\ req[h] \in Request
      BY <1>2 DEF SerialInv, HcscInv, HcscTypeOK
    <2>2. Len(event[r][g]) \in Nat /\ LinkFits(r, g)
      <3>1. Len(event[r][g]) \in Nat
        BY <2>1, LenProperties
      <3>2. LinkFits(r, g)
        BY <1>1, <1>2, Zenon
      <3> QED  BY <3>1, <3>2
    <2>3. Len(event[r][g]) = 1 /\ req[h].event = 1
      <3>1. \A n \in Nat : n # 0 /\ n <= 1 => n = 1
        OBVIOUS
      <3>2. Len(event[r][g]) # 0 /\ Len(event[r][g]) <= 1
        BY <1>2, <2>2 DEF LinkFits
      <3>3. Len(event[r][g]) = 1
        BY <2>2, <3>1, <3>2
      <3> QED  BY <1>2, <2>2, <3>3 DEF LinkFits
    <2>4. EventUpdated(h) \in Event
      BY EventUpdatedType DEF SerialInv, HcscInv
    <2> QED  BY <2>1, <2>3, <2>4
  <1>5. Len(event'[r][g]) = Len(event[r][g])
        /\ event'[r][g][req[h].event] = EventUpdated(h)
    BY <1>3, <1>4, ExceptType
  <1>6. FreshRows'
    <2> SUFFICES ASSUME NEW q \in Runs, NEW f \in Findings, finding[q][f].sev = "none"
                 PROVE  /\ finding[q][f].triage = "open" /\ finding[q][f].event = 0
                        /\ event'[q][f] = <<>>
      BY <1>1 DEF FreshRows
    <2>1. finding[q][f].triage = "open" /\ finding[q][f].event = 0 /\ event[q][f] = <<>>
      BY <1>1 DEF FreshRows
    <2>2. ~Works(h, q, f)
      BY <1>2, <2>1 DEF Works
    <2> QED  BY <1>3, <2>1, <2>2
  <1>7. LinksMatch'
    <2> SUFFICES ASSUME NEW q \in Runs, NEW f \in Findings PROVE LinkFits(q, f)'
      BY DEF LinksMatch
    <2>1. Len(event'[q][f]) = Len(event[q][f])
      BY <1>3, <1>5 DEF Works
    <2> QED  BY <1>1, <2>1 DEF LinkFits
  <1>8. EventsMatch'
    <2>1. ASSUME NEW q \in Runs, NEW f \in Findings
          PROVE  EventFits(q, f)'
      <3>1. CASE Works(h, q, f)
        <4>1. q = r /\ f = g /\ finding' = finding
          BY <1>1, <3>1 DEF Works
        <4>2. event'[r][g][finding[r][g].event] = EventUpdated(h)
          BY <1>2, <1>5
        <4>3. EventUpdated(h).own \/ EventUpdated(h).status = EventStatusFor[finding[r][g].triage]
          BY <1>2 DEF EventUpdated
        <4> QED  BY <4>1, <4>2, <4>3 DEF EventFits
      <3>2. CASE ~Works(h, q, f)
        BY <1>1, <1>3, <3>2 DEF EventFits
      <3> QED  BY <3>1, <3>2
    <2> QED  BY <2>1 DEF EventsMatch
  <1>9. CountsMatch' /\ NoticesMatch'
    BY <1>1, CountsKept DEF NoticesMatch, NoticesFit
  <1> QED  BY <1>6, <1>7, <1>8, <1>9, SerialRespond DEF SerialRows, WriteEventStatus

LEMMA SerialCreateEvent ==
    ASSUME SerialRequests, SerialInv, NEW h \in Handlers, NEW g \in Findings, CreateEvent(h, g)
    PROVE  SerialRows' /\ SerialRequest(h)'
  <1> DEFINE r == req[h].run
  <1>1. /\ FreshRows /\ CountsMatch /\ NoticesMatch /\ SerialRequest(h) /\ At(h, "link")
        /\ \A q \in Runs, f \in Findings : LinkFits(q, f) /\ EventFits(q, f)
        /\ UNCHANGED <<run, finding, notices>>
    BY RowsFit DEF SerialInv, SerialRows, At, CreateEvent, Linking
  <1>2. /\ r \in Runs /\ g \in req[h].todo /\ finding[r][g].event = 0
        /\ finding[r][g].sev # "none"
    BY <1>1 DEF SerialInv, HcscInv, RequestsConsistent, RequestOK, SerialRequest, At,
                CreateEvent, Linking
  <1>3. event[r][g] = <<>>
    <2>1. event[r][g] \in Seq(Event) /\ Len(event[r][g]) = 0
      BY <1>1, <1>2 DEF LinkFits, SerialInv, HcscInv, HcscTypeOK
    <2> QED  BY <2>1
  <1>4. /\ event'[r][g] = <<NewEvent>>
        /\ \A q \in Runs, f \in Findings : ~(q = r /\ f = g) => event'[q][f] = event[q][f]
    <2>1. \A q \in Runs : event[q] \in [Findings -> Seq(Event)]
      BY DEF SerialInv, HcscInv, HcscTypeOK
    <2>2. event'[r][g] = Append(event[r][g], NewEvent)
      BY <1>2, <2>1 DEF CreateEvent, SerialInv, HcscInv, HcscTypeOK
    <2>3. \A q \in Runs, f \in Findings : ~(q = r /\ f = g) => event'[q][f] = event[q][f]
      BY <1>2, <2>1 DEF CreateEvent, SerialInv, HcscInv, HcscTypeOK
    <2> QED  BY <1>3, <2>2, <2>3
  <1>5. /\ pc'[h] = "linkFinding" /\ req'[h].run = r /\ req'[h].cur = g /\ req'[h].event = 1
        /\ req'[h].todo = req[h].todo /\ req'[h].notify = req[h].notify
    BY <1>3 DEF CreateEvent, Goto, SerialInv, HcscInv, HcscTypeOK, Request
  <1>6. FreshRows'
    BY <1>1, <1>2, <1>4 DEF FreshRows
  <1>7. LinksMatch'
    BY <1>1, <1>4, <1>5 DEF LinksMatch, LinkFits, At, Works
  <1>8. EventsMatch'
    BY <1>1, <1>2, <1>4 DEF EventsMatch, EventFits
  <1>9. CountsMatch'
    BY <1>1, CountsKept
  <1>10. NoticesMatch'
    BY <1>1, <1>5 DEF NoticesMatch, NoticesFit, Linking, At, SerialRequests
  <1>11. SerialRequest(h)'
    BY <1>1, <1>2, <1>4, <1>5 DEF SerialRequest, At, Linking
  <1> QED  BY <1>6, <1>7, <1>8, <1>9, <1>10, <1>11 DEF SerialRows

\* Linking changes one row, and of it nothing but the link.
LEMMA LinkFindingRows ==
    ASSUME HcscTypeOK, NEW h \in Handlers, LinkFinding(h),
           req[h].run \in Runs, req[h].cur \in Findings
    PROVE  /\ \A q \in Runs, f \in Findings :
                /\ finding'[q][f].sev = finding[q][f].sev
                /\ finding'[q][f].triage = finding[q][f].triage
                /\ ~Works(h, q, f) => finding'[q][f] = finding[q][f]
           /\ finding'[req[h].run][req[h].cur].event = req[h].event
  <1> DEFINE r == req[h].run  g == req[h].cur
  <1>1. finding \in [Runs -> [Findings -> FindRow]]
    BY DEF HcscTypeOK
  <1>2. \A q \in Runs : finding[q] \in [Findings -> FindRow]
    BY <1>1
  <1>3. finding[r][g] \in FindRow
    BY <1>2
  <1>4. PICK row : row = [finding[r][g] EXCEPT !.event = req[h].event]
    OBVIOUS
  <1>5. row.sev = finding[r][g].sev /\ row.triage = finding[r][g].triage
        /\ row.event = req[h].event
    BY <1>3, <1>4 DEF FindRow
  <1>6. PICK rows : rows = [finding[r] EXCEPT ![g] = row]
    OBVIOUS
  <1>7. rows[g] = row /\ \A f \in Findings \ {g} : rows[f] = finding[r][f]
    BY <1>2, <1>6
  <1>8. finding' = [finding EXCEPT ![r] = rows]
    <2>1. finding' = [finding EXCEPT ![r] =
                        [finding[r] EXCEPT ![g] = [finding[r][g] EXCEPT !.event = req[h].event]]]
      BY DEF LinkFinding
    <2> QED  BY <1>4, <1>6, <2>1
  <1>9. finding'[r] = rows /\ \A q \in Runs \ {r} : finding'[q] = finding[q]
    BY <1>1, <1>8
  <1> QED  BY <1>5, <1>7, <1>9 DEF Works

LEMMA SerialLinkFinding ==
    ASSUME SerialRequests, SerialInv, NEW h \in Handlers, LinkFinding(h)
    PROVE  SerialRows' /\ SerialRequest(h)'
  <1> DEFINE r == req[h].run  g == req[h].cur
  <1>1. /\ FreshRows /\ CountsMatch /\ NoticesMatch /\ SerialRequest(h) /\ At(h, "linkFinding")
        /\ \A q \in Runs, f \in Findings : EventFits(q, f) /\ (LinkFits(q, f) \/ Works(h, q, f))
        /\ UNCHANGED <<run, event, notices>>
    BY RowsFit DEF SerialInv, SerialRows, At, LinkFinding
  <1>2. /\ r \in Runs /\ g \in Findings /\ g \in req[h].todo /\ req[h].event = 1
        /\ event[r][g] = <<NewEvent>> /\ finding[r][g].triage = "open"
        /\ finding[r][g].sev # "none"
    BY <1>1 DEF SerialInv, HcscInv, RequestsConsistent, RequestOK, SerialRequest, At, Linking
  <1>3. /\ \A q \in Runs, f \in Findings :
              /\ finding'[q][f].sev = finding[q][f].sev
              /\ finding'[q][f].triage = finding[q][f].triage
              /\ ~Works(h, q, f) => finding'[q][f] = finding[q][f]
        /\ finding'[r][g].event = 1
    BY <1>2, LinkFindingRows DEF SerialInv, HcscInv
  <1>4. /\ pc'[h] = "link" /\ req'[h].run = r /\ req'[h].notify = req[h].notify
        /\ req'[h].todo = req[h].todo \ {g}
    BY DEF LinkFinding, Goto, SerialInv, HcscInv, HcscTypeOK, Request
  <1>5. FreshRows'
    BY <1>1, <1>2, <1>3 DEF FreshRows, Works
  <1>6. LinksMatch'
    <2>1. ASSUME NEW q \in Runs, NEW f \in Findings
          PROVE  LinkFits(q, f)'
      <3>1. CASE Works(h, q, f)
        <4>1. Len(<<NewEvent>>) = 1
          OBVIOUS
        <4>2. q = r /\ f = g
          BY <3>1 DEF Works
        <4>3. event' = event /\ Len(event[r][g]) = 1 /\ finding'[r][g].event = 1
          BY <1>1, <1>2, <1>3, <4>1
        <4> QED  BY <4>2, <4>3 DEF LinkFits
      <3>2. CASE ~Works(h, q, f)
        BY <1>1, <1>3, <3>2 DEF LinkFits
      <3> QED  BY <3>1, <3>2
    <2> QED  BY <2>1 DEF LinksMatch
  <1>7. EventsMatch'
    BY <1>1, <1>2, <1>3 DEF EventsMatch, EventFits, Works, EventStatusFor, NewEvent
  <1>8. CountsMatch'
    BY <1>1, <1>3, CountsKept
  <1>9. NoticesMatch'
    BY <1>1, <1>4 DEF NoticesMatch, NoticesFit, Linking, At, SerialRequests
  <1>10. SerialRequest(h)'
    <2>1. \A f \in req[h].todo \ {g} : f \in Findings /\ ~Works(h, r, f)
      BY DEF SerialInv, HcscInv, HcscTypeOK, Request, Works
    <2>2. \A f \in req[h].todo \ {g} : /\ finding'[r][f].sev # "none"
                                        /\ finding'[r][f].triage = "open"
                                        /\ finding'[r][f].event = 0
      BY <1>1, <1>2, <1>3, <2>1 DEF SerialRequest, Linking, At
    <2>3. req[h].notify => run'[r].status \in Terminal /\ notices'[r] = 0
      BY <1>1 DEF SerialRequest, Linking, At
    <2> QED  BY <1>4, <2>2, <2>3 DEF SerialRequest, At, Linking
  <1> QED  BY <1>5, <1>6, <1>7, <1>8, <1>9, <1>10 DEF SerialRows

\* The severities a transaction leaves are those it counts.
LEMMA UpsertStores ==
    ASSUME HcscTypeOK, NEW r \in Runs, NEW p \in PartialSeverities,
           finding' = [finding EXCEPT ![r] = UpsertedRows(r, p)]
    PROVE  /\ \A q \in Runs : q # r => finding'[q] = finding[q]
           /\ \A f \in Findings :
                 /\ finding'[r][f].event = finding[r][f].event
                 /\ finding'[r][f].triage = finding[r][f].triage
                 /\ finding'[r][f].sev = IF f \in DOMAIN p THEN p[f] ELSE finding[r][f].sev
           /\ Stored(r)' = DOMAIN Upserted(r, p)
           /\ HighStored(r)' = HighIn(Upserted(r, p))
  <1>1. finding'[r] = UpsertedRows(r, p) /\ \A q \in Runs : q # r => finding'[q] = finding[q]
    BY DEF HcscTypeOK
  <1>2. DOMAIN p \subseteq Findings /\ p \in [DOMAIN p -> Severity]
    BY PartialSeveritiesElim
  <1>3. \A f \in Findings :
           /\ finding'[r][f].event = finding[r][f].event
           /\ finding'[r][f].triage = finding[r][f].triage
           /\ finding'[r][f].sev # "none" <=> f \in Stored(r) \union DOMAIN p
    BY <1>1, UpsertKeeps
  <1>4. \A f \in Findings :
           finding'[r][f].sev = IF f \in DOMAIN p THEN p[f] ELSE finding[r][f].sev
    <2>1. \A f \in Findings : finding[r][f] \in FindRow
      BY DEF HcscTypeOK
    <2> QED  BY <1>1, <2>1 DEF UpsertedRows, FindRow
  <1>5. DOMAIN Upserted(r, p) = Stored(r) \union DOMAIN p
    BY UpsertedType
  <1>6. Stored(r)' = DOMAIN Upserted(r, p)
    BY <1>2, <1>3, <1>5 DEF Stored
  <1>7. \A f \in DOMAIN Upserted(r, p) : Upserted(r, p)[f] = finding'[r][f].sev
    <2>1. \A f \in DOMAIN Upserted(r, p) : f \in Findings
      BY <1>2, <1>5 DEF Stored
    <2> QED  BY <1>4, <1>5, <2>1 DEF Upserted
  <1>8. HighStored(r)' = HighIn(Upserted(r, p))
    BY <1>6, <1>7 DEF HighStored, HighIn
  <1> QED  BY <1>1, <1>3, <1>4, <1>6, <1>8

\* A transaction that stores a list of findings and the run's counters with it.
LEMMA SerialTransaction ==
    ASSUME SerialRequests, SerialInv, NEW h \in Handlers, pc[h] \in {"launchTx", "commit"},
           NEW r \in Runs, NEW p \in PartialSeverities, event' = event,
           finding' = [finding EXCEPT ![r] = UpsertedRows(r, p)],
           \A q \in Runs : q # r => run'[q] = run[q],
           run'[r].count = Cardinality(DOMAIN Upserted(r, p)),
           run'[r].high = Cardinality(HighIn(Upserted(r, p)))
    PROVE  FreshRows' /\ LinksMatch' /\ EventsMatch' /\ CountsMatch'
  <1>1. /\ FreshRows /\ CountsMatch
        /\ \A q \in Runs, f \in Findings : LinkFits(q, f) /\ EventFits(q, f)
    BY RowsFit DEF SerialInv, SerialRows, At
  <1>2. /\ \A q \in Runs : q # r => finding'[q] = finding[q]
        /\ \A f \in Findings :
              /\ finding'[r][f].event = finding[r][f].event
              /\ finding'[r][f].triage = finding[r][f].triage
        /\ Stored(r)' = DOMAIN Upserted(r, p) /\ HighStored(r)' = HighIn(Upserted(r, p))
    BY UpsertStores, ZenonT(60) DEF SerialInv, HcscInv
  <1>3. \A q \in Runs, f \in Findings :
           /\ finding'[q][f].event = finding[q][f].event
           /\ finding'[q][f].triage = finding[q][f].triage
    BY <1>2
  <1>4. \A q \in Runs, f \in Findings : finding[q][f].sev # "none" => finding'[q][f].sev # "none"
    <2>1. DOMAIN Upserted(r, p) = Stored(r) \union DOMAIN p
      BY UpsertedType DEF SerialInv, HcscInv
    <2>2. Stored(r) \subseteq Stored(r)'
      BY <1>2, <2>1
    <2> QED  BY <1>2, <2>2 DEF Stored
  <1>5. FreshRows'
    BY <1>1, <1>3, <1>4 DEF FreshRows
  <1>6. LinksMatch' /\ EventsMatch'
    BY <1>1, <1>3 DEF LinksMatch, EventsMatch, LinkFits, EventFits
  <1>7. CountsMatch'
    <2>1. \A q \in Runs : q # r => Stored(q)' = Stored(q) /\ HighStored(q)' = HighStored(q)
      BY <1>2 DEF Stored, HighStored
    <2> QED  BY <1>1, <1>2, <2>1 DEF CountsMatch
  <1> QED  BY <1>5, <1>6, <1>7

\* What a request knows when it goes on to its links: each of them is of a finding it has
\* just stored, and a run whose end it will announce has just ended.
LEMMA SerialLinkNext ==
    ASSUME SerialRequests, SerialInv, NEW h \in Handlers, NEW todo \in SUBSET Findings,
           LinkNext(h, todo), pc[h] \in {"launchTx", "commit"},
           NEW r \in Runs, r = req[h].run, NEW p \in PartialSeverities,
           finding' = [finding EXCEPT ![r] = UpsertedRows(r, p)], UNCHANGED notices,
           todo \intersect Stored(r) = {}, todo \subseteq DOMAIN Upserted(r, p),
           \A q \in Runs : q # r => run'[q] = run[q],
           run'[r].status = req[h].status, TransitionAllowed(run[r].status, req[h].status),
           req[h].notify = EndsRun(r, req[h].status)
    PROVE  NoticesMatch' /\ SerialRequest(h)'
  <1>1. /\ FreshRows /\ \A q \in Runs : NoticesFit(q)
        /\ HcscTypeOK /\ notices[r] \in 0..2
    BY RowsFit DEF SerialInv, SerialRows, At, Linking, HcscInv, HcscTypeOK
  <1>2. /\ pc'[h] = "link" /\ req'[h].run = r /\ req'[h].notify = req[h].notify
        /\ req'[h].todo = todo
    BY <1>1 DEF LinkNext, Goto, HcscTypeOK, NoRequest
  <1>3. ASSUME NEW f \in todo
        PROVE  /\ finding'[r][f].sev # "none" /\ finding'[r][f].triage = "open"
               /\ finding'[r][f].event = 0
    <2>1. finding[r][f].triage = "open" /\ finding[r][f].event = 0
      BY <1>1 DEF FreshRows, Stored
    <2>2. /\ finding'[r][f].event = finding[r][f].event
          /\ finding'[r][f].triage = finding[r][f].triage
          /\ f \in Stored(r)'
      <3>1. Stored(r)' = DOMAIN Upserted(r, p)
        BY <1>1, UpsertStores
      <3>2. \A g \in Findings :
               /\ finding'[r][g].event = finding[r][g].event
               /\ finding'[r][g].triage = finding[r][g].triage
               /\ finding'[r][g].sev = IF g \in DOMAIN p THEN p[g] ELSE finding[r][g].sev
        BY <1>1, UpsertStores
      <3>3. f \in Findings
        OBVIOUS
      <3> QED  BY <3>1, <3>2, <3>3
    <2> QED  BY <2>1, <2>2 DEF Stored
  <1>4. notices[r] # 1 => notices[r] = 0
    BY <1>1 DEF NoticesFit
  <1>5. CASE req[h].notify
    <2>1. run'[r].status \in Terminal /\ notices'[r] = 0
      BY <1>1, <1>4, <1>5 DEF EndsRun, NoticesFit
    <2>2. NoticesMatch'
      BY <1>1, <1>2, <1>5 DEF NoticesMatch, NoticesFit, Linking
    <2> QED  BY <1>2, <1>3, <2>1, <2>2 DEF SerialRequest, At, Linking
  <1>6. CASE ~req[h].notify
    <2>1. NoticesFit(r)'
      <3>1. NoticesFit(r) /\ notices'[r] = notices[r]
        BY <1>1
      <3>2. CASE run[r].status \in Terminal
        <4>1. req[h].status = run[r].status
          BY <3>2 DEF TransitionAllowed, Terminal
        <4> QED  BY <3>1, <4>1 DEF NoticesFit
      <3>3. CASE run[r].status \notin Terminal
        <4>1. req[h].status \notin Terminal
          BY <1>6, <3>3 DEF EndsRun
        <4>2. notices[r] # 1 /\ notices[r] <= 1
          BY <3>1, <3>3 DEF NoticesFit
        <4> QED  BY <3>1, <4>1, <4>2 DEF NoticesFit, Terminal
      <3> QED  BY <3>2, <3>3
    <2>2. NoticesMatch'
      BY <1>1, <2>1 DEF NoticesMatch, NoticesFit
    <2> QED  BY <1>2, <1>3, <1>6, <2>2 DEF SerialRequest, At, Linking
  <1> QED  BY <1>5, <1>6

LEMMA SerialLaunchTx ==
    ASSUME SerialRequests, SerialInv, NEW h \in Handlers, LaunchTx(h)
    PROVE  SerialRows' /\ SerialRequest(h)'
  <1> DEFINE r == req[h].run  p == req[h].payload
             todo == {f \in HighIn(Upserted(r, p)) : finding[r][f].event = 0}
  <1>1. /\ HcscTypeOK /\ SerialRequest(h) /\ RequestOK(h) /\ At(h, "launchTx")
        /\ r \in Runs /\ p \in PartialSeverities
    BY DEF SerialInv, HcscInv, RequestsConsistent, RequestOK, LaunchTx, At, HcscTypeOK, Request
  <1>2. /\ run[r].status = "queued" /\ Stored(r) = {}
        /\ req[h].status \in {"queued", "running", "completed"}
        /\ req[h].notify = (req[h].status = "completed")
    BY <1>1 DEF SerialRequest, RequestOK, At
  <1>3. DOMAIN Upserted(r, p) = DOMAIN p /\ HighIn(Upserted(r, p)) = HighIn(p)
    <2>1. DOMAIN Upserted(r, p) = DOMAIN p
      BY <1>1, <1>2, UpsertedType
    <2>2. \A f \in DOMAIN p : Upserted(r, p)[f] = p[f]
      BY DEF Upserted
    <2> QED  BY <2>1, <2>2 DEF HighIn
  <1>4. /\ run'[r].count = Cardinality(DOMAIN p) /\ run'[r].high = Cardinality(HighIn(p))
        /\ run'[r].status = req[h].status
        /\ \A q \in Runs : q # r => run'[q] = run[q]
    <2>1. run[r] \in Row
      BY <1>1 DEF HcscTypeOK
    <2>2. run'[r] = [run[r] EXCEPT !.ext = req[h].ext, !.status = req[h].status,
                                   !.count = Cardinality(DOMAIN p),
                                   !.high = Cardinality(HighIn(p)),
                                   !.finished = (req[h].status = "completed")]
      BY <1>1 DEF LaunchTx, HcscTypeOK
    <2>3. \A q \in Runs : q # r => run'[q] = run[q]
      BY <1>1 DEF LaunchTx, HcscTypeOK
    <2> QED  BY <2>1, <2>2, <2>3 DEF Row
  <1>5. /\ finding' = [finding EXCEPT ![r] = UpsertedRows(r, p)]
        /\ event' = event /\ notices' = notices /\ LinkNext(h, todo)
    BY DEF LaunchTx
  <1>6. FreshRows' /\ LinksMatch' /\ EventsMatch' /\ CountsMatch'
    BY <1>1, <1>3, <1>4, <1>5, SerialTransaction DEF At
  <1>7. todo \subseteq DOMAIN Upserted(r, p) /\ todo \in SUBSET Findings
    BY <1>1, <1>3, PartialSeveritiesElim DEF HighIn
  <1>8. /\ TransitionAllowed(run[r].status, req[h].status)
        /\ req[h].notify = EndsRun(r, req[h].status)
    BY <1>2 DEF TransitionAllowed, EndsRun, Reported, Terminal
  <1>9. NoticesMatch' /\ SerialRequest(h)'
    <2>1. pc[h] \in {"launchTx", "commit"} /\ todo \intersect Stored(r) = {}
      BY <1>1, <1>2 DEF At
    <2>2. r = req[h].run
      OBVIOUS
    <2> HIDE DEF todo, r, p
    <2> QED  BY <1>1, <1>4, <1>5, <1>7, <1>8, <2>1, <2>2, SerialLinkNext, ZenonT(60)
  <1> QED  BY <1>6, <1>9 DEF SerialRows

LEMMA SerialCommit ==
    ASSUME SerialRequests, SerialInv, NEW h \in Handlers, CallbackCommit(h)
    PROVE  SerialRows' /\ SerialRequest(h)'
  <1> DEFINE r == req[h].run  p == req[h].payload  counted == req[h].counted
             todo == NewHighRisk(h)
  <1>1. /\ HcscTypeOK /\ SerialRequest(h) /\ RequestOK(h) /\ At(h, "commit")
        /\ r \in Runs /\ p \in PartialSeverities
    BY DEF SerialInv, HcscInv, RequestsConsistent, RequestOK, CallbackCommit, At,
           HcscTypeOK, Request
  <1>2. /\ counted = Upserted(r, p) /\ req[h].seen = Stored(r)
        /\ TransitionAllowed(run[r].status, req[h].status)
        /\ req[h].notify = EndsRun(r, req[h].status)
    BY <1>1 DEF SerialRequest, At
  <1>3. /\ run'[r].count = Cardinality(DOMAIN counted)
        /\ run'[r].high = Cardinality(HighIn(counted))
        /\ run'[r].status = req[h].status
        /\ \A q \in Runs : q # r => run'[q] = run[q]
    <2>1. run[r] \in Row
      BY <1>1 DEF HcscTypeOK
    <2>2. run'[r] = [run[r] EXCEPT !.ext = req[h].ext, !.status = req[h].status,
                                   !.count = Cardinality(DOMAIN counted),
                                   !.high = Cardinality(HighIn(counted)),
                                   !.finished = req[h].status \in Terminal]
      BY <1>1 DEF CallbackCommit, HcscTypeOK
    <2>3. \A q \in Runs : q # r => run'[q] = run[q]
      BY <1>1 DEF CallbackCommit, HcscTypeOK
    <2> QED  BY <2>1, <2>2, <2>3 DEF Row
  <1>4. /\ finding' = [finding EXCEPT ![r] = UpsertedRows(r, p)]
        /\ event' = event /\ notices' = notices /\ LinkNext(h, todo)
    BY DEF CallbackCommit
  <1>5. FreshRows' /\ LinksMatch' /\ EventsMatch' /\ CountsMatch'
    BY <1>1, <1>2, <1>3, <1>4, SerialTransaction DEF At
  <1>6. /\ todo \subseteq DOMAIN Upserted(r, p) /\ todo \in SUBSET Findings
        /\ todo \intersect Stored(r) = {}
    <2>1. DOMAIN Upserted(r, p) \subseteq Findings
      BY <1>1, UpsertedType, PartialSeveritiesElim
    <2> QED  BY <1>2, <2>1 DEF NewHighRisk, HighIn
  <1>7. NoticesMatch' /\ SerialRequest(h)'
    <2>1. pc[h] \in {"launchTx", "commit"}
      BY <1>1 DEF At
    <2>2. /\ run'[r].status = req[h].status
          /\ TransitionAllowed(run[r].status, req[h].status)
          /\ req[h].notify = EndsRun(r, req[h].status)
      BY <1>2, <1>3
    <2>3. r = req[h].run /\ r \in Runs /\ p \in PartialSeverities
      BY <1>1
    <2>4. \A q \in Runs : q # r => run'[q] = run[q]
      BY <1>3
    <2> HIDE DEF todo, r, p, counted
    <2> QED  BY <1>4, <1>6, <2>1, <2>2, <2>3, <2>4, SerialLinkNext, ZenonT(60)
  <1> QED  BY <1>5, <1>7 DEF SerialRows

\* The invariant is kept by every step: only one request moves, and no fault is left.
LEMMA SerialInvInit ==
    ASSUME HcscInit
    PROVE  SerialInv
  <1>1. /\ \A r \in Runs : run[r] = NotCreated /\ notices[r] = 0 /\ Stored(r) = {}
        /\ \A r \in Runs, f \in Findings : finding[r][f] = NotStored /\ event[r][f] = <<>>
        /\ \A h \in Handlers : At(h, "idle")
    BY DEF HcscInit, Stored, NotStored, At
  <1>2. FreshRows /\ EventsMatch
    BY <1>1 DEF FreshRows, EventsMatch, EventFits, NotStored
  <1>3. LinksMatch
    BY <1>1 DEF LinksMatch, LinkFits, NotStored
  <1>4. CountsMatch
    <2>1. \A r \in Runs : HighStored(r) = {}
      BY <1>1 DEF HighStored
    <2>2. \A r \in Runs : run[r].count = 0 /\ run[r].high = 0
      BY <1>1 DEF NotCreated
    <2> QED  BY <1>1, <2>1, <2>2, FS_EmptySet DEF CountsMatch
  <1>5. NoticesMatch
    BY <1>1 DEF NoticesMatch, NoticesFit, NotCreated, Terminal
  <1>6. \A h \in Handlers : SerialRequest(h)
    BY <1>1 DEF SerialRequest, At, Linking
  <1> QED  BY <1>2, <1>3, <1>4, <1>5, <1>6, HcscInvInit DEF SerialInv, SerialRows

LEMMA SerialInvNext ==
    ASSUME SerialRequests, SerialInv, [HcscNext]_hcscVars
    PROVE  SerialInv'
  <1>1. HcscInv'
    BY HcscInvNext DEF SerialInv
  <1>2. CASE UNCHANGED <<run, finding, event, notices, pc, req>>
    <2>1. SerialRows'
      <3>1. FreshRows'
        BY <1>2 DEF SerialInv, SerialRows, FreshRows
      <3>2. LinksMatch'
        BY <1>2 DEF SerialInv, SerialRows, LinksMatch, LinkFits, At, Works
      <3>3. EventsMatch'
        BY <1>2 DEF SerialInv, SerialRows, EventsMatch, EventFits, At, Works
      <3>4. CountsMatch'
        BY <1>2, CountsKept DEF SerialInv, SerialRows
      <3>5. NoticesMatch'
        BY <1>2 DEF SerialInv, SerialRows, NoticesMatch, NoticesFit, At, Linking
      <3> QED  BY <3>1, <3>2, <3>3, <3>4, <3>5 DEF SerialRows
    <2>2. ASSUME NEW h \in Handlers
          PROVE  SerialRequest(h)'
      <3> DEFINE r == req[h].run
      <3>1. /\ Stored(r)' = Stored(r) /\ Upserted(r, req[h].payload)' = Upserted(r, req[h].payload)
            /\ EndsRun(r, req[h].status)' = EndsRun(r, req[h].status)
        BY <1>2 DEF Stored, Upserted, EndsRun
      <3>2. SerialRequest(h)
        BY DEF SerialInv
      <3> QED  BY <1>2, <3>1, <3>2 DEF SerialRequest, At, Linking
    <2> QED  BY <1>1, <2>1, <2>2 DEF SerialInv
  <1>3. ASSUME NEW h \in Handlers, OwnStep(h) \/ Fault(h) \/ Outside(h)
        PROVE  SerialRows' /\ SerialRequest(h)'
    <2>1. CASE OwnStep(h)
      BY <2>1, SerialLaunchTx, SerialCatch, SerialCount, SerialCommit, SerialCreateEvent,
         SerialLinkFinding, SerialLinkDone, SerialNotify, SerialTriageWrite,
         SerialWriteEventStatus DEF OwnStep
    <2>2. ~Fault(h)
      BY DEF SerialRequests, SerialInv, HcscInv, HcscTypeOK, Fault, LaunchError, Crash
    <2>3. CASE Outside(h)
      BY <2>3, SerialStart, SerialAnswer, SerialRefused, SerialRead, SerialTriageRead,
         SerialEventRead
      DEF Outside, DemoAnswer, LiveAnswer
    <2> QED  BY <1>3, <2>1, <2>2, <2>3
  <1>4. ASSUME NEW h \in Handlers, OwnStep(h) \/ Fault(h) \/ Outside(h)
        PROVE  SerialInv'
    <2>1. \A g \in Handlers : SerialRequest(g)'
      BY <1>3, <1>4 DEF SerialRequests
    <2> QED  BY <1>1, <1>3, <1>4, <2>1 DEF SerialInv
  <1> QED  BY <1>2, <1>4 DEF HcscNext, hcscVars, AuthorizationExpires

\* The strengthened invariant of requests that do not overlap: between any two steps of the
\* request at work, run, findings, events and notices differ only by what it has yet to do.
THEOREM SerialInvariant ==
    ASSUME SerialRequests
    PROVE  HcscSpec => []SerialInv
  <1>1. HcscInit => SerialInv
    BY SerialInvInit
  <1>2. SerialInv /\ [HcscNext]_hcscVars => SerialInv'
    BY SerialInvNext
  <1> QED  BY <1>1, <1>2, PTL DEF HcscSpec

-----------------------------------------------------------------------------
(* What requests that do not overlap guarantee *)

\* However often callbacks are sent, no finding gets a second security event, as long as
\* one request is served after the other.
THEOREM OneEventEach ==
    ASSUME SerialRequests
    PROVE  HcscSpec => []OneEventPerFinding
  <1>1. ASSUME SerialInv
        PROVE  OneEventPerFinding
    <2>1. ASSUME NEW r \in Runs, NEW f \in Findings
          PROVE  Len(event[r][f]) <= 1
      <3>1. CASE LinkFits(r, f)
        BY <3>1 DEF LinkFits
      <3>2. ASSUME NEW h \in Handlers, At(h, "linkFinding"), Works(h, r, f)
            PROVE  Len(event[r][f]) <= 1
        <4>1. event[r][f] = <<NewEvent>>
          BY <1>1, <3>2 DEF SerialInv, SerialRequest, Works
        <4> QED  BY <4>1
      <3> QED  BY <1>1, <3>1, <3>2 DEF SerialInv, SerialRows, LinksMatch
    <2> QED  BY <2>1 DEF OneEventPerFinding
  <1> QED  BY <1>1, SerialInvariant, PTL

\* Between requests that do not overlap, the counters of a run are those of its findings:
\* what a callback counts in its transaction is what the transaction leaves.
THEOREM CountsStayExact ==
    ASSUME SerialRequests
    PROVE  HcscSpec => []CountsExact
  <1>1. SerialInv => CountsExact
    BY DEF SerialInv, SerialRows, CountsMatch, HighStored, CountsExact
  <1> QED  BY <1>1, SerialInvariant, PTL

\* Requests that do not overlap announce the end of a run once: the callback that ended it
\* or the launch that completed it does, and no later one.
THEOREM EndAnnouncedOnce ==
    ASSUME SerialRequests
    PROVE  HcscSpec => []NoticeOncePerEndedRun
  <1>1. SerialInv => NoticeOncePerEndedRun
    BY DEF SerialInv, SerialRows, NoticesMatch, NoticesFit, NoticeOncePerEndedRun, Quiet,
           At, Linking
  <1> QED  BY <1>1, SerialInvariant, PTL

\* Between requests that do not overlap, the security event of a finding shows what the
\* analyst decided, whatever was decided and whatever callbacks came since, as long as
\* nobody has set the status of the event itself after that decision.
THEOREM EventsMirror ==
    ASSUME SerialRequests
    PROVE  HcscSpec => []EventMirrorsFinding
  <1>1. SerialInv => EventMirrorsFinding
    BY DEF SerialInv, SerialRows, EventsMatch, EventFits, EventMirrorsFinding, Quiet, At
  <1> QED  BY <1>1, SerialInvariant, PTL

\* Without an overlap the transition that was checked when a callback came in is the one
\* its transaction makes, and a launch finds its run as it left it.
LEMMA PolicyStep ==
    ASSUME SerialRequests, SerialInv, [HcscNext]_hcscVars, NEW r \in Runs,
           run[r].status \notin {"absent", run'[r].status}
    PROVE  TransitionAllowed(run[r].status, run'[r].status)
  <1>1. HcscInv /\ run[r] \in Row
    BY DEF SerialInv, HcscInv, HcscTypeOK
  <1>2. ASSUME NEW h \in Handlers, NEW q \in Runs, NEW mode \in Modes, LaunchStart(h, q, mode)
        PROVE  FALSE
    <2>1. q # r
      BY <1>2 DEF LaunchStart
    <2> QED  BY <1>1, <1>2, <2>1 DEF LaunchStart, HcscInv, HcscTypeOK
  <1>3. ASSUME NEW h \in Handlers, LaunchTx(h)
        PROVE  TransitionAllowed(run[r].status, run'[r].status)
    <2>1. r = req[h].run /\ run'[r].status = req[h].status
      BY <1>1, <1>3, LaunchTxRow DEF HcscInv
    <2>2. run[r].status = "queued" /\ req[h].status \in {"queued", "running", "completed"}
      BY <1>1, <1>3, <2>1 DEF SerialInv, SerialRequest, LaunchTx, At, HcscInv,
                              RequestsConsistent, RequestOK
    <2> QED  BY <2>1, <2>2 DEF TransitionAllowed, Reported, Terminal
  <1>4. ASSUME NEW h \in Handlers, CallbackCommit(h)
        PROVE  TransitionAllowed(run[r].status, run'[r].status)
    <2>1. r = req[h].run /\ run'[r].status = req[h].status
      BY <1>1, <1>4, CallbackCommitRow DEF HcscInv
    <2> QED  BY <1>4, <2>1 DEF SerialInv, SerialRequest, CallbackCommit, At
  <1>5. ASSUME NEW h \in Handlers, LaunchCatch(h)
        PROVE  TransitionAllowed(run[r].status, run'[r].status)
    <2>1. r = req[h].run /\ run'[r].status = "failed"
      BY <1>1, <1>5 DEF LaunchCatch, HcscInv, HcscTypeOK, Row
    <2>2. run[r].status = "queued"
      BY <1>5, <2>1 DEF SerialInv, SerialRequest, LaunchCatch, At
    <2> QED  BY <2>1, <2>2 DEF TransitionAllowed, Reported, Terminal
  <1>6. run' # run
    OBVIOUS
  <1> QED  BY <1>1, <1>2, <1>3, <1>4, <1>5, <1>6, Writers DEF RunWritten

\* Requests that do not overlap change the status of a run only as the transition policy
\* of runs allows.
THEOREM PolicyFollowed ==
    ASSUME SerialRequests
    PROVE  HcscSpec => StatusFollowsPolicy
  <1>1. SerialInv /\ [HcscNext]_hcscVars =>
           [\A r \in Runs : run[r].status \notin {"absent", run'[r].status} =>
               TransitionAllowed(run[r].status, run'[r].status)]_hcscVars
    BY PolicyStep
  <1> QED  BY <1>1, SerialInvariant, PTL DEF HcscSpec, StatusFollowsPolicy

-----------------------------------------------------------------------------
(* High-risk findings of requests that do not overlap *)

\* Every report gives a finding the severity that every other report gives it.
FixedSeverities(severity) ==
    \A p \in Payloads \union {DemoPayload} : \A f \in DOMAIN p : p[f] = severity[f]

RiskFits(r, f)   == finding[r][f].sev = "high" => finding[r][f].event # 0
ToLink(h, r, f) == Linking(h) /\ req[h].run = r /\ f \in req[h].todo

\* Stored severities and those on their way are the fixed ones, and a high-risk finding is
\* linked, but for those that are being linked.
RiskInv(severity) ==
    /\ \A h \in Handlers : \A f \in DOMAIN req[h].payload : req[h].payload[f] = severity[f]
    /\ \A r \in Runs, f \in Findings :
          /\ finding[r][f].sev \in {"none", severity[f]}
          /\ RiskFits(r, f) \/ \E h \in Handlers : ToLink(h, r, f)

LEMMA RiskRows ==
    ASSUME SerialRequests, NEW severity, RiskInv(severity), NEW h \in Handlers
    PROVE  /\ \A r \in Runs, f \in Findings : RiskFits(r, f) \/ ToLink(h, r, f)
           /\ \A f \in DOMAIN req[h].payload : req[h].payload[f] = severity[f]
  BY DEF SerialRequests, RiskInv

\* What a step of the one request has to show.
LEMMA RiskIntro ==
    ASSUME SerialRequests, NEW severity, NEW h \in Handlers,
           \A f \in DOMAIN req'[h].payload : req'[h].payload[f] = severity[f],
           \A r \in Runs, f \in Findings : finding'[r][f].sev \in {"none", severity[f]},
           \A r \in Runs, f \in Findings : RiskFits(r, f)' \/ ToLink(h, r, f)'
    PROVE  RiskInv(severity)'
  BY DEF SerialRequests, RiskInv

LEMMA NoSeverityRows == DOMAIN <<>> = {}
  OBVIOUS

\* The request's own payload after a step of it.
LEMMA RiskPayload ==
    ASSUME SerialRequests, SerialInv, NEW severity, FixedSeverities(severity),
           RiskInv(severity), NEW h \in Handlers, OwnStep(h) \/ Outside(h)
    PROVE  \A f \in DOMAIN req'[h].payload : req'[h].payload[f] = severity[f]
  <1>1. req[h] \in Request /\ req \in [Handlers -> Request]
        /\ \A f \in DOMAIN req[h].payload : req[h].payload[f] = severity[f]
    BY RiskRows DEF SerialInv, HcscInv, HcscTypeOK
  <1>2. CASE Respond(h)
    BY <1>1, <1>2, NoSeverityRows DEF Respond, NoRequest
  <1>3. ASSUME NEW todo, LinkNext(h, todo)
        PROVE  req'[h].payload = <<>>
    BY <1>1, <1>3 DEF LinkNext, NoRequest
  <1>4. CASE LaunchTx(h) \/ CallbackCommit(h)
    BY <1>3, <1>4, NoSeverityRows DEF LaunchTx, CallbackCommit
  <1>5. CASE LaunchCatch(h) \/ Notify(h) \/ WriteEventStatus(h)
    BY <1>2, <1>5 DEF LaunchCatch, Notify, WriteEventStatus
  <1>6. CASE LinkDone(h) \/ TriageWrite(h) \/ LaunchRefused(h)
    BY <1>1, <1>2, <1>6 DEF LinkDone, TriageWrite, LaunchRefused
  <1>7. CASE CallbackCount(h)
    BY <1>1, <1>7 DEF CallbackCount, Request
  <1>8. CASE LinkFinding(h)
    BY <1>1, <1>8 DEF LinkFinding, Request
  <1>9. ASSUME NEW g \in Findings, CreateEvent(h, g)
        PROVE  req'[h].payload = req[h].payload
    BY <1>1, <1>9 DEF CreateEvent, Request
  <1>10. CASE \/ \E r \in Runs, mode \in Modes : LaunchStart(h, r, mode)
              \/ \E r \in Runs, f \in Findings, t \in Triages : TriageRead(h, r, f, t)
    <2>1. req'[h].payload = <<>>
      BY <1>1, <1>10, ZenonT(60) DEF LaunchStart, TriageRead, NoRequest
    <2> QED  BY <2>1, NoSeverityRows
  <1>11. ASSUME NEW ext, NEW status, NEW p, LaunchAnswer(h, ext, status, p)
         PROVE  req'[h].payload = p
    BY <1>1, <1>11 DEF LaunchAnswer, Request
  <1>12. CASE \E ext \in ExtIds : DemoAnswer(h, ext)
    BY <1>11, <1>12 DEF DemoAnswer, FixedSeverities
  <1>13. CASE \E ext \in ExtIds, status \in {"queued", "running", "completed"} :
                 LiveAnswer(h, ext, status)
    BY <1>11, <1>13, NoSeverityRows DEF LiveAnswer
  <1>14. ASSUME NEW r \in Runs, NEW ext \in ExtIds, NEW status \in Reports, NEW p \in Payloads,
                CallbackRead(h, r, ext, status, p)
         PROVE  \A f \in DOMAIN req'[h].payload : req'[h].payload[f] = severity[f]
    <2>1. req'[h].payload = p
      BY <1>1, <1>14 DEF CallbackRead, NoRequest
    <2> QED  BY <2>1 DEF FixedSeverities
  <1>15. ASSUME NEW r \in Runs, NEW f \in Findings, NEW t \in Triages,
                NEW n \in 1..Len(event[r][f]), EventRead(h, r, f, n, t)
         PROVE  \A g \in DOMAIN req'[h].payload : req'[h].payload[g] = severity[g]
    <2>1. req'[h].payload = <<>>
      BY <1>1, <1>15 DEF EventRead, NoRequest
    <2> QED  BY <2>1, NoSeverityRows
  <1> QED
    BY <1>1, <1>4, <1>5, <1>6, <1>7, <1>8, <1>9, <1>10, <1>12, <1>13, <1>14, <1>15
    DEF OwnStep, Outside

\* A transaction links each high-risk finding it has stored and that has no event yet; of
\* those stored before it knows by their severity that they are linked.
LEMMA RiskTransaction ==
    ASSUME SerialRequests, SerialInv, NEW severity, FixedSeverities(severity),
           RiskInv(severity), NEW h \in Handlers, LaunchTx(h) \/ CallbackCommit(h),
           NEW r, r = req[h].run, NEW p, p = req[h].payload
    PROVE  /\ \A q \in Runs, f \in Findings : finding'[q][f].sev \in {"none", severity[f]}
           /\ \A q \in Runs, f \in Findings : RiskFits(q, f)' \/ ToLink(h, q, f)'
  <1>1. /\ HcscTypeOK /\ SerialRequest(h) /\ FreshRows /\ r \in Runs
        /\ p \in PartialSeverities /\ pc[h] \in {"launchTx", "commit"}
        /\ finding' = [finding EXCEPT ![r] = UpsertedRows(r, p)]
    BY DEF SerialInv, SerialRows, HcscInv, RequestsConsistent, RequestOK, LaunchTx,
           CallbackCommit, At, HcscTypeOK, Request
  <1>2. /\ \A q \in Runs : q # r => finding'[q] = finding[q]
        /\ \A f \in Findings :
              /\ finding'[r][f].event = finding[r][f].event
              /\ finding'[r][f].triage = finding[r][f].triage
              /\ finding'[r][f].sev = IF f \in DOMAIN p THEN p[f] ELSE finding[r][f].sev
        /\ Stored(r)' = DOMAIN Upserted(r, p)
        /\ HighStored(r)' = HighIn(Upserted(r, p))
    BY <1>1, UpsertStores
  <1>3. /\ \A q \in Runs, f \in Findings : RiskFits(q, f)
        /\ \A f \in DOMAIN p : p[f] = severity[f]
        /\ \A q \in Runs, f \in Findings : finding[q][f].sev \in {"none", severity[f]}
    <2>1. ~Linking(h)
      BY <1>1 DEF Linking
    <2>2. \A q \in Runs, f \in Findings : finding[q][f].sev \in {"none", severity[f]}
      BY DEF RiskInv
    <2> QED  BY <2>1, <2>2, RiskRows DEF ToLink
  <1>4. PICK todo : /\ LinkNext(h, todo)
                    /\ \A f \in HighIn(Upserted(r, p)) :
                          f \notin Stored(r) /\ finding[r][f].event = 0 => f \in todo
    <2>1. CASE LaunchTx(h)
      <3>1. PICK T : T = {f \in HighIn(Upserted(r, p)) : finding[r][f].event = 0}
        OBVIOUS
      <3>2. LinkNext(h, T)
        BY <2>1, <3>1, Zenon DEF LaunchTx
      <3>3. \A f \in HighIn(Upserted(r, p)) : finding[r][f].event = 0 => f \in T
        BY <3>1
      <3> QED  BY <3>2, <3>3, Zenon
    <2>2. CASE CallbackCommit(h)
      <3>1. req[h].seen = Stored(r) /\ LinkNext(h, NewHighRisk(h))
        BY <1>1, <2>2 DEF CallbackCommit, SerialRequest, At
      <3> QED  BY <3>1 DEF NewHighRisk
    <2> QED  BY <2>1, <2>2
  <1>5. pc'[h] = "link" /\ req'[h].run = r /\ req'[h].todo = todo
    BY <1>1, <1>4 DEF LinkNext, Goto, HcscTypeOK, NoRequest
  <1>6. \A q \in Runs, f \in Findings : finding'[q][f].sev \in {"none", severity[f]}
    BY <1>1, <1>2, <1>3
  <1>7. ASSUME NEW f \in Findings
        PROVE  RiskFits(r, f)' \/ ToLink(h, r, f)'
    <2> SUFFICES ASSUME finding'[r][f].sev = "high", finding'[r][f].event = 0
                 PROVE  ToLink(h, r, f)'
      BY DEF RiskFits
    <2>1. finding[r][f].event = 0 /\ severity[f] = "high"
      BY <1>1, <1>2, <1>6
    <2>2. f \notin Stored(r)
      <3>1. finding[r][f].sev # "high"
        BY <1>1, <1>3, <2>1 DEF RiskFits
      <3> QED  BY <1>1, <1>3, <2>1, <3>1 DEF Stored
    <2>3. f \in HighIn(Upserted(r, p))
      BY <1>2 DEF HighStored, Stored
    <2> QED  BY <1>4, <1>5, <2>1, <2>2, <2>3 DEF ToLink, Linking
  <1>8. \A q \in Runs, f \in Findings : q # r => RiskFits(q, f)'
    BY <1>2, <1>3 DEF RiskFits
  <1> QED  BY <1>1, <1>6, <1>7, <1>8

\* The other steps keep the severities, and an event once linked.
LEMMA RiskOther ==
    ASSUME SerialRequests, SerialInv, NEW severity, RiskInv(severity), NEW h \in Handlers,
           OwnStep(h) \/ Outside(h), ~LaunchTx(h), ~CallbackCommit(h)
    PROVE  /\ \A q \in Runs, f \in Findings : finding'[q][f].sev = finding[q][f].sev
           /\ \A q \in Runs, f \in Findings : RiskFits(q, f)' \/ ToLink(h, q, f)'
  <1>1. /\ HcscTypeOK /\ SerialRequest(h)
        /\ \A q \in Runs, f \in Findings : RiskFits(q, f) \/ ToLink(h, q, f)
    BY RiskRows DEF SerialInv, HcscInv
  <1>2. CASE LinkFinding(h)
    <2> DEFINE r == req[h].run  g == req[h].cur
    <2>1. r \in Runs /\ g \in Findings /\ req[h].event = 1
      BY <1>1, <1>2 DEF SerialInv, HcscInv, RequestsConsistent, RequestOK, SerialRequest,
                        LinkFinding, At
    <2>2. /\ \A q \in Runs, f \in Findings :
                /\ finding'[q][f].sev = finding[q][f].sev
                /\ ~Works(h, q, f) => finding'[q][f] = finding[q][f]
          /\ finding'[r][g].event = 1
      BY <1>1, <1>2, <2>1, LinkFindingRows
    <2>3. pc'[h] = "link" /\ req'[h].run = r /\ req'[h].todo = req[h].todo \ {g}
      BY <1>1, <1>2 DEF LinkFinding, Goto, HcscTypeOK, Request
    <2>4. ASSUME NEW q \in Runs, NEW f \in Findings
          PROVE  RiskFits(q, f)' \/ ToLink(h, q, f)'
      <3>1. CASE Works(h, q, f)
        BY <2>2, <3>1 DEF RiskFits, Works
      <3>2. CASE ~Works(h, q, f) /\ RiskFits(q, f)
        BY <2>2, <3>2 DEF RiskFits
      <3>3. CASE ~Works(h, q, f) /\ ToLink(h, q, f)
        BY <2>3, <3>3 DEF ToLink, Works, Linking
      <3> QED  BY <1>1, <3>1, <3>2, <3>3
    <2> QED  BY <2>2, <2>4
  <1>3. ASSUME NEW g \in Findings, CreateEvent(h, g)
        PROVE  /\ finding' = finding
               /\ \A q \in Runs, f \in Findings : RiskFits(q, f)' \/ ToLink(h, q, f)'
    <2>1. /\ finding' = finding /\ pc'[h] = "linkFinding" /\ req'[h].run = req[h].run
          /\ req'[h].todo = req[h].todo
      BY <1>1, <1>3 DEF CreateEvent, Goto, HcscTypeOK, Request
    <2> QED  BY <1>1, <2>1 DEF RiskFits, ToLink, Linking
  <1>4. ASSUME ~LinkFinding(h), \A g \in Findings : ~CreateEvent(h, g)
        PROVE  \A q \in Runs, f \in Findings :
                  /\ RiskFits(q, f)
                  /\ finding'[q][f].sev = finding[q][f].sev
                  /\ finding'[q][f].event = finding[q][f].event
    <2>1. \A q \in Runs, f \in Findings : ~ToLink(h, q, f)
      <3>1. ~Linking(h) \/ LinkDone(h)
        BY <1>4 DEF OwnStep, Outside, Linking, At, LaunchCatch, CallbackCount, Notify,
           TriageWrite, WriteEventStatus, LaunchStart, DemoAnswer, LiveAnswer, LaunchRefused,
           CallbackRead, TriageRead, EventRead
      <3> QED  BY <3>1 DEF ToLink, LinkDone
    <2>2. finding' = finding \/ TriageWrite(h)
      BY <1>4 DEF OwnStep, Outside, LaunchCatch, CallbackCount, Notify, LinkDone,
         WriteEventStatus, LaunchStart, DemoAnswer, LiveAnswer, LaunchAnswer, LaunchRefused,
         CallbackRead, TriageRead, EventRead
    <2>3. CASE TriageWrite(h)
      <3>1. \A q \in Runs : finding[q] \in [Findings -> FindRow]
        BY <1>1 DEF HcscTypeOK
      <3>2. \A q \in Runs, f \in Findings : finding[q][f] \in FindRow
        BY <1>1 DEF HcscTypeOK
      <3>3. \A q \in Runs, f \in Findings : /\ finding'[q][f].sev = finding[q][f].sev
                                            /\ finding'[q][f].event = finding[q][f].event
        BY <1>1, <2>3, <3>1, <3>2 DEF TriageWrite, HcscTypeOK, FindRow
      <3> QED  BY <1>1, <2>1, <3>3
    <2> QED  BY <1>1, <2>1, <2>2, <2>3
  <1>5. CASE ~LinkFinding(h) /\ \A g \in Findings : ~CreateEvent(h, g)
    BY <1>4, <1>5 DEF RiskFits
  <1> QED  BY <1>2, <1>3, <1>5

LEMMA RiskInvNext ==
    ASSUME SerialRequests, SerialInv, NEW severity, FixedSeverities(severity),
           RiskInv(severity), [HcscNext]_hcscVars
    PROVE  RiskInv(severity)'
  <1>1. CASE UNCHANGED <<finding, pc, req>>
    BY <1>1 DEF RiskInv, RiskFits, ToLink, Linking
  <1>2. ASSUME NEW h \in Handlers, OwnStep(h) \/ Outside(h)
        PROVE  RiskInv(severity)'
    <2>1. \A f \in DOMAIN req'[h].payload : req'[h].payload[f] = severity[f]
      BY <1>2, RiskPayload
    <2>2. \A r \in Runs, f \in Findings : finding[r][f].sev \in {"none", severity[f]}
      BY DEF RiskInv
    <2>3. /\ \A q \in Runs, f \in Findings : finding'[q][f].sev \in {"none", severity[f]}
          /\ \A q \in Runs, f \in Findings : RiskFits(q, f)' \/ ToLink(h, q, f)'
      <3>1. CASE LaunchTx(h) \/ CallbackCommit(h)
        BY <3>1, RiskTransaction
      <3>2. CASE ~LaunchTx(h) /\ ~CallbackCommit(h)
        BY <1>2, <2>2, <3>2, RiskOther
      <3> QED  BY <3>1, <3>2
    <2> QED  BY <2>1, <2>3, RiskIntro
  <1>3. \A h \in Handlers : ~Fault(h)
    BY DEF SerialRequests, SerialInv, HcscInv, HcscTypeOK, Fault, LaunchError, Crash
  <1> QED  BY <1>1, <1>2, <1>3 DEF HcscNext, hcscVars, AuthorizationExpires

\* Between requests that do not overlap, every high-risk finding is linked to a security
\* event, provided that no report changes the severity of a finding: a finding that is
\* raised to high by a later callback is known already and never linked.
THEOREM HighRiskAlwaysLinked ==
    ASSUME SerialRequests, NEW CONSTANT severity, FixedSeverities(severity)
    PROVE  HcscSpec => []HighRiskLinked
  <1>1. HcscInit => RiskInv(severity)
    <2> SUFFICES ASSUME HcscInit PROVE RiskInv(severity)
      OBVIOUS
    <2>1. \A h \in Handlers : DOMAIN req[h].payload = {}
      BY NoSeverityRows DEF HcscInit, NoRequest
    <2>2. \A r \in Runs, f \in Findings : finding[r][f].sev = "none"
      BY DEF HcscInit, NotStored
    <2> QED  BY <2>1, <2>2 DEF RiskInv, RiskFits
  <1>2. SerialInv /\ RiskInv(severity) /\ [HcscNext]_hcscVars => RiskInv(severity)'
    BY RiskInvNext
  <1>3. RiskInv(severity) => HighRiskLinked
    BY DEF RiskInv, RiskFits, ToLink, Linking, HighRiskLinked, Quiet, At
  <1> QED  BY <1>1, <1>2, <1>3, SerialInvariant, PTL DEF HcscSpec

=============================================================================
