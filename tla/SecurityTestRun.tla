-------------------------- MODULE SecurityTestRun --------------------------
(***************************************************************************)
(* HCSC's side of a security test: the rows of a run, of its findings and  *)
(* of the security events linked to them, and the HTTP requests that work  *)
(* on those rows (security-test-service.ts).  A request is a Handler; each *)
(* of its database statements or transactions is one action, because every *)
(* await lets the statements of other requests in between.                 *)
(*                                                                         *)
(* The provider is open here: a launch may be answered or refused in any   *)
(* way, and a callback may name any run, provider run id, status and       *)
(* findings.  SelfHostedScan and ManagedScan close it with a real provider.*)
(***************************************************************************)
EXTENDS Naturals, Sequences, FiniteSets

CONSTANTS
    Runs,         \* ids of the SecurityTestRun rows that can be created
    ExtIds,       \* provider run ids (externalRunId)
    Findings,     \* external ids of findings
    Reports,      \* statuses callbacks carry
    Payloads,     \* finding lists a provider can send: [some findings -> Severity]
    DemoPayload,  \* what the demo provider answers a launch with
    Modes,        \* provider modes the deployment has been configured with
    Triages,      \* finding statuses analysts use
    Handlers,     \* requests the server can be working on at once
    MaxFaults,    \* bound on database errors and process crashes
    None

Severity  == {"low", "high"}    \* "high" stands for high and critical
Terminal  == {"completed", "failed", "cancelled"}
Reported  == {"queued", "running"} \union Terminal   \* statuses a provider may report
RunStatus == {"absent"} \union Reported
Mode      == {"demo", "self_hosted", "managed"}
Triage    == {"open", "investigating", "accepted_risk", "remediated", "false_positive"}

ASSUME RunAssumption ==
    /\ IsFiniteSet(Findings)
    /\ None \notin Runs \union ExtIds \union Findings
    /\ \A p \in Payloads \union {DemoPayload} :
          DOMAIN p \subseteq Findings /\ p \in [DOMAIN p -> Severity]
    /\ Reports \subseteq Reported /\ Modes \subseteq Mode /\ Triages \subseteq Triage
    /\ MaxFaults \in Nat

VARIABLES
    run,        \* run[r]: the SecurityTestRun row
    finding,    \* finding[r][f]: the SecurityTestFinding row with that externalId
    event,      \* event[r][f]: the security events created for it, in order
    notices,    \* notices[r]: completion notices sent (audit, members, webhooks); 2 = several
    authorized, \* the target's authorization is active and not expired
    pc,         \* pc[h]: the step a request is at
    req,        \* req[h]: the local variables of a request
    faults      \* faults spent so far

hcscVars == <<run, finding, event, notices, authorized, pc, req, faults>>

EventStatusFor ==
    [open |-> "open", investigating |-> "investigating", accepted_risk |-> "contained",
     remediated |-> "resolved", false_positive |-> "false_positive"]
EventStatus == {EventStatusFor[t] : t \in Triage}

\* own: the status was last written by a request for the event itself, not for the finding.
Event    == [status : EventStatus, own : BOOLEAN]
NewEvent == [status |-> "open", own |-> FALSE]

NotCreated == [provider |-> None, status |-> "absent", ext |-> None,
               count |-> 0, high |-> 0, finished |-> FALSE]
NotStored  == [sev |-> "none", triage |-> "open", event |-> 0]
NoRequest  == [kind |-> "none", run |-> None, ext |-> None, status |-> "absent",
               payload |-> <<>>, seen |-> {}, counted |-> <<>>, notify |-> FALSE,
               todo |-> {}, cur |-> None, triage |-> "open", event |-> 0]

PartialSeverities == UNION {[S -> Severity] : S \in SUBSET Findings}

Row     == [provider : Mode \union {None}, status : RunStatus, ext : ExtIds \union {None},
            count : Nat, high : Nat, finished : BOOLEAN]
FindRow == [sev : Severity \union {"none"}, triage : Triage, event : Nat]
Request == [kind : {"none", "launch", "callback", "triage", "event"}, run : Runs \union {None},
            ext : ExtIds \union {None}, status : RunStatus, payload : PartialSeverities,
            seen : SUBSET Findings, counted : PartialSeverities, notify : BOOLEAN,
            todo : SUBSET Findings, cur : Findings \union {None}, triage : Triage, event : Nat]
Step    == {"idle", "awaitProvider", "launchTx", "launchCatch", "tx", "commit",
            "link", "linkFinding", "notify", "triage", "eventStatus"}

HcscTypeOK ==
    /\ run \in [Runs -> Row]
    /\ finding \in [Runs -> [Findings -> FindRow]]
    /\ event \in [Runs -> [Findings -> Seq(Event)]]
    /\ notices \in [Runs -> 0..2]
    /\ authorized \in BOOLEAN
    /\ pc \in [Handlers -> Step]
    /\ req \in [Handlers -> Request]
    /\ faults \in 0..MaxFaults

HcscInit ==
    /\ run = [r \in Runs |-> NotCreated]
    /\ finding = [r \in Runs |-> [f \in Findings |-> NotStored]]
    /\ event = [r \in Runs |-> [f \in Findings |-> <<>>]]
    /\ notices = [r \in Runs |-> 0]
    /\ authorized = TRUE
    /\ pc = [h \in Handlers |-> "idle"]
    /\ req = [h \in Handlers |-> NoRequest]
    /\ faults = 0

-----------------------------------------------------------------------------
Stored(r) == {f \in Findings : finding[r][f].sev # "none"}

\* Mutation: the findings of the report alone are counted.
MutUpsertedAlone(r, payload) == payload

\* The severities of a run's rows once the rows of a payload are upserted.
Upserted(r, payload) ==
    [f \in Stored(r) \union DOMAIN payload |->
        IF f \in DOMAIN payload THEN payload[f] ELSE finding[r][f].sev]

HighIn(severities) == {f \in DOMAIN severities : severities[f] = "high"}

\* Mutation: an update that also resets the columns an analyst owns.
MutUpsertResets(r, payload) ==
    [f \in Findings |->
        IF f \in DOMAIN payload THEN [finding[r][f] EXCEPT !.sev = payload[f], !.triage = "open"]
                                ELSE finding[r][f]]

\* Mutation: the rows of a run are deleted and those of the report inserted.
MutUpsertReplaces(r, payload) ==
    [f \in Findings |->
        IF f \in DOMAIN payload THEN [finding[r][f] EXCEPT !.sev = payload[f]] ELSE NotStored]

\* An upsert writes the provider's columns and leaves triage and event alone.
UpsertedRows(r, payload) ==
    [f \in Findings |->
        IF f \in DOMAIN payload THEN [finding[r][f] EXCEPT !.sev = payload[f]]
                                ELSE finding[r][f]]

\* Mutation: a run has to be seen running before it can end.
MutTransitionViaRunning(from, to) ==
    \/ from = "queued" /\ to \in {"queued", "running"}
    \/ from = "running" /\ to \in {"running"} \union Terminal
    \/ from \in Terminal /\ to = from

\* allowedRunTransitions
TransitionAllowed(from, to) ==
    \/ from = "queued" /\ to \in Reported
    \/ from = "running" /\ to \in {"running"} \union Terminal
    \/ from \in Terminal /\ to = from

At(h, step)   == pc[h] = step
Goto(h, step) == pc' = [pc EXCEPT ![h] = step]
Respond(h)    == Goto(h, "idle") /\ req' = [req EXCEPT ![h] = NoRequest]

\* The run and its findings are stored; what the request needs from here on.
LinkNext(h, todo) ==
    /\ Goto(h, "link")
    /\ req' = [req EXCEPT ![h] =
          [NoRequest EXCEPT !.kind = req[h].kind, !.run = req[h].run,
                            !.notify = req[h].notify, !.todo = todo]]

-----------------------------------------------------------------------------
(* launchSecurityTestRun *)

\* A launch that gets past the checks of the request, the target and its authorization;
\* one that does not changes nothing.
LaunchStart(h, r, mode) ==
    /\ At(h, "idle")
    /\ authorized
    /\ run[r].status = "absent"
    /\ run' = [run EXCEPT ![r] = [NotCreated EXCEPT !.provider = mode, !.status = "queued"]]
    /\ req' = [req EXCEPT ![h] = [NoRequest EXCEPT !.kind = "launch", !.run = r]]
    /\ Goto(h, "awaitProvider")
    /\ UNCHANGED <<finding, event, notices, authorized, faults>>

\* Mutation: the provider's id is saved as soon as it is known, before the transaction.
MutAnswerSavedEarly(h, ext, status, payload) ==
    /\ At(h, "awaitProvider")
    /\ run' = [run EXCEPT ![req[h].run].ext = ext]
    /\ req' = [req EXCEPT ![h].ext = ext, ![h].status = status, ![h].payload = payload,
                          ![h].notify = (status = "completed")]
    /\ Goto(h, "launchTx")
    /\ UNCHANGED <<finding, event, notices, authorized, faults>>

\* The provider answers: the local variable `result`.
LaunchAnswer(h, ext, status, payload) ==
    /\ At(h, "awaitProvider")
    /\ req' = [req EXCEPT ![h].ext = ext, ![h].status = status, ![h].payload = payload,
                          ![h].notify = (status = "completed")]
    /\ Goto(h, "launchTx")
    /\ UNCHANGED <<run, finding, event, notices, authorized, faults>>

\* provider.launch throws: refused, unreachable, or no answer within 15 s.
LaunchRefused(h) ==
    /\ At(h, "awaitProvider")
    /\ Goto(h, "launchCatch")
    /\ UNCHANGED <<run, finding, event, notices, authorized, req, faults>>

\* One transaction: the run's columns are overwritten whatever they hold by now;
\* createMany inserts (only a demo run has anything to insert, and nothing before).
LaunchTx(h) ==
    LET r == req[h].run  p == req[h].payload IN
    /\ At(h, "launchTx")
    /\ DOMAIN p \intersect Stored(r) = {}
    /\ run' = [run EXCEPT ![r].ext = req[h].ext, ![r].status = req[h].status,
                          ![r].count = Cardinality(DOMAIN p),
                          ![r].high = Cardinality(HighIn(p)),
                          ![r].finished = (req[h].status = "completed")]
    /\ finding' = [finding EXCEPT ![r] = UpsertedRows(r, p)]
    /\ LinkNext(h, {f \in HighIn(Upserted(r, p)) : finding[r][f].event = 0})
    /\ UNCHANGED <<event, notices, authorized, faults>>

\* The catch block of a launch.
LaunchCatch(h) ==
    /\ At(h, "launchCatch")
    /\ run' = [run EXCEPT ![req[h].run].status = "failed", ![req[h].run].finished = TRUE]
    /\ Respond(h)
    /\ UNCHANGED <<finding, event, notices, authorized, faults>>

-----------------------------------------------------------------------------
(* applySecurityTestProviderCallback *)

\* Mutation: the check of the status transition is dropped.
MutAcceptAnyTransition(r, ext, status) ==
    /\ run[r].provider \in {"self_hosted", "managed"}
    /\ run[r].ext \in {None, ext}

\* A callback gets past the 404 and the two 409 answers.
CallbackAccepted(r, ext, status) ==
    /\ run[r].provider \in {"self_hosted", "managed"}
    /\ run[r].ext \in {None, ext}
    /\ TransitionAllowed(run[r].status, status)

\* Mutation: every terminal report is taken for the first one.
MutEndsRun(r, status) == status \in Terminal

\* isTerminal && !wasTerminal
EndsRun(r, status) == status \in Terminal /\ run[r].status \notin Terminal

\* The first query; everything checked and decided here is used two awaits later.
CallbackRead(h, r, ext, status, payload) ==
    /\ At(h, "idle")
    /\ CallbackAccepted(r, ext, status)
    /\ req' = [req EXCEPT ![h] =
          [NoRequest EXCEPT !.kind = "callback", !.run = r, !.ext = ext, !.status = status,
                            !.payload = payload, !.seen = Stored(r),
                            !.notify = EndsRun(r, status)]]
    /\ Goto(h, "tx")
    /\ UNCHANGED <<run, finding, event, notices, authorized, faults>>

\* The transaction up to findMany.  Its upserts lock their rows; read committed
\* hides them from other transactions until it commits.
CallbackCount(h) ==
    LET r == req[h].run IN
    /\ At(h, "tx")
    /\ \A g \in Handlers : At(g, "commit") /\ req[g].run = r =>
          DOMAIN req[g].payload \intersect DOMAIN req[h].payload = {}
    /\ req' = [req EXCEPT ![h].counted = Upserted(r, req[h].payload)]
    /\ Goto(h, "commit")
    /\ UNCHANGED <<run, finding, event, notices, authorized, faults>>

\* Mutation: every high-risk finding of the run is linked, known and linked or not.
MutNewHighRiskAll(h) == HighIn(Upserted(req[h].run, req[h].payload))

\* Mutation: the findings are compared with the rows after the update.
MutNewHighRiskNone(h) ==
    HighIn(Upserted(req[h].run, req[h].payload)) \ (req[h].seen \union DOMAIN req[h].payload)

\* newlyReceivedHighRiskFindings without those that have an event
NewHighRisk(h) ==
    {f \in HighIn(Upserted(req[h].run, req[h].payload)) \ req[h].seen :
        finding[req[h].run][f].event = 0}

\* The update of the run, the final read of the transaction and its commit.
CallbackCommit(h) ==
    LET r == req[h].run  p == req[h].payload  counted == req[h].counted IN
    /\ At(h, "commit")
    /\ run' = [run EXCEPT ![r].ext = req[h].ext, ![r].status = req[h].status,
                          ![r].count = Cardinality(DOMAIN counted),
                          ![r].high = Cardinality(HighIn(counted)),
                          ![r].finished = req[h].status \in Terminal]
    /\ finding' = [finding EXCEPT ![r] = UpsertedRows(r, p)]
    /\ LinkNext(h, NewHighRisk(h))
    /\ UNCHANGED <<event, notices, authorized, faults>>

-----------------------------------------------------------------------------
(* linkHighRiskSecurityTestFindings, then the closing notices *)

CreateEvent(h, f) ==
    LET r == req[h].run IN
    /\ At(h, "link")
    /\ f \in req[h].todo
    /\ event' = [event EXCEPT ![r][f] = Append(@, NewEvent)]
    /\ req' = [req EXCEPT ![h].cur = f, ![h].event = Len(event[r][f]) + 1]
    /\ Goto(h, "linkFinding")
    /\ UNCHANGED <<run, finding, notices, authorized, faults>>

LinkFinding(h) ==
    /\ At(h, "linkFinding")
    /\ finding' = [finding EXCEPT ![req[h].run][req[h].cur].event = req[h].event]
    /\ req' = [req EXCEPT ![h].todo = @ \ {req[h].cur}, ![h].cur = None, ![h].event = 0]
    /\ Goto(h, "link")
    /\ UNCHANGED <<run, event, notices, authorized, faults>>

LinkDone(h) ==
    /\ At(h, "link")
    /\ req[h].todo = {}
    /\ IF req[h].notify THEN Goto(h, "notify") /\ UNCHANGED req ELSE Respond(h)
    /\ UNCHANGED <<run, finding, event, notices, authorized, faults>>

OneMoreNotice(r) == [notices EXCEPT ![r] = IF @ = 2 THEN 2 ELSE @ + 1]

\* Audit entry, member notifications and integration dispatch.
Notify(h) ==
    /\ At(h, "notify")
    /\ notices' = OneMoreNotice(req[h].run)
    /\ Respond(h)
    /\ UNCHANGED <<run, finding, event, authorized, faults>>

-----------------------------------------------------------------------------
(* updateSecurityTestFindingStatus, and the requests that change an event's status *)

TriageRead(h, r, f, t) ==
    /\ At(h, "idle")
    /\ f \in Stored(r)
    /\ req' = [req EXCEPT ![h] = [NoRequest EXCEPT !.kind = "triage", !.run = r, !.cur = f,
                                                  !.triage = t, !.event = finding[r][f].event]]
    /\ Goto(h, "triage")
    /\ UNCHANGED <<run, finding, event, notices, authorized, faults>>

\* Mutation: the event that is linked to the finding is left as it is.
MutTriageFindingOnly(h) ==
    /\ At(h, "triage")
    /\ finding' = [finding EXCEPT ![req[h].run][req[h].cur].triage = req[h].triage]
    /\ Respond(h)
    /\ UNCHANGED <<run, event, notices, authorized, faults>>

TriageWrite(h) ==
    /\ At(h, "triage")
    /\ finding' = [finding EXCEPT ![req[h].run][req[h].cur].triage = req[h].triage]
    /\ IF req[h].event # 0 THEN Goto(h, "eventStatus") /\ UNCHANGED req ELSE Respond(h)
    /\ UNCHANGED <<run, event, notices, authorized, faults>>

\* Mutation: the event gets the finding's status word instead of its own.
MutEventStatusUnmapped(h) ==
    /\ At(h, "eventStatus")
    /\ event' = [event EXCEPT ![req[h].run][req[h].cur][req[h].event].status =
                                  req[h].triage]
    /\ Respond(h)
    /\ UNCHANGED <<run, finding, notices, authorized, faults>>

\* The status route of an event (updateSecurityEventStatus, updateEventStatusWithEngine) or
\* a playbook (executePlaybookWithEngine) reads the event and sets the status later.  The
\* finding the event is linked to is not looked at.
EventRead(h, r, f, n, t) ==
    /\ At(h, "idle")
    /\ n \in 1..Len(event[r][f])
    /\ req' = [req EXCEPT ![h] = [NoRequest EXCEPT !.kind = "event", !.run = r, !.cur = f,
                                                  !.triage = t, !.event = n]]
    /\ Goto(h, "eventStatus")
    /\ UNCHANGED <<run, finding, event, notices, authorized, faults>>

EventUpdated(h) ==
    [status |-> EventStatusFor[req[h].triage], own |-> (req[h].kind = "event")]

\* The update of an event that was read before: for the finding that was linked to it
\* then, or for the event itself.
WriteEventStatus(h) ==
    /\ At(h, "eventStatus")
    /\ event' = [event EXCEPT ![req[h].run][req[h].cur][req[h].event] = EventUpdated(h)]
    /\ Respond(h)
    /\ UNCHANGED <<run, finding, notices, authorized, faults>>

-----------------------------------------------------------------------------
(* Faults and time *)

\* A request that fails while it announces the end of a run may have announced it.
NoticesMaybeOut(h) ==
    \/ UNCHANGED notices
    \/ At(h, "notify") /\ notices' = OneMoreNotice(req[h].run)

\* A statement of a launch throws inside its try block.
LaunchError(h) ==
    /\ faults < MaxFaults
    /\ req[h].kind = "launch"
    /\ pc[h] \in {"launchTx", "link", "linkFinding", "notify"}
    /\ Goto(h, "launchCatch")
    /\ faults' = faults + 1
    /\ NoticesMaybeOut(h)
    /\ UNCHANGED <<run, finding, event, authorized, req>>

\* The process dies, or a request that has no catch block throws: what it has
\* committed stays, an open transaction is rolled back.
Crash(h) ==
    /\ faults < MaxFaults
    /\ pc[h] # "idle"
    /\ Respond(h)
    /\ faults' = faults + 1
    /\ NoticesMaybeOut(h)
    /\ UNCHANGED <<run, finding, event, authorized>>

\* Looked at only by launches, so only while there are launches to come.
AuthorizationExpires ==
    /\ authorized
    /\ \E r \in Runs : run[r].status = "absent"
    /\ authorized' = FALSE
    /\ UNCHANGED <<run, finding, event, notices, pc, req, faults>>

-----------------------------------------------------------------------------
\* The steps of a request that need nothing from outside the server.
OwnStep(h) ==
    \/ LaunchTx(h) \/ LaunchCatch(h)
    \/ CallbackCount(h) \/ CallbackCommit(h)
    \/ \E f \in Findings : CreateEvent(h, f)
    \/ LinkFinding(h) \/ LinkDone(h) \/ Notify(h)
    \/ TriageWrite(h) \/ WriteEventStatus(h)

Fault(h) == LaunchError(h) \/ Crash(h)

DemoAnswer(h, ext) ==
    /\ At(h, "awaitProvider")
    /\ run[req[h].run].provider = "demo"
    /\ LaunchAnswer(h, ext, "completed", DemoPayload)

\* A live provider never answers a launch with findings.
LiveAnswer(h, ext, status) ==
    /\ At(h, "awaitProvider")
    /\ run[req[h].run].provider # "demo"
    /\ LaunchAnswer(h, ext, status, <<>>)

\* What the provider, the analysts and the operators may ask for.
Outside(h) ==
    \/ \E r \in Runs, mode \in Modes : LaunchStart(h, r, mode)
    \/ \E ext \in ExtIds : DemoAnswer(h, ext)
    \/ \E ext \in ExtIds, status \in {"queued", "running", "completed"} :
          LiveAnswer(h, ext, status)
    \/ LaunchRefused(h)
    \/ \E r \in Runs, ext \in ExtIds, status \in Reports, p \in Payloads :
          CallbackRead(h, r, ext, status, p)
    \/ \E r \in Runs, f \in Findings, t \in Triages : TriageRead(h, r, f, t)
    \/ \E r \in Runs, f \in Findings, t \in Triages :
          \E n \in 1..Len(event[r][f]) : EventRead(h, r, f, n, t)

HcscNext ==
    \/ \E h \in Handlers : OwnStep(h) \/ Fault(h) \/ Outside(h)
    \/ AuthorizationExpires

HcscSpec == HcscInit /\ [][HcscNext]_hcscVars

-----------------------------------------------------------------------------
(* What holds however the requests interleave and wherever they stop *)

\* What a request at work may rely on, whatever other requests did since it began: the
\* run and the finding it works on exist, the event it is about to link or update was
\* created for that finding, a callback never works on a demo run, and the rows it has
\* counted are rows that exist or its own.
RequestOK(h) ==
    LET q == req[h]  r == q.run IN
    /\ ~At(h, "idle") => r \in Runs /\ run[r].status # "absent"
    /\ At(h, "launchTx") => /\ q.ext # None
                            /\ q.status \in {"queued", "running", "completed"}
                            /\ run[r].provider = "demo" => q.payload = DemoPayload
    /\ pc[h] \in {"tx", "commit"} => /\ q.ext # None /\ q.status \in Reported
                                     /\ run[r].provider # "demo"
    /\ At(h, "commit") => DOMAIN q.counted \subseteq Stored(r) \union DOMAIN q.payload
    /\ pc[h] \in {"linkFinding", "triage", "eventStatus"} =>
          q.cur \in Findings /\ q.event <= Len(event[r][q.cur])
    /\ At(h, "linkFinding") => q.event # 0

RequestsConsistent ==
    /\ \A r \in Runs : run[r].status = "absent" =>
          run[r] = NotCreated /\ Stored(r) = {} /\ \A f \in Findings : event[r][f] = <<>>
    /\ \A h \in Handlers : RequestOK(h)

\* A run has an end time exactly when it has ended, although four statements of two
\* handlers write the pair, each from what its own request knows.
FinishedIffTerminal ==
    \A r \in Runs : run[r].finished <=> run[r].status \in Terminal

\* The run row never claims more findings than there are rows, whichever overlapping
\* transaction counted them and whichever wrote its count last.
CountNeverExceedsStored ==
    \A r \in Runs : run[r].count <= Cardinality(Stored(r))

\* A finding is never linked to a security event that was not created for it, even when
\* two requests create one each and overwrite each other's link.
LinkedEventExists ==
    \A r \in Runs, f \in Findings : finding[r][f].event <= Len(event[r][f])

\* Together: the row of a run, its findings and their events agree with each other in
\* whatever order the requests that write them read, count and commit.
RowsAgree == FinishedIffTerminal /\ CountNeverExceedsStored /\ LinkedEventExists

\* A demo run that has got its provider id has all its synthetic findings: the launch
\* writes both in one transaction and no callback can touch the run.
DemoRunCarriesFindings ==
    \A r \in Runs : run[r].provider = "demo" /\ run[r].ext # None =>
        DOMAIN DemoPayload \subseteq Stored(r)

\* An analyst's decision on a finding changes only by a request of an analyst for that
\* finding: no callback, repeated or late, reopens it.
TriageOnlyByAnalyst ==
    [][\A r \in Runs : \A f \in Findings :
          finding[r][f].triage # finding'[r][f].triage =>
              \E h \in Handlers : /\ pc[h] = "triage" /\ pc'[h] # "triage"
                                   /\ req[h].run = r /\ req[h].cur = f]_hcscVars

\* Findings, their event links and the provider's run id are never lost again.
NothingForgotten ==
    [][\A r \in Runs :
          /\ Stored(r) \subseteq Stored(r)'
          /\ run[r].ext # None => run'[r].ext # None
          /\ \A f \in Findings : finding[r][f].event # 0 => finding'[r][f].event # 0]_hcscVars

-----------------------------------------------------------------------------
(* What holds as long as requests do not overlap and none of them fails *)

\* Every high-risk finding that is stored is linked to a security event in the end.
HighRiskEventuallyLinked ==
    \A r \in Runs, f \in Findings :
        finding[r][f].sev = "high" ~> finding[r][f].event # 0

Quiet == \A h \in Handlers : At(h, "idle")

\* isSecurityTestRunTransitionAllowed governs every change of a stored status.
StatusFollowsPolicy ==
    [][\A r \in Runs : run[r].status \notin {"absent", run'[r].status} =>
          TransitionAllowed(run[r].status, run'[r].status)]_hcscVars

\* A run that has ended keeps the status it ended with.
EndedRunStaysEnded ==
    [][\A r \in Runs : run[r].status \in Terminal => run'[r].status = run[r].status]_hcscVars

\* No finding gets a second security event, however often a callback is sent.
OneEventPerFinding ==
    \A r \in Runs, f \in Findings : Len(event[r][f]) <= 1

\* Between requests, every high-risk finding is linked to an event.
HighRiskLinked ==
    Quiet => \A r \in Runs, f \in Findings :
        finding[r][f].sev = "high" => finding[r][f].event # 0

\* Between requests, the counters of a run are those of its findings.
CountsExact ==
    Quiet => \A r \in Runs :
        /\ run[r].count = Cardinality(Stored(r))
        /\ run[r].high = Cardinality({f \in Stored(r) : finding[r][f].sev = "high"})

\* Between requests, the end of a run has been announced at most once and only if it
\* ended, and exactly once if it completed or was cancelled (a run that failed may have
\* failed in its launch, which announces nothing).
NoticeOncePerEndedRun ==
    Quiet => \A r \in Runs :
        /\ notices[r] <= 1
        /\ notices[r] = 1 => run[r].status \in Terminal
        /\ run[r].status \in {"completed", "cancelled"} => notices[r] = 1

\* Between requests, a linked event shows the analyst's decision on the finding, unless
\* its status was last written for the event itself: the event's own routes and playbooks
\* change the status and leave the finding as it is, so from then on the two may differ,
\* until the next decision on the finding sets both again.
EventMirrorsFinding ==
    Quiet => \A r \in Runs, f \in Findings :
        LET linked == event[r][f][finding[r][f].event] IN
        finding[r][f].event # 0 /\ ~linked.own =>
            linked.status = EventStatusFor[finding[r][f].triage]
=============================================================================
