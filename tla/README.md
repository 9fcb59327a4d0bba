# TLA+ models of the Hybrid Cloud Security Console

HCSC is a Next.js application over PostgreSQL (Prisma), with a separate Node
process, the Strix runner, that scans targets on its behalf. This directory holds
specifications of its core, configurations that check them with TLC, and theorems
checked by TLAPS. Paths below are relative to the repository.

    tlc -workers 2 -config MCSerialRequests.cfg MCSerialRequests      # a run
    tlapm SecurityTestRunProofs.tla                                   # proofs

## The system

Every HTTP request is an async handler. A Prisma call is atomic, a `$transaction`
is a read-committed transaction, and each `await` lets statements of other
requests in between: this, not threads, is where the program is concurrent. A
handler has no catch block around most of its statements, so a failing statement
or a dying process leaves behind whatever was committed before.

| Component | State | Operations | Hard part | Must hold |
|---|---|---|---|---|
| **Security tests** `src/server/services/security-testing/` | runs, findings, links to security events | launch, callback, overview (polls), triage | interleavings, late answers, repeated callbacks, partial failure | statuses, counters, links and notices stay consistent; no finding is lost |
| **Strix runner** `services/strix-runner/server.mjs` | job map, queue, `workerActive`, all in memory | POST /v1/scans, worker, report with retries | lost reports, restarts | each job is taken once, in order, and ends |
| **Sessions, 2FA, recovery codes, password reset** `src/server/auth/`, `src/app/api/auth/` | sessions, secrets, codes, tokens | login, verify, enrol, reset, revoke | stale reads, replay, revocation racing verification | a code or token passes one request; what closes an account's sessions closes all of them |
| **Rate limiting** `src/server/auth/rate-limit.ts` | windows, in memory or Redis | consume | non-atomic pipeline, lost answers, expiry | a window that is full opens again |
| **Team and administration** `src/server/team/`, `src/server/admin/` | memberships, invites, user status | invite, accept, revoke, change role, remove, suspend | check-then-act, advisory lock | a workspace keeps an administrator; an invite is accepted once |
| **Domains** `src/server/integrations/domain-service.ts` | connected domains | add, connect, check | limit check, stale rows written back | active only for the zone that passed the check |
| **Webhooks** `src/server/integrations/` | endpoints, last delivery | create, delete, dispatch in batches | deletion during delivery | a dead endpoint blocks nobody |
| **Engines** `src/server/services/engines/`, `deception/` | events, identities, assets, access requests | playbooks, access decisions, triggers, risk, compliance, reports | read-modify-write without transactions, requests that stop half-way | isolation is not undone, a repeated request leaves one record and one score |
| **Notifications, audit, mail, health** | append-only rows | write | I/O only | |
| **Console store** `src/store/security-console-store.ts` | the browser's copy of the data, the session it believes in, indicators | hydrate, log in and out, write, simulate | overlapping awaits, answers for a user who has left, the demo fallback | server data are the user's own and up to date; indicators end |
| **Pages, scripts, seed** `src/app`, `src/components`, `scripts`, `prisma` | | | no state of their own | |

How they interact: a launch calls the provider over HTTP; the runner calls back to
`/api/adversary-validation/provider/callback`; for the managed API the overview
page polls instead and applies what it gets through the same function; applying a
report creates security events, and each of those dispatches webhooks *within the
request*, which is why the runner's timeout of 15 seconds can really expire while
the request is at work.

## Modules

**SecurityTestRun** is HCSC's side (`security-test-service.ts`). `run[r]`,
`finding[r][f]` and `event[r][f]` are rows; `pc[h]` and `req[h]` are the position
and the local variables of a request `h`. One action is one database statement or
transaction:

- launch: `LaunchStart` (guards, insert), `LaunchAnswer` or `LaunchRefused`
  (the provider), `LaunchTx` (its transaction), then the link loop and the notices,
  and `LaunchCatch`;
- callback: `CallbackRead` (the row on which everything is decided),
  `CallbackCount` (upserts and `findMany`), `CallbackCommit` (update of the run and
  commit). A transaction has two steps because under read committed another one can
  commit in between; row locks of the upserts are the guard of `CallbackCount`;
- links: `CreateEvent` and `LinkFinding`, once per finding;
- triage: `TriageRead`, `TriageWrite` and, for a linked finding, `WriteEventStatus`;
- an event's own status: `EventRead`, `WriteEventStatus`. The event routes
  (`updateEventStatusWithEngine`, `updateSecurityEventStatus`) and the playbooks set the
  status of an event whatever finding it belongs to, and leave the finding as it is;
  `own` marks an event they wrote last;
- faults: `LaunchError` (a statement in the launch's try block throws) and `Crash`
  (anything else that ends a request, the process included).

SelfHostedScan keeps of the analyst's requests only the triage, ManagedScan none: nothing
they promise depends on an event's status.

The provider is open: answers and callbacks are arbitrary, so what holds here holds
for every provider. Severities are reduced to high (high and critical) and low.
Text, costs, metadata and audit entries are left out; `notices` counts the closing
announcements and stops at two, which stands for several. The status `blocked`
occurs in the policy table but is written by no code.

**StrixRunner** is the runner. `phase` is the `await` the worker is at; between two
awaits a Node process runs alone, so `TakeNext` includes everything up to `mkdtemp`.
What becomes of a report is open: acknowledged, rejected, or failed and retried.
`issued` is history: `randomUUID` repeats no id, not even after a restart.

**SelfHostedScan** composes the two (EXTENDS both; job ids are provider run ids).
`posted` is the launch POST, `exchange` the one report in flight. `LaunchTimesOut`
and `ReportTimesOut` are the 15-second limits: the side that waited goes on and the
other side does not notice, so a report can be served twice at once.

**ManagedScan** composes SecurityTestRun with the managed API. `scan` is the API's
state, which is not part of the repository: it is modelled from what
`managed-strix-provider.ts` sends and accepts (a status, a growing list of
vulnerabilities). `poll[h]` is an overview request between reading the run, fetching
its scan and applying the result. The API is assumed not to answer the creation of a
scan with `completed`: HCSC would store such a run without findings and never poll it.

**Account** is one user account: `user`, `secret`, `session`, `code` and `link` are its
rows; `pc[h]` and `req[h]` the position of a request and what it has read. Each route
is the statements it makes: `ReadSession` and `ReadMembership` are `getSessionContext`,
through which every route but login and the two password routes goes, with its own
writes `MarkExpired` and `RevokeSession`; `Endpoint` is what the route then decides
*on the rows read before*; `Persist` is `persistSuccessfulTwoFactorVerification`,
`FindCode`/`ClaimCode` and `CountCodes`/`WipeCodes`/`IssueCodes`/`Regenerate` the
recovery codes, `DropLinks`/`CreateLink`/`ReadLink`/`ChangePassword` the password
links. `ChangeStatus`, `WriteStatus`, `CloseSessions`, `LoseAdminRole` and
`LeaveWorkspace` are what the administration and the team service do to it. Time is
the TOTP step and the set `over` of what has expired.

**OneShot** is the abstract promise of a code or a link: issued, let at most one
request pass, or withdrawn. `Account` implements it (`OneShotTokens`, a refinement
mapping of both tables, checked as `CodesAndLinksPassOnce`).

**Team** is one workspace: membership rows, invites, the advisory lock, and users
suspended from outside (`SetAccountStatus`). A role change or removal is `ReadMember`,
`CountAdmins`, `TakeLock`, `Recheck`, `WriteMember`; only the last three are in its
transaction. `joins` tells a membership from a later one of the same user.

**ConsoleStore** is the browser's store with an abstract server behind it. Data are
reduced to what tells them apart: where part `p` comes from, whose it is, and the
writes it contains. An operation is the awaits it passes: `ServeWrite`,
`WriteAnswered`, `WriteFails` (with the local form where a demo build allows one), a
hydration (`Refresh`, `ReadPart` per collection, `HydrationLands`, `HydrationFails`),
the session (`BootStart`, `LoginStart`, `VerifyStart`, `LogoutStart`, `ServeSession`
and their outcomes). `AtLogin`, `AtVerify` and `InViews` are the redirects that decide
what the user can start where. `allow` is the build's choice of the local fallback.
The collections are of three kinds. Most are `Required`: the hydration fails with the read
of one. The simulations and their runs are `Optional`: a failed `getSimulations` is caught,
and the hydration lands with what the environment shows at that moment (`KeepPart`). Policy
rules, threats, controls and layers are `Foundation`: no hydration reads them, and `Bundle`
puts what was read over their sample. `Derived` are the events, put in order, and what
`deriveEnvironment` works out from them after any local change. Local changes that ask
`allowDemoFallback` are `LocalChange`, `StartDemo` and the local forms of the writing
operations; `createEvent` (called by no page) and the local form of `completeOnboarding` do
not ask, so what they leave is `"unguarded"`.
One tab is modelled. Worth knowing, all of it in the model: after the setup of a
second factor `hydrateAuthSession` does nothing; `resetDemoData` leaves the tab
unhydrated until a reload; a hydration in flight at logout brings the old user's data
back; `completeOnboarding` falls back to the demo also in API mode.

**Response** is one organization's engines: access decisions, playbooks, simulated and
real accesses to a deception asset, and the analyst's changes. A request keeps what it
read in `work[h]` and never reads it again. The risk score is any decision, except
that an isolated identity is always isolated again.

**RiskEngines** is one asset, the identity that asks for it, the access requests and the
security events about them, with the arithmetic of the scores. `Recalculate*` is the
risk of the asset (`AssetRisk`), `Evaluat*` the decision on a request (`AccessRisk`,
`Verdict`) with the event it finds or creates, `Update*` a change in the inventory with
its own score (`InventoryRisk`) and its own thresholds for the same two columns;
`AlarmRaised` is the event either raises at a high level. `alone`, `again`, `moved` and
`last` are history. What the model makes visible: after the posture has improved, the
first evaluation of an isolated request still counts the request's own critical event,
and only the second is as mild as it can be; every recalculation at a high level raises
an event that raises the next; a false positive counts as open. Response leaves the
score open and has all that happens to the rows; RiskEngines has the score.

**Domains** is a domain's row, DNS and Cloudflare around it, and requests that read the
row, ask outside and write it back. **RateLimit** is the pipeline INCR, PEXPIRE NX,
PTTL, whose commands other pipelines interleave with and any of which may fail, and the
in-memory windows that stand in for it outside production.

**...Proofs** modules hold the theorems about the module they EXTEND (see Proofs).
**MC...** modules choose constants. **Mut...** operators in the component modules
are mutations: each is a plausible mistake in the operation it stands before, and
with it in place of that operation the property named with it in `PROJECT.json` is
violated. No specification uses them.

## Runs

| Run | Question | Bounds | States |
|---|---|---|---|
| `MCSerialRequests` | Is everything exact when requests do not overlap, whatever the provider sends? | 1 run, 2 findings, 2 provider ids, all statuses, 1 request at a time | 38 000 |
| `MCOverlappingRequests` | What survives overlap and failure? | 1 run, 2 findings, 2 requests (symmetric), 1 fault | 2 190 000 |
| `MCStrixRunner` | Does the worker take every job once, in order, and finish it? | 3 scans, 3 ids, 1 restart | 18 000 |
| `MCSelfHostedScan` | Do HCSC and the runner agree? | 1 scan, 1 finding, 2 requests, 1 fault, 1 lost answer, 1 restart | 330 000 |
| `MCManagedScan` | Do overlapping polls settle? | 1 scan, 1 finding, 2 requests, 1 fault, 1 loss | 73 000 |
| `MCAccount` | What of an account survives overlapping requests? | 2 sessions, 2 codes, 2 links, 3 requests (2 at a time), 1 fault, 1 expiry | 890 000 |
| `MCTeam` | Does a workspace keep its administrator? | 3 users, 2 invites (1 may be pending from the start), 3 requests (2 at a time), 1 fault | 2 700 000 |
| `MCConsoleStore` | Does the console show what it should? | 2 users, 3 collections (one of each kind), 2 kinds of write, 5 acts (2 at a time), 1 write | 2 840 000 |
| `MCServices` | Engines, scores, domains, rate limits, one at a time | 1 identity, 1 access request, 2 events, 3 requests; 2 kinds of asset, 2 access requests, 3 events, 3 requests (2 at a time), 1 change from outside; 1 domain, 2 zones, 5 requests; 1 window of 2 ticks, 2 requests | 1 290 000 |

Why the bounds are enough: rows of different runs share nothing but the request
slots, so one run shows what can happen to it; two requests are what every race
here takes (a third one can only repeat the second); two findings let a report
touch one row and leave another; a second fault repeats the first from a state
that the first has already reached. The runner needs three jobs to have two waiting.
Symmetry is used for requests, and in `MCAccount` and `MCTeam` for the rows that nothing
tells apart (sessions, codes, links, invites), in runs without liveness properties.
An account needs two sessions so that one is closed while the other is opened, and two
links or sets of codes so that one supersedes the other; a workspace needs two members
who can each be the other's last fellow administrator, and the owner, who cannot be
suspended. One write to the console is enough to be lost, and each kind of collection
behaves in its own way, whatever others there are; the writes tried are one that has a
local form and patches the environment and one that does neither and turns the demo on
(a third, with a local form only, takes no step that the first does not). The limit of 50
domains is 1, and a rate limit of n requests is 1: both are only compared with. The engines need two events, one found again and one created
beside it. The scores are tried on an internal and a critical asset, the two access requests
between them come to every decision but the mildest, and the weight of an open critical
event is the one a workspace starts with or 50. `MCServices` runs four modules in one
run; each of its behaviours belongs to one of them (`part`).

*Serial.* `CountsExact`, `HighRiskLinked`, `NoticeOncePerEndedRun`,
`EventMirrorsFinding` hold between requests; `OneEventPerFinding` and
`StatusFollowsPolicy` always. They are the promises the code keeps when nothing
overlaps, and each is broken by some overlap. `EventMirrorsFinding` excepts events whose
own status was changed last (`own`): the event routes and the playbooks do not touch the
finding, so the two disagree from then on until the finding is triaged again, also when
nothing overlaps.
*Overlapping.* These hold regardless: `RowsAgree` (a run has an end time exactly when it
has ended; its count may be too low after a race, never too high; no link dangles),
`DemoRunCarriesFindings`, `TriageOnlyByAnalyst`, `NothingForgotten`.
*Runner.* `QueuedJobsWait`, `StartedInOrder`, `JobsSettle`, and `ReportMatchesJob`: what is
reported is what is recorded for the job, Strix runs only while its job is recorded as
running, and the catch block reports failures only. That Strix waits until HCSC has
acknowledged the job is a property of both sides, `ScanRunsOnlyRecorded`.
*Self-hosted.* `ScanRunsOnlyRecorded` (Strix is started only for a job whose id HCSC
has stored), `AcknowledgedFindingsStored` and `OutcomeArrives`.
*Managed.* `CompletedRunHasAllFindings`, `ManagedRunSettles`,
`HighRiskLinkedUnlessFault`.
*Account.* `CodesAndLinksPassOnce` holds whatever overlaps. `CodeAcceptedOnce` holds
unless two requests that check codes overlap (replay protection compares with a step
read before the update, so two requests at once both pass); `OldPasswordOpensNothing`
and `SuspendedAccountIsClosed` hold unless a request that opens a session was under
way when the sessions were closed (verification makes a session active whatever has
become of it, and a login creates one after it checked the password). The history
variables `overlapped` and `raced` delimit exactly these races: dropping either makes
the property fail.
*Team.* `SomeAdminRemains` always, thanks to the lock. The recount under the lock
counts suspended administrators too, so that the last *active* one stays only if
nobody else changes a member meanwhile (`ActiveAdminRemains`). `InvitesSettle` while
requests about invites do not overlap: one pending invite per address, used once if
accepted and never if not, and one that was accepted, revoked or expired is never changed
again. With overlaps this is not so: accepting and revoking both update the row
unconditionally.
*Console.* `IndicatorsEnd` always. `ApiModeShowsServerData`: of the required collections
none is a sample, and none was changed by an operation that asks `allowDemoFallback`. It says
nothing of the others, because it could not: after a failed `getSimulations` the console is in
API mode with the sample's or an older run list, the foundation is always the sample, and
`createEvent` and onboarding completed offline change the data in API mode too.
`DataBelongToUser` in production builds, for all collections, kept and locally changed ones
included, unless the session changed while data were read. `SavedIsShown` for the required
collections that nothing here has changed since, unless two hydrations overlapped, the older
of which may land last; a saved run may be missing without any error. It speaks of
the data of the user signed in: in a demo build one can sign in locally as one user while
the cookie is still another's, and a later hydration then shows the other's data.
*Services.* `IsolationHolds` (an engine undoes an isolation only if it read the
identity before it was isolated), `PlaybookTookEffect` (also when a request stopped
half-way and was repeated), `RecordedOnce` and `ActiveAsChecked` (when requests do not
overlap), `EnginesOnlyTighten` and `RepeatsAgree` (engines that run again and again on
unchanged inputs neither relent nor change a decision, although they count the events
they raise themselves), `RateWindowsReopen` (a counter that lost its expiry to a failed command gets
one from the next request, and asking while refused does not put off the end).

Deadlock is not checked: every bounded system here ends with nothing left to do.

### Disagreements

Three runs show that the program does what a test or a document of the repository
says it does not.

- `MCSelfHostedLaunchRace`: a run that has ended goes back to queued
  (`EndedRunStaysEnded`). The launch transaction does not look at the status a
  callback has stored meanwhile.
- `MCSelfHostedResend`: a report sent again makes a second event for the same
  finding (`ResentReportAddsNoEvent`).
- `MCSelfHostedCrash`: a request that stops after its commit leaves a high-risk
  finding unlinked for good (`HighRiskEventuallyLinked`).

## Fairness

Safety needs none. `RunnerFairness`: every await of the worker ends; a fetch and a
timer do by themselves, Strix is *assumed* to exit, because `runStrix` sets no limit.
`ScanFairness`: a request that has begun goes on (weak fairness per request), an
accepted launch is answered, and reports reach HCSC (strong fairness, because
analysts' requests may occupy the slots again and again). `ManagedFairness`: the API
ends every scan and somebody keeps opening the overview, the only way the code has
to learn of an outcome. `RateFairness`: time passes, and somebody who asks goes on
asking until all windows have answered. Nothing forces launches, triage, faults, losses or restarts.

## Proofs

Every theorem holds for any sets of runs, users, requests, codes and so on, and any
number of faults, losses and restarts, but for the two hypotheses named here. The
theorems marked (1) assume `SerialRequests`: no two requests (any two handlers are the
same) and no fault. That is what the properties promise; the runs on overlapping
requests and `MCSelfHostedResend`, `MCSelfHostedCrash` show what becomes of them
otherwise. (2) also assumes `FixedSeverities`: the provider always reports a finding with the
same severity. A finding whose severity a later callback raises is in
`existingExternalIds` and is never linked, so the property would be false; the
payloads of `MCSerialRequests` have fixed severities too. Each module EXTENDS the module
it is about, `ServicesProofs` those about Domains, RiskEngines and Response.

| Module | Theorem | Property |
|---|---|---|
| `SecurityTestRunProofs` | `TypeCorrect` | `HcscTypeOK` |
| | `RequestsStayConsistent` | `RequestsConsistent` (part of the invariant, in no run) |
| | `LinksSound`, `FinishedSound`, `CountsBounded` | the parts of `RowsAgree` |
| | `RowsAlwaysAgree` | `RowsAgree` |
| | `DemoRunsComplete` | `DemoRunCarriesFindings` |
| | `TriageKept` | `TriageOnlyByAnalyst` |
| | `StorageLasts` | `NothingForgotten` |
| | `OneEventEach` (1) | `OneEventPerFinding` |
| | `CountsStayExact` (1) | `CountsExact` |
| | `EndAnnouncedOnce` (1) | `NoticeOncePerEndedRun` |
| | `EventsMirror` (1) | `EventMirrorsFinding` |
| | `PolicyFollowed` (1) | `StatusFollowsPolicy` |
| | `HighRiskAlwaysLinked` (1, 2) | `HighRiskLinked` |
| `StrixRunnerProofs` | `RunnerTypeCorrect` | `RunnerTypeOK` |
| | `JobsTakenOnce` | `QueuedJobsWait` |
| | `ReportsAreTrue` | `ReportMatchesJob` |
| | `JobsStartInOrder` | `StartedInOrder` |
| `SelfHostedScanProofs` | `ScanImplementsHcsc` | the specification `HcscSpec` |
| | `ScanImplementsRunner` | `RunnerSpec` without its fairness |
| | `StrixOnlyForRecorded` | `ScanRunsOnlyRecorded` |
| | `AcknowledgedStored` | `AcknowledgedFindingsStored` |
| `ManagedScanProofs` | `ManagedImplementsHcsc` | the specification `HcscSpec` |
| | `CompletedRunsFull` | `CompletedRunHasAllFindings` |
| `AccountProofs` | `AccountTypeCorrect` | `AccountTypeOK` |
| | `AccountImplementsOneShot` | `CodesAndLinksPassOnce` (the refinement) |
| | `TokensPassOnce` | `OneShotTokens!OneShotInv` (what the abstract promise says of a code or link) |
| | `OldPasswordIsShutOut` | `OldPasswordOpensNothing` |
| | `SuspensionHolds` | `SuspendedAccountIsClosed` |
| | `CodesAcceptedOnce` | `CodeAcceptedOnce` |
| `TeamProofs` | `TeamTypeCorrect` | `TeamTypeOK` |
| | `AdministratorStays` | `SomeAdminRemains` |
| | `ActiveAdministratorStays` | `ActiveAdminRemains` |
| | `InvitesPrepared` | `SettledInv` (the invariant behind the next) |
| | `InvitesSettleAlone` | `InvitesSettle` |
| `ConsoleStoreProofs` | `StoreTypeCorrect` | `StoreTypeOK` (in no run) |
| | `IndicatorsAlwaysEnd` | `IndicatorsEnd` |
| | `ApiModeIsServerData` | `ApiModeShowsServerData` |
| | `DataStayTheUsers` | `DataBelongToUser` |
| | `SavedWritesShown` | `SavedIsShown` |
| `ServicesProofs` | `ActiveDomainsWereChecked` | `ActiveAsChecked` |
| | `EnginesTighten` | `EnginesOnlyTighten` |
| | `RepeatsDecideAlike` | `RepeatsAgree` |
| | `RecordedPlaybooksTookEffect` | `PlaybookTookEffect` |
| | `IsolationIsKept` | `IsolationHolds` |
| | `OneRecordEach` | `RecordedOnce` |

Assumptions: `RunAssumption` (findings are finitely many, payloads map findings to
severities, `None` is no id), `RunnerAssumption`, `ScanAssumption` (the runner's ids are
HCSC's, a scan may find nothing), `ManagedAssumption`, `AccountAssumption`,
`TeamAssumption`, `StoreAssumption`, `DomainAssumption`, `ResponseAssumption` and
`RiskAssumption` (bounds are numbers, constants that stand for nothing are no members of
the sets they are compared with), `NoneAssumption`, `NoRowAssumption` and
`IdleAssumption` (nor are they rows or local variables), and `InputAssumption` (what
RiskEngines tries is what the schemas of the API accept). TLC evaluates each in the
runs of its module.

**SecurityTestRun.** The inductive invariant is `HcscInv == HcscTypeOK /\
RequestsConsistent /\ LinkedEventExists`. Types alone are not inductive: a request writes
to the row its local variable names, and only consistency says there is one. Consistency
of a triage request needs sound links, because it will update the event it has read from
the finding; sound links need the consistency of a linking request, which will store the
number of the event it has created. The steps: `TypeNext` (one lemma per action);
`Writers` (which actions touch which table); `RunLasts`, `FindingLasts`,
`EventLasts` (what no step takes back); `OthersConsistent` (hence a request that does
not move stays consistent), `OwnStepConsistent` and `OutsideConsistent` (so does the
one that moves), `OneMoves`; `LinkedEventStep`. The other properties follow from the
invariant with one lemma each. For the counts: what a transaction has counted is
stored or its own when it commits, and rows are never deleted.

For one request at a time the invariant is `SerialInv == HcscInv /\ SerialRows /\
SerialRequest`: the rows are exact but for the finding the request works on, and the
request knows what is stored (what it has read is still so, its transaction has counted
what it will commit, it announces an end exactly if the run ends by it). The lemmas
`Serial...` follow the request from step to step. `RiskInv(severity)` adds that every
finding of high risk is linked or still on the list of the request that links.

**StrixRunner.** `RunnerInv` adds to the types that ids wait in the queue once and are
those of the queued jobs (`QueueSound`), and that the worker, unless inactive, has a job
that exists (`WorkerSound`). All ways to go on with the next job share `TakeNextSound`;
a report shares `StartReportSound`.

**SelfHostedScan.** `ScanInv` joins both invariants with what the two sides agree on
(`LinkInv`): an id the runner has answered with stays the run's (`PostedOK`), and a
request in the exchange either still carries the report of the current job or has stored
it (`Serving`, `Heard`). With it `ScanStepImplements` shows that every step is one of
HCSC's, with the runner standing still, or one of the runner's: so the theorems about
each side hold of the composition and need no second proof.

**ManagedScan.** `ManagedInv`: a run, the requests that write it and the polls that read
it mean the one scan that was created for the run (`OwnershipOK`); a scan that has ended
does not change (`ScansKept`), so a poll that saw it end has all of its findings, and
stored findings are not lost.

**Account.** The refinement rests on what a request has found: a code it may claim is one
of a set that was issued, and the claim itself compares the row again. The other three
theorems use `ClosingInv` and `CodeInv`, which say where a request must be for a session
to come back or a code to pass twice, and that the history variables (`raced`,
`overlapped`) have noticed it. `TokensPassOnce` proves the invariant of OneShot itself, once
for its two operations, and carries it over to the account through the refinement.

**Team.** `TeamInv` holds the lock's discipline: one request at a time is past `TakeLock`,
and what `Recheck` counted is still true at `WriteMember`, since the others that write a
role wait for the lock. `LoneInv` and `SettledInv` add what a request that runs alone
has read: one about invites that no other has crossed writes to the pending invite it found
(`Prepared`), which is why no settled one changes (`SettledKeeps`).

**ConsoleStore.** `StoreInv` says what an operation at a stage has (`Basics`: a hydration
holds each collection or the error, a write its answer), what the tab may believe of the
session (`SessionFits`), that what a hydration has read is the server's of the user it
asked for, with every write answered before it asked (`SavedRead`), and whose the data
are (`SameUser`). What a hydration has kept instead of reading it is of the same user as the
environment it was taken from. Overlaps enter only through `tangled` and `switched`, which the
invariant carries along. Of an operation that moves, `Moves...` lemmas say once which sets it
enters and leaves; `...Keeps` lemmas say that the others, which do not move, keep what they
had. The proof found that `SavedIsShown` had been stated too strongly (see Runs,
*Console*): the counterexample needs more acts than the run has.

**Domains.** A request rests on the row being there and on the zone it has asked about
(`TaskFits`); a hostname whose requests have not overlapped has one at most, and its row
is as that one has read it (`SoleTask`), which is why what it writes back is not stale.

**Response.** `EngineInv` needs no hypothesis on overlaps: rows a request has read stay, and
an isolation has been written, or undone by somebody, before it is recorded. `ResponseInv`
adds the counts: between one request's statements a row is at most one ahead
of what it counts (`PlaybooksOnce`, `TriggersCounted`, `EvaluatedOnce`), for requests
that have not overlapped, stopped ones included.

**RiskEngines.** The arithmetic first: `AssetRiskGrows` and `VerdictGrows` say that neither
the risk of an asset nor a decision falls when events only grow (`Grown`: none goes, is
resolved, or loses a critical severity or a grave category) and the score does not fall;
`VerdictAlike` that a decision reads nothing of the events but the number of open
critical ones and which grave categories occur. Each score is shown to be a part the events do
not touch and a sum of products they make grow. `TightInv` then says: what nobody
changed the inputs of since it was scored alone is not ahead of what it would be now
(`DecisionsTight`, `AssetTight`); an engine that nothing has disturbed holds what is still
so (`AloneSound`); what was scored last, alone and undisturbed, would be scored the same
(`LastSettled`). The last needs that an evaluation's own event is no
argument for another decision: one that isolates is as strict as it gets
(`RankFacts`), any other is neither critical nor grave (`OwnEventCountsNot`), and taking
back a critical severity of its own is what `takenBack` excepts. The theorem covers
every weight of the policy from 0 to 100 and any signals; the run has two of each.

Model-checked only: liveness (`JobsSettle`, `OutcomeArrives`, `ManagedRunSettles`,
`HighRiskLinkedUnlessFault`, `RateWindowsReopen`), which is out of the
proof system's reach. Every invariant and every action property of a passing run has a
theorem.

## Not modelled, and the plan

Not modelled for good: pages, scripts, seed, migrations, mail, audit and notification
writes (no state that anything depends on); cryptography, parsing and formatting; the
content of reports and of the local simulation. Pages, sample data and the seed are
most of the repository's lines.

Done in this order: SecurityTestRun, StrixRunner, SelfHostedScan, ManagedScan, the
proofs about the first; then Account with OneShot, Team, ConsoleStore, Response,
Domains, RateLimit, RiskEngines. Next:

1. Registration with e-mail verification, switching the workspace, provisioning.
2. Webhooks: batches of four against deletion. Reports and compliance snapshots,
   which are written in several statements and read by nothing that decides.
3. `SecurityTestTarget`: registration racing registration, authorization.

Theorems planned: what the modules above will promise, and for RateLimit that no window
lets more requests pass than its limit while none of its commands fails.
