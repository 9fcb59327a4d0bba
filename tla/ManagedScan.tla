---------------------------- MODULE ManagedScan ----------------------------
(***************************************************************************)
(* A scan by the managed Strix API (managed-strix-provider.ts).  HCSC      *)
(* creates the scan once and learns of its progress only when somebody     *)
(* opens the overview, which polls the unfinished runs and applies what it *)
(* got as if it were a callback.  (An overview polls at most five runs; a  *)
(* model has fewer.)  Analysts are left to SecurityTestRun's own runs:     *)
(* nothing here depends on what they decide.                               *)
(*                                                                         *)
(* The API is not part of the repository: it is modelled from what the     *)
(* provider sends and accepts.                                             *)
(***************************************************************************)
EXTENDS SecurityTestRun, Functions

CONSTANT MaxLosses    \* bound on API requests that fail or are answered too late

ASSUME ManagedAssumption ==
    /\ "managed" \in Modes /\ Reports = Reported /\ <<>> \in Payloads
    /\ MaxLosses \in Nat

VARIABLES
    scan,     \* scan[x]: the API's scan with id x, or NoScan
    poll,     \* poll[h]: the run an overview request polls and what it got, or NoPoll
    losses    \* losses so far

apiVars     == <<scan, poll, losses>>
managedVars == <<run, finding, event, notices, authorized, pc, req, faults,
                 scan, poll, losses>>

ScanEnded  == {"completed", "failed", "cancelled"}
ScanStatus == {"pending", "running"} \union ScanEnded
NoScan     == [run |-> None, status |-> "pending", vulns |-> <<>>]
NoPoll     == [run |-> None, ext |-> None, got |-> "nothing", vulns |-> <<>>]

\* mapStatus
MapStatus(status) == IF status = "pending" THEN "queued" ELSE status

ManagedTypeOK ==
    /\ HcscTypeOK
    /\ scan \in [ExtIds -> [run : Runs \union {None}, status : ScanStatus,
                            vulns : PartialSeverities]]
    /\ poll \in [Handlers -> [run : Runs \union {None}, ext : ExtIds \union {None},
                              got : ScanStatus \union {"nothing"},
                              vulns : PartialSeverities]]
    /\ losses \in 0..MaxLosses

ManagedInit ==
    /\ HcscInit
    /\ scan = [x \in ExtIds |-> NoScan]
    /\ poll = [h \in Handlers |-> NoPoll]
    /\ losses = 0

Lose == losses < MaxLosses /\ losses' = losses + 1
Free(h) == At(h, "idle") /\ poll[h] = NoPoll

-----------------------------------------------------------------------------
(* Launching *)

Launch(h, r) ==
    /\ Free(h)
    /\ LaunchStart(h, r, "managed")
    /\ UNCHANGED apiVars

\* The target is not registered with Strix, or the API refuses the scan.
ScanRefused(h) == LaunchRefused(h) /\ UNCHANGED apiVars

Create(h, x, status) ==
    /\ At(h, "awaitProvider")
    /\ scan[x] = NoScan
    /\ \A y \in ExtIds : scan[y].run # req[h].run
    /\ scan' = [scan EXCEPT ![x] = [NoScan EXCEPT !.run = req[h].run, !.status = status]]
    /\ UNCHANGED poll

ScanCreated(h, x) ==
    /\ UNCHANGED losses
    /\ \/ \E status \in {"pending", "running"} :
              Create(h, x, status) /\ LiveAnswer(h, x, MapStatus(status))
       \/ \E status \in {"failed", "cancelled"} :
              Create(h, x, status) /\ LaunchRefused(h)

\* The scan exists, but HCSC has stopped waiting for the answer.
CreatedUnheard(h, x) == Lose /\ Create(h, x, "pending") /\ LaunchRefused(h)

-----------------------------------------------------------------------------
(* The API's scan *)

\* A vulnerability found is not withdrawn, and keeps its severity.
Extends(p, vulns) == Restrict(p, DOMAIN p \intersect DOMAIN vulns) = vulns

ScanFinds(x) ==
    /\ scan[x].status = "running"
    /\ \E p \in Payloads :
          /\ Extends(p, scan[x].vulns)
          /\ scan' = [scan EXCEPT ![x].vulns = p]
    /\ UNCHANGED <<hcscVars, poll, losses>>

ScanAdvances(x) ==
    /\ scan[x] # NoScan
    /\ \/ scan[x].status = "pending" /\ scan' = [scan EXCEPT ![x].status = "running"]
       \/ \E status \in ScanEnded : /\ scan[x].status \notin ScanEnded
                                    /\ scan' = [scan EXCEPT ![x].status = status]
    /\ UNCHANGED <<hcscVars, poll, losses>>

-----------------------------------------------------------------------------
(* getSecurityTestOverview *)

\* Mutation: only runs that have started are polled.
MutActiveRunning(r) == run[r].status = "running" /\ run[r].ext # None

Active(r) == run[r].status \in {"queued", "running"} /\ run[r].ext # None

PollRead(h, r) ==
    /\ Free(h)
    /\ Active(r)
    /\ poll' = [poll EXCEPT ![h].run = r, ![h].ext = run[r].ext]
    /\ UNCHANGED <<hcscVars, scan, losses>>

\* Mutation: the vulnerabilities are fetched only while the scan is running.
MutFetchWhileRunning(h) ==
    LET x == poll[h].ext IN
    /\ poll[h].run # None /\ poll[h].got = "nothing"
    /\ poll' = [poll EXCEPT ![h].got = scan[x].status,
                            ![h].vulns = IF scan[x].status = "running" THEN scan[x].vulns ELSE <<>>]
    /\ UNCHANGED <<hcscVars, scan, losses>>

\* provider.reconcile
PollFetch(h) ==
    LET x == poll[h].ext IN
    /\ poll[h].run # None /\ poll[h].got = "nothing"
    /\ poll' = [poll EXCEPT ![h].got = scan[x].status, ![h].vulns = scan[x].vulns]
    /\ UNCHANGED <<hcscVars, scan, losses>>

PollFails(h) ==
    /\ Lose
    /\ poll[h].run # None /\ poll[h].got = "nothing"
    /\ poll' = [poll EXCEPT ![h] = NoPoll]
    /\ UNCHANGED <<hcscVars, scan>>

\* applySecurityTestProviderCallback with the result; what it throws is dropped.
PollApply(h) ==
    LET r == poll[h].run  x == poll[h].ext  status == MapStatus(poll[h].got) IN
    /\ poll[h].got # "nothing"
    /\ IF CallbackAccepted(r, x, status) THEN CallbackRead(h, r, x, status, poll[h].vulns)
                                         ELSE UNCHANGED hcscVars
    /\ poll' = [poll EXCEPT ![h] = NoPoll]
    /\ UNCHANGED <<scan, losses>>

-----------------------------------------------------------------------------
HcscStep(h)  == OwnStep(h) /\ UNCHANGED apiVars
HcscFault(h) == Fault(h) /\ UNCHANGED apiVars

Expiry == AuthorizationExpires /\ UNCHANGED apiVars

ManagedNext ==
    \/ \E h \in Handlers :
          \/ \E r \in Runs : Launch(h, r) \/ PollRead(h, r)
          \/ \E x \in ExtIds : ScanCreated(h, x) \/ CreatedUnheard(h, x)
          \/ ScanRefused(h) \/ PollFetch(h) \/ PollFails(h) \/ PollApply(h)
          \/ HcscStep(h) \/ HcscFault(h)
    \/ \E x \in ExtIds : ScanFinds(x) \/ ScanAdvances(x)
    \/ Expiry

\* The API brings every scan to an end, requests go on until they have answered, and
\* the overview keeps being opened: the one assumption about people, without which the
\* code has no way to learn of the outcome.
ManagedFairness ==
    /\ \A x \in ExtIds : WF_managedVars(ScanAdvances(x))
    /\ \A h \in Handlers : WF_managedVars(HcscStep(h) \/ PollFetch(h) \/ PollApply(h))
    /\ \A r \in Runs : SF_managedVars(\E h \in Handlers : PollRead(h, r))

ManagedSpec == ManagedInit /\ [][ManagedNext]_managedVars /\ ManagedFairness

-----------------------------------------------------------------------------
\* A run with a scan ends, and in the end stays so: a poll that was overtaken can take
\* it back to running, but only until the next poll.
ManagedRunSettles ==
    \A r \in Runs : run[r].ext # None ~> [](run[r].status \in Terminal)

\* A run that shows as completed has all the findings of its scan, although polls with
\* older answers may be applied after the one that completed it.
CompletedRunHasAllFindings ==
    \A r \in Runs : run[r].status = "completed" =>
        DOMAIN scan[run[r].ext].vulns \subseteq Stored(r)

\* However polls overlap, every high-risk finding is linked to an event in the end, as
\* long as no request fails between storing the finding and linking it.
HighRiskLinkedUnlessFault ==
    \A r \in Runs, f \in Findings :
        finding[r][f].sev = "high" ~> finding[r][f].event # 0 \/ faults > 0
=============================================================================
