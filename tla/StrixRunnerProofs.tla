-------------------------- MODULE StrixRunnerProofs --------------------------
(***************************************************************************)
(* The runner's worker takes every accepted job once and in order, and     *)
(* reports what it has recorded, however the reports fare.                 *)
(***************************************************************************)
EXTENDS StrixRunner, FiniteSetTheorems, TLAPS

\* RunnerTypeOK but for inCatch: SMT handles a Boolean variable best by itself.
TableOK ==
    /\ jobs \in [JobIds -> Job]
    /\ queue \in Seq(JobIds)
    /\ phase \in WorkerPhase
    /\ current \in JobIds \union {NoJob}
    /\ report \in JobStatus
    /\ attempt \in 0..MaxAttempts
    /\ issued \subseteq JobIds
    /\ restarts \in 0..MaxRestarts

\* Ids wait in the queue once, and exactly those of the jobs that are queued, apart
\* from the one whose directory is being made.
QueueSound ==
    /\ \A i, k \in 1..Len(queue) : queue[i] = queue[k] => i = k
    /\ \A i \in 1..Len(queue) : jobs[queue[i]].status = "queued" /\ queue[i] # current
    /\ \A j \in JobIds : jobs[j].status = "queued" =>
          \/ phase = "mkdtemp" /\ j = current
          \/ \E i \in 1..Len(queue) : queue[i] = j

\* The worker has a job unless it is inactive, and then nothing waits for it.
WorkerSound ==
    /\ phase = "inactive" => queue = <<>> /\ current = NoJob /\ ~inCatch
    /\ phase # "inactive" => current \in LiveJobs
    /\ phase = "mkdtemp" => jobs[current].status = "queued"
    /\ phase \in {"posting", "backoff"} => report # "queued" /\ attempt \in 1..MaxAttempts
    /\ phase = "backoff" => attempt < MaxAttempts
    /\ LiveJobs \subseteq issued

RunnerInv == RunnerTypeOK /\ QueueSound /\ WorkerSound /\ ReportMatchesJob

USE RunnerAssumption DEF MaxAttempts

-----------------------------------------------------------------------------
LEMMA RunnerStarts == RunnerInit => RunnerInv
  <1> SUFFICES ASSUME RunnerInit PROVE RunnerInv
    OBVIOUS
  <1>1. TableOK
    BY DEF RunnerInit, TableOK, Job, Unused, JobStatus, WorkerPhase
  <1>2. QueueSound /\ WorkerSound /\ ReportMatchesJob
    BY DEF RunnerInit, QueueSound, WorkerSound, ReportMatchesJob, LiveJobs, Unused
  <1>3. inCatch \in BOOLEAN
    BY DEF RunnerInit
  <1> QED
    BY <1>1, <1>2, <1>3 DEF RunnerInv, TableOK, RunnerTypeOK

\* The loop goes on: the table and the queue it finds agree, and the worker is with
\* no job.
LEMMA TakeNextSound ==
    ASSUME NEW q \in Seq(JobIds), NEW table \in [JobIds -> Job], NEW given \in SUBSET JobIds,
           \A i, k \in 1..Len(q) : q[i] = q[k] => i = k,
           \A i \in 1..Len(q) : table[q[i]].status = "queued",
           \A j \in JobIds : table[j].status = "queued" => \E i \in 1..Len(q) : q[i] = j,
           {j \in JobIds : table[j] # Unused} \subseteq given,
           restarts \in 0..MaxRestarts,
           jobs' = table, issued' = given, UNCHANGED restarts, TakeNext(q)
    PROVE  RunnerInv'
  <1>1. CASE q = <<>>
    <2>1. TableOK'
      BY <1>1 DEF TakeNext, TableOK, JobStatus, WorkerPhase
    <2>2. QueueSound' /\ WorkerSound' /\ ReportMatchesJob'
      BY <1>1 DEF TakeNext, QueueSound, WorkerSound, ReportMatchesJob, LiveJobs
    <2>3. inCatch' \in BOOLEAN
      BY DEF TakeNext
    <2> QED
      BY <2>1, <2>2, <2>3 DEF RunnerInv, TableOK, RunnerTypeOK
  <1>2. CASE q # <<>>
    <2>1. /\ phase' = "mkdtemp" /\ current' = q[1] /\ queue' = Tail(q)
          /\ inCatch' = FALSE /\ attempt' = 0 /\ report' = "queued"
      BY <1>2 DEF TakeNext
    <2>2. /\ Len(q) \in Nat /\ Len(q) >= 1 /\ q[1] \in JobIds
          /\ Tail(q) \in Seq(JobIds) /\ Len(Tail(q)) = Len(q) - 1
          /\ \A i \in 1..Len(Tail(q)) : Tail(q)[i] = q[i + 1]
      BY <1>2
    <2>3. TableOK'
      BY <2>1, <2>2 DEF TableOK, JobStatus, WorkerPhase
    <2>4. QueueSound'
      <3>1. \A i, k \in 1..Len(Tail(q)) : Tail(q)[i] = Tail(q)[k] => i = k
        BY <2>2
      <3>2. \A i \in 1..Len(Tail(q)) : table[Tail(q)[i]].status = "queued" /\ Tail(q)[i] # q[1]
        BY <2>2
      <3>3. ASSUME NEW j \in JobIds, table[j].status = "queued"
            PROVE  j = q[1] \/ \E i \in 1..Len(Tail(q)) : Tail(q)[i] = j
        <4>1. PICK i \in 1..Len(q) : q[i] = j
          BY <3>3
        <4>2. CASE i # 1
          <5>1. i - 1 \in 1..Len(Tail(q)) /\ Tail(q)[i - 1] = j
            BY <4>1, <4>2, <2>2
          <5> QED
            BY <5>1
        <4> QED
          BY <4>1, <4>2
      <3> QED
        BY <3>1, <3>2, <3>3, <2>1 DEF QueueSound
    <2>5. table[q[1]].status = "queued" /\ q[1] \in {j \in JobIds : table[j] # Unused}
      BY <2>2 DEF Unused
    <2>6. WorkerSound' /\ ReportMatchesJob'
      BY <2>1, <2>5 DEF WorkerSound, ReportMatchesJob, LiveJobs
    <2>7. inCatch' \in BOOLEAN
      BY <2>1
    <2> QED
      BY <2>3, <2>4, <2>6, <2>7 DEF RunnerInv, TableOK, RunnerTypeOK
  <1> QED
    BY <1>1, <1>2

\* The worker is done with its job.
LEMMA NextJobSound ==
    ASSUME RunnerInv, phase \in {"posting", "strix"}, UNCHANGED <<jobs, issued, restarts>>,
           TakeNext(queue)
    PROVE  RunnerInv'
  <1>1. jobs[current].status # "queued"
    BY DEF RunnerInv, ReportMatchesJob, WorkerSound
  <1>2. /\ queue \in Seq(JobIds) /\ jobs \in [JobIds -> Job] /\ issued \in SUBSET JobIds
        /\ restarts \in 0..MaxRestarts
    BY DEF RunnerInv, RunnerTypeOK
  <1>3. /\ \A i, k \in 1..Len(queue) : queue[i] = queue[k] => i = k
        /\ \A i \in 1..Len(queue) : jobs[queue[i]].status = "queued"
        /\ \A j \in JobIds : jobs[j].status = "queued" => \E i \in 1..Len(queue) : queue[i] = j
    BY <1>1 DEF RunnerInv, QueueSound
  <1>4. {j \in JobIds : jobs[j] # Unused} \subseteq issued
    BY DEF RunnerInv, WorkerSound, LiveJobs
  <1> QED
    BY <1>2, <1>3, <1>4, TakeNextSound

\* A report begins: the job takes its status, and is not queued any more.
LEMMA StartReportSound ==
    ASSUME RunnerInv, NEW status \in JobStatus \ {"queued"}, NEW catching \in BOOLEAN,
           phase # "inactive", catching => status = "failed", StartReport(status, catching)
    PROVE  RunnerInv'
  <1>1. /\ current \in LiveJobs /\ current \in JobIds /\ jobs[current] # Unused
        /\ jobs[current] \in [scan : Scans, status : JobStatus]
    BY DEF RunnerInv, RunnerTypeOK, WorkerSound, LiveJobs, Job
  <1>2. PICK job : job = [jobs[current] EXCEPT !.status = status]
    OBVIOUS
  <1>3. job \in [scan : Scans, status : JobStatus] /\ job.status = status /\ job # Unused
    BY <1>1, <1>2 DEF Unused
  <1>4. /\ jobs' = [jobs EXCEPT ![current] = job]
        /\ phase' = "posting" /\ attempt' = 1 /\ report' = status /\ inCatch' = catching
        /\ UNCHANGED <<queue, current, issued, restarts>>
    BY <1>2, <1>1 DEF StartReport, SetJob, RunnerInv, RunnerTypeOK
  <1>5. /\ jobs \in [JobIds -> Job] /\ jobs'[current] = job
        /\ \A j \in JobIds \ {current} : jobs'[j] = jobs[j]
    BY <1>4, <1>1 DEF RunnerInv, RunnerTypeOK
  <1>6. TableOK' /\ inCatch' \in BOOLEAN
    <2>1. jobs' \in [JobIds -> Job]
      BY <1>4, <1>3, <1>5 DEF Job
    <2>2. TableOK'
      BY <2>1, <1>4 DEF RunnerInv, TableOK, RunnerTypeOK, WorkerPhase
    <2>3. inCatch' \in BOOLEAN
      BY <1>4
    <2> QED
      BY <2>2, <2>3
  <1>7. \A i \in 1..Len(queue) : queue[i] \in JobIds /\ queue[i] # current
    BY DEF RunnerInv, RunnerTypeOK, QueueSound
  <1>8. QueueSound'
    BY <1>3, <1>4, <1>5, <1>7 DEF RunnerInv, QueueSound
  <1>9. LiveJobs' = LiveJobs
    BY <1>1, <1>3, <1>5 DEF LiveJobs
  <1>10. WorkerSound'
    BY <1>1, <1>4, <1>9 DEF RunnerInv, WorkerSound
  <1>11. ReportMatchesJob'
    BY <1>3, <1>4, <1>5 DEF ReportMatchesJob
  <1> QED
    BY <1>6, <1>8, <1>10, <1>11 DEF RunnerInv, TableOK, RunnerTypeOK

LEMMA GiveUpSound ==
    ASSUME RunnerInv, phase = "posting", GiveUp
    PROVE  RunnerInv'
  <1>1. CASE inCatch
    BY <1>1, NextJobSound DEF GiveUp
  <1>2. CASE ~inCatch
    BY <1>2, StartReportSound DEF GiveUp, JobThrows, JobStatus
  <1> QED
    BY <1>1, <1>2

LEMMA AcceptSound ==
    ASSUME RunnerInv, NEW scan \in Scans, NEW j \in JobIds, Accept(scan, j)
    PROVE  RunnerInv'
  <1>1. PICK job : job = [scan |-> scan, status |-> "queued"]
    OBVIOUS
  <1>2. PICK table : table = [jobs EXCEPT ![j] = job]
    OBVIOUS
  <1>3. PICK q : q = Append(queue, j)
    OBVIOUS
  <1>4. /\ jobs' = table /\ issued' = issued \union {j} /\ UNCHANGED restarts
        /\ j \notin issued
        /\ IF phase = "inactive" THEN TakeNext(q)
                                 ELSE /\ queue' = q
                                      /\ UNCHANGED <<phase, current, report, attempt, inCatch>>
    BY <1>1, <1>2, <1>3 DEF Accept
  <1>5. /\ jobs \in [JobIds -> Job] /\ queue \in Seq(JobIds) /\ issued \in SUBSET JobIds
        /\ restarts \in 0..MaxRestarts
    BY DEF RunnerInv, RunnerTypeOK
  <1>6. job \in Job /\ job.status = "queued" /\ job # Unused
    BY <1>1 DEF Job, JobStatus, Unused
  <1>7. /\ table \in [JobIds -> Job] /\ table[j] = job
        /\ \A k \in JobIds \ {j} : table[k] = jobs[k]
    BY <1>2, <1>5, <1>6
  <1>8. /\ Len(queue) \in Nat /\ q \in Seq(JobIds) /\ Len(q) = Len(queue) + 1
        /\ q[Len(queue) + 1] = j /\ \A i \in 1..Len(queue) : q[i] = queue[i] /\ q[i] \in JobIds
    BY <1>3, <1>5
  \* The id is new: nothing waits or is worked on under it.
  <1>9. jobs[j] = Unused /\ j # current
    BY <1>4 DEF RunnerInv, WorkerSound, LiveJobs
  <1>10. \A i \in 1..Len(queue) : queue[i] # j
    BY <1>9 DEF RunnerInv, QueueSound, Unused
  <1>11. /\ \A i, k \in 1..Len(q) : q[i] = q[k] => i = k
         /\ \A i \in 1..Len(q) : table[q[i]].status = "queued" /\ q[i] # current
    <2>1. \A i \in 1..Len(q) : i = Len(queue) + 1 \/ i \in 1..Len(queue)
      BY <1>8
    <2>2. \A i, k \in 1..Len(q) : q[i] = q[k] => i = k
      BY <1>8, <1>10, <2>1 DEF RunnerInv, QueueSound
    <2>3. \A i \in 1..Len(q) : table[q[i]].status = "queued" /\ q[i] # current
      BY <1>6, <1>7, <1>8, <1>9, <1>10, <2>1 DEF RunnerInv, QueueSound
    <2> QED  BY <2>2, <2>3
  <1>12. ASSUME NEW k \in JobIds, table[k].status = "queued"
         PROVE  (phase = "mkdtemp" /\ k = current) \/ \E i \in 1..Len(q) : q[i] = k
    <2>1. CASE k = j
      BY <2>1, <1>8
    <2>2. CASE k # j
      <3>1. \/ phase = "mkdtemp" /\ k = current
            \/ \E i \in 1..Len(queue) : queue[i] = k
        BY <2>2, <1>12, <1>7 DEF RunnerInv, QueueSound
      <3> QED
        BY <3>1, <1>8
    <2> QED
      BY <2>1, <2>2
  <1>13. {k \in JobIds : table[k] # Unused} \subseteq issued \union {j}
    BY <1>7 DEF RunnerInv, WorkerSound, LiveJobs
  <1>14. CASE phase = "inactive"
    <2>1. \A k \in JobIds : table[k].status = "queued" => \E i \in 1..Len(q) : q[i] = k
      BY <1>12, <1>14
    <2>2. PICK given : given = issued \union {j}
      OBVIOUS
    <2>3. /\ given \in SUBSET JobIds /\ {k \in JobIds : table[k] # Unused} \subseteq given
          /\ q \in Seq(JobIds) /\ table \in [JobIds -> Job] /\ restarts \in 0..MaxRestarts
      BY <2>2, <1>5, <1>7, <1>8, <1>13
    <2>4. TakeNext(q) /\ jobs' = table /\ issued' = given /\ UNCHANGED restarts
      BY <2>2, <1>4, <1>14
    <2>5. /\ \A i, k \in 1..Len(q) : q[i] = q[k] => i = k
          /\ \A i \in 1..Len(q) : table[q[i]].status = "queued"
      BY <1>11
    <2> QED
      BY <2>1, <2>3, <2>4, <2>5, TakeNextSound
  <1>15. CASE phase # "inactive"
    <2>1. queue' = q /\ UNCHANGED <<phase, current, report, attempt, inCatch>>
      BY <1>4, <1>15
    <2>2. RunnerTypeOK'
      BY <2>1, <1>4, <1>5, <1>7, <1>8 DEF RunnerInv, RunnerTypeOK
    <2>3. QueueSound'
      BY <2>1, <1>4, <1>11, <1>12 DEF QueueSound
    <2>4. LiveJobs' = LiveJobs \union {j}
      BY <1>4, <1>6, <1>7 DEF LiveJobs
    <2>5. current \in LiveJobs /\ table[current] = jobs[current]
      BY <1>15, <1>7, <1>9 DEF RunnerInv, WorkerSound, LiveJobs
    <2>6. WorkerSound' /\ ReportMatchesJob'
      BY <2>1, <2>4, <2>5, <1>4, <1>15 DEF RunnerInv, WorkerSound, ReportMatchesJob
    <2> QED
      BY <2>2, <2>3, <2>6 DEF RunnerInv
  <1> QED
    BY <1>14, <1>15

\* Only the place of the worker changes.
LEMMA WaitSound ==
    ASSUME RunnerInv,
           \/ phase = "posting" /\ phase' = "backoff" /\ attempt < MaxAttempts /\ attempt' = attempt
           \/ phase = "backoff" /\ phase' = "posting" /\ attempt' = attempt + 1
           \/ phase = "posting" /\ phase' = "strix" /\ report = "running" /\ attempt' = attempt,
           UNCHANGED <<jobs, queue, current, report, inCatch, issued, restarts>>
    PROVE  RunnerInv'
  <1>1. attempt' \in 0..MaxAttempts /\ (phase' = "posting" => attempt' \in 1..MaxAttempts)
    BY DEF RunnerInv, RunnerTypeOK, WorkerSound
  <1>2. RunnerTypeOK'
    BY <1>1 DEF RunnerInv, RunnerTypeOK, WorkerPhase
  <1>3. QueueSound'
    BY DEF RunnerInv, QueueSound
  <1>4. LiveJobs' = LiveJobs
    BY DEF LiveJobs
  <1>5. WorkerSound' /\ ReportMatchesJob'
    BY <1>1, <1>4 DEF RunnerInv, RunnerTypeOK, WorkerSound, ReportMatchesJob
  <1> QED
    BY <1>2, <1>3, <1>5 DEF RunnerInv

LEMMA RestartSound ==
    ASSUME RunnerInv, Restart
    PROVE  RunnerInv'
  <1>1. restarts' \in 0..MaxRestarts
    BY DEF RunnerInv, RunnerTypeOK, Restart
  <1>2. TableOK' /\ inCatch' \in BOOLEAN
    <2>1. TableOK'
      BY <1>1 DEF Restart, RunnerInv, TableOK, RunnerTypeOK, Job, Unused, JobStatus, WorkerPhase
    <2>2. inCatch' \in BOOLEAN
      BY DEF Restart
    <2> QED
      BY <2>1, <2>2
  <1>3. QueueSound' /\ WorkerSound' /\ ReportMatchesJob'
    BY DEF Restart, QueueSound, WorkerSound, ReportMatchesJob, LiveJobs, Unused
  <1> QED
    BY <1>2, <1>3 DEF RunnerInv, TableOK, RunnerTypeOK

-----------------------------------------------------------------------------
LEMMA RunnerStep == RunnerInv /\ [RunnerNext]_runnerVars => RunnerInv'
  <1> SUFFICES ASSUME RunnerInv, [RunnerNext]_runnerVars PROVE RunnerInv'
    OBVIOUS
  <1>1. CASE \E scan \in Scans, j \in JobIds : Accept(scan, j)
    BY <1>1, AcceptSound
  <1>2. CASE DirectoryMade
    BY <1>2, StartReportSound DEF DirectoryMade, JobStatus
  <1>3. CASE DirectoryFails
    BY <1>3, StartReportSound DEF DirectoryFails, JobThrows, JobStatus
  <1>4. CASE Retry
    BY <1>4, WaitSound DEF Retry
  <1>5. CASE \E status \in {"completed", "failed"} : StrixExits(status)
    BY <1>5, StartReportSound DEF StrixExits, JobStatus
  <1>6. CASE StrixThrows
    BY <1>6, StartReportSound DEF StrixThrows, JobThrows, JobStatus
  <1>7. CASE ReportAcknowledged
    <2>1. CASE report = "running"
      BY <1>7, <2>1, WaitSound DEF ReportAcknowledged
    <2>2. CASE report # "running"
      BY <1>7, <2>2, NextJobSound DEF ReportAcknowledged
    <2> QED
      BY <2>1, <2>2
  <1>8. CASE ReportRejected
    BY <1>8, GiveUpSound DEF ReportRejected
  <1>9. CASE ReportFails
    <2>1. CASE attempt < MaxAttempts
      BY <1>9, <2>1, WaitSound DEF ReportFails
    <2>2. CASE ~(attempt < MaxAttempts)
      BY <1>9, <2>2, GiveUpSound DEF ReportFails
    <2> QED
      BY <2>1, <2>2
  <1>10. CASE Restart
    BY <1>10, RestartSound
  <1>11. CASE UNCHANGED runnerVars
    <2>1. LiveJobs' = LiveJobs
      BY <1>11 DEF runnerVars, LiveJobs
    <2> QED
      BY <1>11, <2>1
      DEF runnerVars, RunnerInv, RunnerTypeOK, QueueSound, WorkerSound, ReportMatchesJob
  <1> QED
    BY <1>1, <1>2, <1>3, <1>4, <1>5, <1>6, <1>7, <1>8, <1>9, <1>10, <1>11
    DEF RunnerNext, Worker, Outcome

THEOREM RunnerInvariant == RunnerSpec => []RunnerInv
  <1> QED
    BY RunnerStarts, RunnerStep, PTL DEF RunnerSpec

\* Ids that wait once each: the queue is as long as the set of its members is large.
LEMMA QueueLength ==
    ASSUME RunnerInv
    PROVE  Len(queue) = Cardinality(InQueue)
  <1>1. Len(queue) \in Nat /\ DOMAIN queue = 1..Len(queue)
    BY DEF RunnerInv, RunnerTypeOK
  <1>2. InQueue = {queue[i] : i \in 1..Len(queue)}
    BY <1>1 DEF InQueue
  <1>3. \A i, k \in 1..Len(queue) : queue[i] = queue[k] => i = k
    BY DEF RunnerInv, QueueSound
  <1>4. [i \in 1..Len(queue) |-> queue[i]] \in Bijection(1..Len(queue), InQueue)
    BY <1>2, <1>3 DEF Bijection, Injection, Surjection, IsInjective
  <1>5. ExistsBijection(1..Len(queue), InQueue)
    BY <1>4 DEF ExistsBijection
  <1> QED
    BY <1>1, <1>5, FS_CountingElements

\* No accepted job is dropped or taken twice, and each waits in one place (drainQueue and
\* the POST route).
THEOREM JobsTakenOnce == RunnerSpec => []QueuedJobsWait
  <1>1. ASSUME RunnerInv PROVE QueuedJobsWait
    <2>1. DOMAIN queue = 1..Len(queue) /\ \A i \in 1..Len(queue) : queue[i] \in JobIds
      BY <1>1 DEF RunnerInv, RunnerTypeOK
    <2>2. current \notin InQueue
      BY <1>1, <2>1 DEF RunnerInv, QueueSound, InQueue
    <2>3. ASSUME NEW j \in JobIds, jobs[j].status = "queued"
          PROVE  j \in InQueue \union (IF phase = "mkdtemp" THEN {current} ELSE {})
      BY <1>1, <2>1, <2>3 DEF RunnerInv, QueueSound, InQueue
    <2>4. ASSUME NEW j \in InQueue
          PROVE  j \in JobIds /\ jobs[j].status = "queued"
      BY <1>1, <2>1, <2>4 DEF RunnerInv, QueueSound, InQueue
    <2>5. phase = "mkdtemp" => current \in JobIds /\ jobs[current].status = "queued"
      BY <1>1 DEF RunnerInv, WorkerSound, LiveJobs
    <2>6. {j \in JobIds : jobs[j].status = "queued"} =
              InQueue \union (IF phase = "mkdtemp" THEN {current} ELSE {})
      BY <2>3, <2>4, <2>5
    <2> QED
      BY <1>1, <2>2, <2>6, QueueLength DEF QueuedJobsWait
  <1> QED
    BY <1>1, RunnerInvariant, PTL

\* The runner's variables keep their types; in particular a report has three attempts
\* at most (postCallback).
THEOREM RunnerTypeCorrect == RunnerSpec => []RunnerTypeOK
  <1>1. RunnerInv => RunnerTypeOK
    BY DEF RunnerInv
  <1> QED
    BY <1>1, RunnerInvariant, PTL

\* What is reported is what is recorded, Strix runs only while its job is recorded as
\* running, and the catch block reports failures only (processJob, drainQueue).
THEOREM ReportsAreTrue == RunnerSpec => []ReportMatchesJob
  <1>1. RunnerInv => ReportMatchesJob
    BY DEF RunnerInv
  <1> QED
    BY <1>1, RunnerInvariant, PTL

\* Jobs start in the order in which they were accepted: an accepted job never passes
\* one that waits, because an inactive worker leaves none waiting (drainQueue).
THEOREM JobsStartInOrder == RunnerSpec => StartedInOrder
  <1> DEFINE Kept ==
        \/ queue' = queue \/ queue' = Tail(queue)
        \/ \E j \in JobIds : queue' = Append(queue, j)
  <1>1. ASSUME RunnerInv, [RunnerNext]_runnerVars, queue # <<>>, restarts' = restarts
        PROVE  Kept
    <2>1. CASE \E scan \in Scans, j \in JobIds : Accept(scan, j)
      BY <1>1, <2>1 DEF Accept, RunnerInv, WorkerSound
    <2>2. CASE Restart
      BY <1>1, <2>2 DEF Restart, RunnerInv, RunnerTypeOK
    <2>3. CASE Worker \/ Outcome \/ UNCHANGED runnerVars
      BY <1>1, <2>3
      DEF Worker, Outcome, runnerVars, DirectoryMade, DirectoryFails, Retry, StrixExits,
          StrixThrows, JobThrows, StartReport, ReportAcknowledged, ReportRejected,
          ReportFails, GiveUp, TakeNext
    <2> QED
      BY <1>1, <2>1, <2>2, <2>3 DEF RunnerNext
  <1>2. RunnerInv /\ [RunnerNext]_runnerVars =>
          [queue # <<>> /\ restarts' = restarts => Kept]_runnerVars
    BY <1>1
  <1> QED
    BY <1>2, RunnerInvariant, PTL DEF RunnerSpec, StartedInOrder
=============================================================================
