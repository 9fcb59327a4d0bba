--------------------------- MODULE ManagedScanProofs ---------------------------
(***************************************************************************)
(* The composition of HCSC with the managed API implements HCSC with an    *)
(* open provider, and a run that shows as completed has every finding of   *)
(* its scan, however polls overlap.                                        *)
(***************************************************************************)
EXTENDS ManagedScan, SecurityTestRunProofs

ScanRow == [run : Runs \union {None}, status : ScanStatus, vulns : Payloads]
PollRow == [run : Runs \union {None}, ext : ExtIds \union {None},
            got : ScanStatus \union {"nothing"}, vulns : Payloads]

\* The scan is the one that was created for the run.
Owned(r, x) == r \in Runs /\ x \in ExtIds /\ scan[x].run = r

\* The scan has ended, and these are all of its findings.
Complete(x, findings) ==
    scan[x].status \in ScanEnded /\ DOMAIN scan[x].vulns \subseteq findings

PollOK(h) ==
    /\ poll[h].got # "nothing" => poll[h].run # None
    /\ poll[h].run # None => Owned(poll[h].run, poll[h].ext)
    /\ poll[h].got \in ScanEnded => Complete(poll[h].ext, DOMAIN poll[h].vulns)

ReqOwn(h) ==
    /\ pc[h] \in {"launchTx", "tx", "commit"} => Owned(req[h].run, req[h].ext)
    /\ pc[h] = "launchTx" => req[h].status # "completed"
    /\ pc[h] \in {"tx", "commit"} /\ req[h].status = "completed" =>
          Complete(req[h].ext, DOMAIN req[h].payload)

RunOwn(r) ==
    /\ run[r].ext # None => Owned(r, run[r].ext)
    /\ run[r].status = "completed" => run[r].ext # None /\ Complete(run[r].ext, Stored(r))

ApiOK ==
    /\ scan \in [ExtIds -> ScanRow]
    /\ poll \in [Handlers -> PollRow]
    /\ \A x, y \in ExtIds : scan[x].run # None /\ scan[x].run = scan[y].run => x = y
    /\ \A h \in Handlers : PollOK(h)

OwnershipOK ==
    /\ \A h \in Handlers : ReqOwn(h)
    /\ \A r \in Runs : RunOwn(r)

ManagedInv == HcscInv /\ ApiOK /\ OwnershipOK

-----------------------------------------------------------------------------
\* What a poll got is a report that a provider may send.
LEMMA PollReport ==
    ASSUME ManagedInv, NEW h \in Handlers, poll[h].got # "nothing"
    PROVE  /\ poll[h].run \in Runs /\ poll[h].ext \in ExtIds /\ poll[h].vulns \in Payloads
           /\ MapStatus(poll[h].got) \in Reports
           /\ MapStatus(poll[h].got) = "completed" => poll[h].got \in ScanEnded
           /\ Owned(poll[h].run, poll[h].ext)
  <1>1. poll[h] \in PollRow /\ PollOK(h)
    BY DEF ManagedInv, ApiOK
  <1>2. poll[h].got \in ScanStatus /\ poll[h].vulns \in Payloads
    BY <1>1 DEF PollRow
  <1>3. Owned(poll[h].run, poll[h].ext)
    BY <1>1 DEF PollOK
  <1> QED
    BY <1>2, <1>3, ManagedAssumption
    DEF ManagedAssumption, MapStatus, ScanStatus, ScanEnded, Reported, Terminal, Owned

LEMMA ManagedStepImplements ==
    ASSUME ManagedInv, [ManagedNext]_managedVars
    PROVE  [HcscNext]_hcscVars
  <1>1. CASE UNCHANGED managedVars
    BY <1>1 DEF managedVars, hcscVars
  <1>2. ASSUME NEW h \in Handlers, \E r \in Runs : Launch(h, r) \/ PollRead(h, r)
        PROVE  [HcscNext]_hcscVars
    BY <1>2, ManagedAssumption DEF ManagedAssumption, Launch, PollRead, HcscNext, Outside
  <1>3. ASSUME NEW h \in Handlers, NEW x \in ExtIds, ScanCreated(h, x) \/ CreatedUnheard(h, x)
        PROVE  HcscNext
    BY <1>3 DEF ScanCreated, CreatedUnheard, MapStatus, HcscNext, Outside
  <1>4. ASSUME NEW h \in Handlers, ScanRefused(h) \/ PollFetch(h) \/ PollFails(h)
        PROVE  [HcscNext]_hcscVars
    BY <1>4 DEF ScanRefused, PollFetch, PollFails, HcscNext, Outside
  <1>5. ASSUME NEW h \in Handlers, PollApply(h)
        PROVE  [HcscNext]_hcscVars
    <2>1. PICK r, ext, status, p :
             /\ r = poll[h].run /\ ext = poll[h].ext
             /\ status = MapStatus(poll[h].got) /\ p = poll[h].vulns
      OBVIOUS
    <2>2. r \in Runs /\ ext \in ExtIds /\ status \in Reports /\ p \in Payloads
      BY <1>5, <2>1, PollReport DEF PollApply
    <2>3. UNCHANGED hcscVars \/ CallbackRead(h, r, ext, status, p)
      BY <1>5, <2>1 DEF PollApply
    <2> QED
      BY <2>2, <2>3 DEF HcscNext, Outside
  <1>6. ASSUME NEW h \in Handlers, HcscStep(h) \/ HcscFault(h)
        PROVE  HcscNext
    BY <1>6 DEF HcscStep, HcscFault, HcscNext
  <1>7. CASE (\E x \in ExtIds : ScanFinds(x) \/ ScanAdvances(x)) \/ Expiry
    BY <1>7 DEF ScanFinds, ScanAdvances, Expiry, HcscNext
  <1> QED
    BY <1>1, <1>2, <1>3, <1>4, <1>5, <1>6, <1>7 DEF ManagedNext

-----------------------------------------------------------------------------
(* The API's scans *)

\* A scan stays its run's, and does not change once it has ended.
ScansKept ==
    \A x \in ExtIds : /\ scan[x].run # None => scan'[x].run = scan[x].run
                      /\ scan[x].status \in ScanEnded /\ scan[x].run # None =>
                            scan'[x] = scan[x]

LEMMA ScanStep ==
    ASSUME ManagedInv, [ManagedNext]_managedVars
    PROVE  /\ scan' \in [ExtIds -> ScanRow]
           /\ \A x, y \in ExtIds : scan'[x].run # None /\ scan'[x].run = scan'[y].run => x = y
           /\ ScansKept
  <1>0. /\ scan \in [ExtIds -> ScanRow]
        /\ \A x, y \in ExtIds : scan[x].run # None /\ scan[x].run = scan[y].run => x = y
        /\ {"pending", "running"} \intersect ScanEnded = {}
        /\ {"pending", "running"} \union ScanEnded = ScanStatus
    BY DEF ManagedInv, ApiOK, ScanEnded, ScanStatus
  <1>1. CASE scan' = scan
    BY <1>0, <1>1 DEF ScansKept
  <1>2. ASSUME NEW h \in Handlers, NEW x \in ExtIds, NEW status \in ScanStatus,
               Create(h, x, status)
        PROVE  /\ scan' \in [ExtIds -> ScanRow]
               /\ \A y, z \in ExtIds : scan'[y].run # None /\ scan'[y].run = scan'[z].run => y = z
               /\ ScansKept
    <2>1. PICK row : row = [NoScan EXCEPT !.run = req[h].run, !.status = status]
      OBVIOUS
    <2>2. /\ req[h].run \in Runs /\ scan[x] = NoScan
          /\ \A y \in ExtIds : scan[y].run # req[h].run
          /\ scan' = [scan EXCEPT ![x] = row]
      BY <1>2, <2>1 DEF Create, ManagedInv, HcscInv, RequestsConsistent, RequestOK, At
    <2>3. row \in ScanRow /\ row.run = req[h].run
      BY <2>1, <2>2, ManagedAssumption DEF ManagedAssumption, NoScan, ScanRow
    <2>4. scan[x].run = None
      BY <2>2 DEF NoScan
    <2> QED
      BY <1>0, <2>2, <2>3, <2>4 DEF ScansKept
  <1>3. ASSUME NEW x \in ExtIds, NEW row \in ScanRow, scan' = [scan EXCEPT ![x] = row],
               row.run = scan[x].run, scan[x].run = None \/ scan[x].status \notin ScanEnded
        PROVE  /\ scan' \in [ExtIds -> ScanRow]
               /\ \A y, z \in ExtIds : scan'[y].run # None /\ scan'[y].run = scan'[z].run => y = z
               /\ ScansKept
    BY <1>0, <1>3 DEF ScansKept
  <1>4. ASSUME NEW x \in ExtIds, ScanFinds(x)
        PROVE  \E row \in ScanRow :
                  /\ scan' = [scan EXCEPT ![x] = row] /\ row.run = scan[x].run
                  /\ scan[x].run = None \/ scan[x].status \notin ScanEnded
    <2>1. PICK p \in Payloads : scan' = [scan EXCEPT ![x].vulns = p]
      BY <1>4 DEF ScanFinds
    <2>2. PICK row : row = [scan[x] EXCEPT !.vulns = p]
      OBVIOUS
    <2>3. row \in ScanRow /\ row.run = scan[x].run
      BY <1>0, <2>2 DEF ScanRow
    <2>4. scan[x].status \notin ScanEnded
      BY <1>0, <1>4 DEF ScanFinds
    <2> QED
      BY <1>0, <2>1, <2>2, <2>3, <2>4
  <1>5. ASSUME NEW x \in ExtIds, ScanAdvances(x)
        PROVE  \E row \in ScanRow :
                  /\ scan' = [scan EXCEPT ![x] = row] /\ row.run = scan[x].run
                  /\ scan[x].run = None \/ scan[x].status \notin ScanEnded
    <2>1. PICK status \in ScanStatus : /\ scan' = [scan EXCEPT ![x].status = status]
                                       /\ scan[x].status \notin ScanEnded
      BY <1>0, <1>5 DEF ScanAdvances
    <2>2. PICK row : row = [scan[x] EXCEPT !.status = status]
      OBVIOUS
    <2>3. row \in ScanRow /\ row.run = scan[x].run
      BY <1>0, <2>2 DEF ScanRow
    <2> QED
      BY <1>0, <2>1, <2>2, <2>3
  <1>6. \/ scan' = scan
        \/ \E h \in Handlers, x \in ExtIds, status \in ScanStatus : Create(h, x, status)
        \/ \E x \in ExtIds : ScanFinds(x) \/ ScanAdvances(x)
    <2>1. CASE UNCHANGED managedVars
      BY <2>1 DEF managedVars
    <2>2. ASSUME NEW h \in Handlers, NEW x \in ExtIds, ScanCreated(h, x) \/ CreatedUnheard(h, x)
          PROVE  \E status \in ScanStatus : Create(h, x, status)
      BY <2>2 DEF ScanCreated, CreatedUnheard, ScanStatus, ScanEnded
    <2>3. ASSUME NEW h \in Handlers,
                 \/ \E r \in Runs : Launch(h, r) \/ PollRead(h, r)
                 \/ ScanRefused(h) \/ PollFetch(h) \/ PollFails(h) \/ PollApply(h)
                 \/ HcscStep(h) \/ HcscFault(h)
          PROVE  scan' = scan
      BY <2>3 DEF Launch, PollRead, ScanRefused, PollFetch, PollFails, PollApply, HcscStep,
                  HcscFault, apiVars
    <2>4. CASE Expiry
      BY <2>4 DEF Expiry, apiVars
    <2> QED
      BY <2>1, <2>2, <2>3, <2>4 DEF ManagedNext
  <1> QED
    BY <1>1, <1>2, <1>3, <1>4, <1>5, <1>6

LEMMA OwnedKept ==
    ASSUME ScansKept, NEW r, NEW x, Owned(r, x)
    PROVE  /\ scan'[x].run = r /\ r \in Runs /\ x \in ExtIds
           /\ scan[x].status \in ScanEnded => scan'[x] = scan[x]
  BY RunAssumption DEF RunAssumption, ScansKept, Owned

LEMMA NoPollOK ==
    ASSUME NEW h \in Handlers, poll'[h] = NoPoll
    PROVE  PollOK(h)' /\ NoPoll \in PollRow
  BY ManagedAssumption DEF ManagedAssumption, PollOK, NoPoll, ScanEnded, PollRow

LEMMA PollStep ==
    ASSUME ManagedInv, [ManagedNext]_managedVars
    PROVE  ApiOK'
  <1>0. /\ scan \in [ExtIds -> ScanRow] /\ poll \in [Handlers -> PollRow] /\ ScansKept
        /\ scan' \in [ExtIds -> ScanRow]
        /\ \A x, y \in ExtIds : scan'[x].run # None /\ scan'[x].run = scan'[y].run => x = y
    BY ScanStep DEF ManagedInv, ApiOK
  <1>1. ASSUME NEW g \in Handlers, poll'[g] = poll[g]
        PROVE  PollOK(g)'
    <2>1. PollOK(g) /\ poll[g] \in PollRow
      BY <1>0 DEF ManagedInv, ApiOK
    <2>2. CASE poll[g].run = None
      <3>1. poll[g].got = "nothing"
        BY <2>1, <2>2 DEF PollOK
      <3> QED
        BY <1>1, <2>2, <3>1 DEF PollOK, ScanEnded
    <2>3. CASE poll[g].run # None
      <3>1. Owned(poll[g].run, poll[g].ext)
        BY <2>1, <2>3 DEF PollOK
      <3>2. /\ scan'[poll[g].ext].run = poll[g].run
            /\ poll[g].run \in Runs /\ poll[g].ext \in ExtIds
            /\ scan[poll[g].ext].status \in ScanEnded => scan'[poll[g].ext] = scan[poll[g].ext]
        BY <1>0, <3>1, OwnedKept
      <3> QED
        BY <1>1, <2>1, <3>1, <3>2 DEF PollOK, Owned, Complete
    <2> QED
      BY <2>2, <2>3
  <1>2. ASSUME NEW h \in Handlers, NEW row \in PollRow, poll' = [poll EXCEPT ![h] = row], PollOK(h)'
        PROVE  poll' \in [Handlers -> PollRow] /\ \A g \in Handlers : PollOK(g)'
    BY <1>0, <1>1, <1>2
  <1>3. ASSUME NEW h \in Handlers, NEW r \in Runs, PollRead(h, r)
        PROVE  poll' \in [Handlers -> PollRow] /\ \A g \in Handlers : PollOK(g)'
    <2>1. poll[h] = NoPoll /\ run[r].ext # None /\ scan' = scan
          /\ poll' = [poll EXCEPT ![h].run = r, ![h].ext = run[r].ext]
      BY <1>3 DEF PollRead, Free, Active
    <2>2. Owned(r, run[r].ext)
      BY <2>1 DEF ManagedInv, OwnershipOK, RunOwn
    <2>3. PICK row : row = [NoPoll EXCEPT !.run = r, !.ext = run[r].ext]
      OBVIOUS
    <2>4. /\ row.run = r /\ row.ext = run[r].ext /\ row.got = "nothing"
          /\ row \in PollRow
      BY <2>2, <2>3, ManagedAssumption DEF ManagedAssumption, NoPoll, PollRow, Owned
    <2>5. poll' = [poll EXCEPT ![h] = row]
      BY <1>0, <2>1, <2>3
    <2>6. PollOK(h)'
      BY <1>0, <2>1, <2>2, <2>4, <2>5 DEF PollOK, Owned, ScanEnded
    <2> QED
      BY <1>2, <2>4, <2>5, <2>6
  <1>4. ASSUME NEW h \in Handlers, PollFetch(h)
        PROVE  poll' \in [Handlers -> PollRow] /\ \A g \in Handlers : PollOK(g)'
    <2>1. PICK x : x = poll[h].ext
      OBVIOUS
    <2>2. /\ poll[h].run # None /\ scan' = scan
          /\ poll' = [poll EXCEPT ![h].got = scan[x].status, ![h].vulns = scan[x].vulns]
      BY <1>4, <2>1 DEF PollFetch
    <2>3. Owned(poll[h].run, x) /\ poll[h] \in PollRow /\ x \in ExtIds
      BY <1>0, <2>1, <2>2 DEF ManagedInv, ApiOK, PollOK, Owned
    <2>4. PICK row : row = [poll[h] EXCEPT !.got = scan[x].status, !.vulns = scan[x].vulns]
      OBVIOUS
    <2>5. /\ row.run = poll[h].run /\ row.ext = x /\ row.got = scan[x].status
          /\ row.vulns = scan[x].vulns /\ row \in PollRow
      BY <1>0, <2>1, <2>3, <2>4 DEF PollRow, ScanRow
    <2>6. poll' = [poll EXCEPT ![h] = row]
      BY <1>0, <2>2, <2>4
    <2>7. PollOK(h)'
      BY <1>0, <2>2, <2>3, <2>5, <2>6 DEF PollOK, Owned, Complete
    <2> QED
      BY <1>2, <2>5, <2>6, <2>7
  <1>5. ASSUME NEW h \in Handlers, PollFails(h) \/ PollApply(h)
        PROVE  poll' \in [Handlers -> PollRow] /\ \A g \in Handlers : PollOK(g)'
    <2>1. poll' = [poll EXCEPT ![h] = NoPoll]
      BY <1>5 DEF PollFails, PollApply
    <2>2. poll'[h] = NoPoll
      BY <1>0, <2>1
    <2> QED
      BY <1>2, <2>1, <2>2, NoPollOK
  <1>6. ASSUME poll' = poll
        PROVE  poll' \in [Handlers -> PollRow] /\ \A g \in Handlers : PollOK(g)'
    <2>1. \A g \in Handlers : PollOK(g)'
      BY <1>1, <1>6
    <2> QED
      BY <1>0, <1>6, <2>1
  <1>7. \/ poll' = poll
        \/ \E h \in Handlers : \/ \E r \in Runs : PollRead(h, r)
                               \/ PollFetch(h) \/ PollFails(h) \/ PollApply(h)
    BY DEF ManagedNext, managedVars, apiVars, Launch, ScanCreated, CreatedUnheard, Create,
       ScanRefused, HcscStep, HcscFault, ScanFinds, ScanAdvances, Expiry
  <1>8. poll' \in [Handlers -> PollRow] /\ \A g \in Handlers : PollOK(g)'
    BY <1>3, <1>4, <1>5, <1>6, <1>7
  <1> QED
    BY <1>0, <1>8 DEF ApiOK

-----------------------------------------------------------------------------
(* What HCSC writes *)

\* The requests that move carry what is the run's.
LEMMA RequestsOwn ==
    ASSUME ManagedInv, [HcscNext]_hcscVars, ScansKept,
           NEW h \in Handlers, Still(h) \/ ReqOwn(h)'
    PROVE  ReqOwn(h)'
  <1> SUFFICES ASSUME Still(h) PROVE ReqOwn(h)'
    OBVIOUS
  <1>1. ReqOwn(h)
    BY DEF ManagedInv, OwnershipOK
  <1>2. CASE pc[h] \in {"launchTx", "tx", "commit"}
    <2>1. PICK r, x : r = req[h].run /\ x = req[h].ext
      OBVIOUS
    <2>2. Owned(r, x)
      BY <1>1, <1>2, <2>1 DEF ReqOwn
    <2>3. /\ scan'[x].run = r /\ r \in Runs /\ x \in ExtIds
          /\ scan[x].status \in ScanEnded => scan'[x] = scan[x]
      BY <2>2, OwnedKept
    <2> QED
      BY <1>1, <2>1, <2>3 DEF Still, ReqOwn, Owned, Complete
  <1>3. CASE pc[h] \notin {"launchTx", "tx", "commit"}
    BY <1>3 DEF Still, ReqOwn
  <1> QED
    BY <1>2, <1>3

LEMMA RowsOwn ==
    ASSUME ManagedInv, [HcscNext]_hcscVars, ScansKept, NEW r \in Runs
    PROVE  RunOwn(r)'
  <1>0. HcscTypeOK /\ RequestsConsistent /\ run[r] \in Row /\ RunOwn(r)
    BY DEF ManagedInv, HcscInv, HcscTypeOK, OwnershipOK
  <1>1. ASSUME run'[r].ext = run[r].ext,
               run'[r].status = run[r].status \/ run'[r].status # "completed"
        PROVE  RunOwn(r)'
    <2>1. PICK x : x = run[r].ext
      OBVIOUS
    <2>2. CASE x = None
      BY <1>0, <1>1, <2>1, <2>2 DEF RunOwn
    <2>3. CASE x # None
      <3>1. Owned(r, x)
        BY <1>0, <2>1, <2>3 DEF RunOwn
      <3>2. /\ scan'[x].run = r /\ x \in ExtIds
            /\ scan[x].status \in ScanEnded => scan'[x] = scan[x]
        BY <3>1, OwnedKept
      <3>3. Stored(r) \subseteq Stored(r)'
        BY <1>0, FindingLasts DEF Stored
      <3> QED
        BY <1>0, <1>1, <2>1, <2>3, <3>2, <3>3 DEF RunOwn, Owned, Complete
    <2> QED
      BY <2>2, <2>3
  <1>2. ASSUME NEW h \in Handlers, NEW q \in Runs, NEW mode \in Modes, LaunchStart(h, q, mode)
        PROVE  RunOwn(r)'
    <2>1. \/ run'[r] = run[r]
          \/ run'[r].ext = None /\ run'[r].status = "queued"
      BY <1>0, <1>2 DEF LaunchStart, HcscTypeOK, NotCreated
    <2> QED
      BY <1>1, <2>1 DEF RunOwn
  <1>3. ASSUME NEW h \in Handlers, LaunchCatch(h)
        PROVE  RunOwn(r)'
    <2>1. run'[r].ext = run[r].ext
          /\ (run'[r].status = run[r].status \/ run'[r].status = "failed")
      BY <1>0, <1>3 DEF LaunchCatch, HcscTypeOK, Row
    <2> QED
      BY <1>1, <2>1
  <1>4. ASSUME NEW h \in Handlers, LaunchTx(h) \/ CallbackCommit(h)
        PROVE  RunOwn(r)'
    <2>1. \/ run'[r] = run[r]
          \/ r = req[h].run /\ run'[r].ext = req[h].ext /\ run'[r].status = req[h].status
      BY <1>0, <1>4, LaunchTxRow, CallbackCommitRow
    <2>2. CASE r = req[h].run /\ run'[r].ext = req[h].ext /\ run'[r].status = req[h].status
      <3>1. PICK x : x = req[h].ext
        OBVIOUS
      <3>2. /\ ReqOwn(h) /\ pc[h] \in {"launchTx", "commit"}
            /\ CallbackCommit(h) => pc[h] = "commit"
            /\ LaunchTx(h) => pc[h] = "launchTx"
        BY <1>4 DEF ManagedInv, OwnershipOK, LaunchTx, CallbackCommit, At
      <3>3. Owned(r, x)
        BY <2>2, <3>1, <3>2 DEF ReqOwn
      <3>4. /\ scan'[x].run = r /\ x \in ExtIds /\ x # None
            /\ scan[x].status \in ScanEnded => scan'[x] = scan[x]
        BY <3>3, OwnedKept, RunAssumption DEF RunAssumption
      <3>5. ASSUME run'[r].status = "completed"
            PROVE  Complete(x, Stored(r))'
        <4>1. CallbackCommit(h) /\ Complete(x, DOMAIN req[h].payload)
          BY <1>4, <2>2, <3>1, <3>2, <3>5 DEF ReqOwn
        <4>2. PICK p \in PartialSeverities : p = req[h].payload
          BY <1>0 DEF HcscTypeOK, Request
        <4>3. finding'[r] = UpsertedRows(r, p)
          BY <1>0, <2>2, <4>1, <4>2 DEF CallbackCommit, HcscTypeOK
        <4>4. DOMAIN p \subseteq Stored(r)'
          BY <1>0, <4>3, UpsertKeeps, PartialSeveritiesElim DEF Stored
        <4> QED
          BY <3>4, <4>1, <4>2, <4>4 DEF Complete
      <3> QED
        BY <2>2, <3>1, <3>4, <3>5 DEF RunOwn, Owned
    <2> QED
      BY <1>1, <2>1, <2>2
  <1> QED
    BY <1>1, <1>2, <1>3, <1>4, Writers DEF RunWritten

-----------------------------------------------------------------------------
(* Every request that moves carries what is its run's *)

LEMMA CreatedOwn ==
    ASSUME ManagedInv, NEW h \in Handlers, NEW x \in ExtIds,
           ScanCreated(h, x) \/ CreatedUnheard(h, x)
    PROVE  pc'[h] # pc[h] /\ ReqOwn(h)'
  <1>1. pc \in [Handlers -> Step] /\ req \in [Handlers -> Request] /\ req[h] \in Request
    BY DEF ManagedInv, HcscInv, HcscTypeOK
  <1>2. CASE LaunchRefused(h)
    <2>1. pc[h] = "awaitProvider" /\ pc'[h] = "launchCatch"
      BY <1>1, <1>2 DEF LaunchRefused, Goto, At
    <2> QED
      BY <2>1 DEF ReqOwn
  <1>3. ASSUME NEW status \in {"pending", "running"}, Create(h, x, status),
               LiveAnswer(h, x, MapStatus(status))
        PROVE  pc'[h] # pc[h] /\ ReqOwn(h)'
    <2>1. PICK row : row = [NoScan EXCEPT !.run = req[h].run, !.status = status]
      OBVIOUS
    <2>2. /\ pc[h] = "awaitProvider" /\ req[h].run \in Runs
          /\ scan' = [scan EXCEPT ![x] = row]
      BY <1>3, <2>1 DEF Create, ManagedInv, HcscInv, RequestsConsistent, RequestOK, At
    <2>3. scan'[x].run = req[h].run
      BY <2>1, <2>2 DEF ManagedInv, ApiOK, NoScan
    <2>4. PICK told : told = MapStatus(status)
      OBVIOUS
    <2>5. told # "completed"
      BY <1>3, <2>4 DEF MapStatus
    <2>6. /\ pc'[h] = "launchTx" /\ req'[h].run = req[h].run /\ req'[h].ext = x
          /\ req'[h].status = told
      BY <1>1, <1>3, <2>4 DEF LiveAnswer, LaunchAnswer, Goto, Request
    <2> QED
      BY <2>2, <2>3, <2>5, <2>6 DEF ReqOwn, Owned
  <1> QED
    BY <1>2, <1>3 DEF ScanCreated, CreatedUnheard

LEMMA AppliedOwn ==
    ASSUME ManagedInv, [ManagedNext]_managedVars, NEW h \in Handlers, PollApply(h)
    PROVE  UNCHANGED hcscVars \/ (pc'[h] # pc[h] /\ ReqOwn(h)')
  <1>1. PICK r, x, status, p : /\ r = poll[h].run /\ x = poll[h].ext
                               /\ status = MapStatus(poll[h].got) /\ p = poll[h].vulns
    OBVIOUS
  <1>2. /\ poll[h].got # "nothing" /\ scan' = scan
        /\ UNCHANGED hcscVars \/ CallbackRead(h, r, x, status, p)
    BY <1>1 DEF PollApply
  <1>3. /\ Owned(r, x)
        /\ status = "completed" => Complete(x, DOMAIN p)
    BY <1>1, <1>2, PollReport DEF ManagedInv, ApiOK, PollOK
  <1>4. ASSUME CallbackRead(h, r, x, status, p)
        PROVE  pc'[h] # pc[h] /\ ReqOwn(h)'
    <2>1. pc \in [Handlers -> Step] /\ req \in [Handlers -> Request]
      BY DEF ManagedInv, HcscInv, HcscTypeOK
    <2>2. /\ pc[h] = "idle" /\ pc'[h] = "tx"
          /\ req'[h].run = r /\ req'[h].ext = x
          /\ req'[h].status = status /\ req'[h].payload = p
      BY <1>4, <2>1 DEF CallbackRead, At, Goto, NoRequest
    <2> QED
      BY <1>2, <1>3, <2>2 DEF ReqOwn, Owned, Complete
  <1> QED
    BY <1>2, <1>4

LEMMA OwnOwn ==
    ASSUME ManagedInv, ScansKept, NEW h \in Handlers, HcscStep(h) \/ HcscFault(h)
    PROVE  pc'[h] # pc[h] /\ ReqOwn(h)'
  <1>1. HcscTypeOK /\ pc \in [Handlers -> Step] /\ ReqOwn(h)
    BY DEF ManagedInv, HcscInv, HcscTypeOK, OwnershipOK
  <1>2. pc'[h] # pc[h]
    BY <1>1, RequestMoves DEF HcscStep, HcscFault
  <1>3. CASE HcscFault(h)
    <2>1. pc'[h] \in {"idle", "launchCatch"}
      BY <1>1, <1>3 DEF HcscFault, Fault, LaunchError, Crash, Respond, Goto
    <2> QED
      BY <1>2, <2>1 DEF ReqOwn
  <1>4. CASE HcscStep(h) /\ pc'[h] \in {"launchTx", "tx", "commit"}
    <2>1. /\ req'[h].run = req[h].run /\ pc[h] = "tx" /\ req'[h].ext = req[h].ext
          /\ req'[h].status = req[h].status /\ req'[h].payload = req[h].payload
      BY <1>1, <1>4, RequestGoesOn DEF HcscStep
    <2>2. scan' = scan /\ pc'[h] = "commit"
      BY <1>1, <1>4, <2>1
      DEF HcscStep, apiVars, OwnStep, CallbackCount, Goto, At, LaunchTx, LaunchCatch,
          CallbackCommit, CreateEvent, LinkFinding, LinkDone, Notify, TriageWrite, WriteEventStatus
    <2> QED
      BY <1>1, <1>2, <2>1, <2>2 DEF ReqOwn, Owned, Complete
  <1>5. CASE pc'[h] \notin {"launchTx", "tx", "commit"}
    BY <1>2, <1>5 DEF ReqOwn
  <1> QED
    BY <1>3, <1>4, <1>5

LEMMA OneMoverOwn ==
    ASSUME ManagedInv, [ManagedNext]_managedVars
    PROVE  \/ UNCHANGED <<pc, req>>
           \/ \E h \in Handlers : pc'[h] # pc[h] /\ ReqOwn(h)'
  <1>0. pc \in [Handlers -> Step] /\ ScansKept
    BY ScanStep DEF ManagedInv, HcscInv, HcscTypeOK
  <1>1. ASSUME NEW h \in Handlers, NEW r \in Runs, Launch(h, r)
        PROVE  pc'[h] # pc[h] /\ ReqOwn(h)'
    <2>1. pc[h] = "idle" /\ pc'[h] = "awaitProvider"
      BY <1>0, <1>1 DEF Launch, LaunchStart, At, Goto
    <2> QED
      BY <2>1 DEF ReqOwn
  <1>2. ASSUME NEW h \in Handlers, ScanRefused(h)
        PROVE  pc'[h] # pc[h] /\ ReqOwn(h)'
    <2>1. pc[h] = "awaitProvider" /\ pc'[h] = "launchCatch"
      BY <1>0, <1>2 DEF ScanRefused, LaunchRefused, At, Goto
    <2> QED
      BY <2>1 DEF ReqOwn
  <1>3. ASSUME NEW h \in Handlers,
               (\E r \in Runs : PollRead(h, r)) \/ PollFetch(h) \/ PollFails(h)
        PROVE  UNCHANGED <<pc, req>>
    BY <1>3 DEF PollRead, PollFetch, PollFails, hcscVars
  <1>4. CASE \/ UNCHANGED managedVars \/ Expiry
             \/ \E x \in ExtIds : ScanFinds(x) \/ ScanAdvances(x)
    BY <1>4 DEF managedVars, Expiry, AuthorizationExpires, ScanFinds, ScanAdvances, hcscVars
  <1>5. ASSUME NEW h \in Handlers, PollApply(h)
        PROVE  UNCHANGED <<pc, req>> \/ (pc'[h] # pc[h] /\ ReqOwn(h)')
    BY <1>5, AppliedOwn DEF hcscVars
  <1> QED
    BY <1>0, <1>1, <1>2, <1>3, <1>4, <1>5, CreatedOwn, OwnOwn DEF ManagedNext

-----------------------------------------------------------------------------
(* The inductive invariant and the theorems *)

LEMMA ManagedInvInit == ManagedInit => ManagedInv
  <1> SUFFICES ASSUME ManagedInit PROVE ManagedInv
    OBVIOUS
  <1>1. HcscInv
    BY HcscInvInit DEF ManagedInit
  <1>2. ApiOK
    BY ManagedAssumption
    DEF ManagedAssumption, ManagedInit, ApiOK, PollOK, NoPoll, NoScan, ScanRow, PollRow,
        ScanStatus, ScanEnded
  <1>3. OwnershipOK
    BY DEF ManagedInit, HcscInit, OwnershipOK, ReqOwn, RunOwn, NotCreated
  <1> QED
    BY <1>1, <1>2, <1>3 DEF ManagedInv

LEMMA ManagedInvNext ==
    ASSUME ManagedInv, [ManagedNext]_managedVars
    PROVE  ManagedInv'
  <1>1. [HcscNext]_hcscVars /\ ScansKept /\ HcscTypeOK
    BY ManagedStepImplements, ScanStep DEF ManagedInv, HcscInv
  <1>2. \A h \in Handlers : Still(h) \/ ReqOwn(h)'
    <2>1. CASE UNCHANGED <<pc, req>>
      BY <2>1 DEF Still
    <2>2. ASSUME NEW h \in Handlers, pc'[h] # pc[h], ReqOwn(h)'
          PROVE  \A g \in Handlers : Still(g) \/ ReqOwn(g)'
      BY <1>1, <2>2, OnlyMover
    <2> QED
      BY <2>1, <2>2, OneMoverOwn
  <1>3. OwnershipOK'
    BY <1>1, <1>2, RequestsOwn, RowsOwn DEF OwnershipOK
  <1> QED
    BY <1>1, <1>3, PollStep, HcscInvNext DEF ManagedInv

\* The invariant of the composition: a run, its requests and its polls mean one scan.
THEOREM ManagedInvariant == ManagedSpec => []ManagedInv
  <1>1. ManagedInit => ManagedInv
    BY ManagedInvInit
  <1>2. ManagedInv /\ [ManagedNext]_managedVars => ManagedInv'
    BY ManagedInvNext
  <1> QED
    BY <1>1, <1>2, PTL DEF ManagedSpec

\* A managed scan implements HCSC's side with an open provider, so every theorem of
\* SecurityTestRun holds of it.
THEOREM ManagedImplementsHcsc == ManagedSpec => HcscSpec
  <1>1. ManagedInit => HcscInit
    BY DEF ManagedInit
  <1>2. ManagedInv /\ [ManagedNext]_managedVars => [HcscNext]_hcscVars
    BY ManagedStepImplements
  <1> QED
    BY <1>1, <1>2, ManagedInvariant, PTL DEF ManagedSpec, HcscSpec

\* A completed run shows all that its scan has found, whatever older polls write later.
THEOREM CompletedRunsFull == ManagedSpec => []CompletedRunHasAllFindings
  <1>1. ManagedInv => CompletedRunHasAllFindings
    BY DEF ManagedInv, OwnershipOK, RunOwn, Complete, CompletedRunHasAllFindings
  <1> QED
    BY <1>1, ManagedInvariant, PTL
=============================================================================
