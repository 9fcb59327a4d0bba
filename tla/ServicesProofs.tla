--------------------------- MODULE ServicesProofs ---------------------------
(***************************************************************************)
(* What the services that use no transaction still promise: a domain is    *)
(* active as it was checked, the risk engines feed each other only         *)
(* upwards, and the response engines leave one record of each thing they   *)
(* do, whatever stops half-way.                                            *)
(***************************************************************************)
EXTENDS Response, Domains, RiskEngines, FiniteSetTheorems, TLAPS

-----------------------------------------------------------------------------
(* Domains *)

\* What a request at work on a domain rests on: the row is there, and an answer of
\* Cloudflare is about the zone that was read.
TaskFits(r) ==
    /\ r.kind = "connect" => domain[r.of] \in Domain /\ r.zone \in Zones
    /\ r.kind = "check" => domain[r.of] \in Domain /\ r.read \in Domain
    /\ r.kind = "check" /\ r.stage = "zone" => r.read.zone # Nothing
    /\ r.ready => r.kind = "check" /\ r.read.zone # Nothing

\* A hostname whose requests have not overlapped has one at most, and the row is as
\* that one has read it.
SoleTask(n) ==
    \A t \in Tasks : task[t] # Nothing /\ task[t].of = n =>
       /\ \A q \in Tasks : task[q] # Nothing /\ task[q].of = n => q = t
       /\ task[t].kind = "check" => task[t].read = domain[n]

DomainsInv ==
    /\ DomainsTypeOK
    /\ \A t \in Tasks : task[t] # Nothing => TaskFits(task[t])
    /\ \A n \in Hostnames \ overlapped : SoleTask(n)
    /\ ActiveAsChecked

\* A request that starts has a row of its own, and overlaps with the others of its
\* hostname.
LEMMA TakeKeeps ==
    ASSUME DomainsInv, NEW t \in Tasks, NEW r \in Task, Take(t, r), TaskFits(r),
           r.kind = "check" => r.read = domain[r.of],
           UNCHANGED <<domain, outside, past>>
    PROVE  DomainsInv'
  <1> USE DEF DomainsInv, Take, outside, past
  <1>1. DomainsTypeOK'
    BY DomainAssumption DEF DomainsTypeOK, Task
  <1>2. /\ task'[t] = r /\ \A q \in Tasks \ {t} : task'[q] = task[q]
        /\ task[t] = Nothing /\ overlapped \subseteq overlapped'
        /\ (\E q \in Tasks : task[q] # Nothing /\ task[q].of = r.of) => r.of \in overlapped'
    BY DEF DomainsTypeOK, Task
  <1>3. \A q \in Tasks : task'[q] # Nothing => TaskFits(task[q])' \/ q = t
    BY <1>2 DEF TaskFits
  <1>4. TaskFits(task[t])'
    BY <1>2 DEF TaskFits
  <1>5. ASSUME NEW n \in Hostnames \ overlapped' PROVE SoleTask(n)'
    BY <1>2, <1>5 DEF SoleTask
  <1>6. ActiveAsChecked'
    BY <1>2 DEF ActiveAsChecked, Added
  <1> QED BY <1>1, <1>3, <1>4, <1>5, <1>6

\* A request that goes on, or ends, without writing the row.
LEMMA StepKeeps ==
    ASSUME DomainsInv, NEW t \in Tasks, task[t] # Nothing, NEW r \in Task \union {Nothing},
           task' = [task EXCEPT ![t] = r],
           r # Nothing => /\ TaskFits(r) /\ r.of = task[t].of
                          /\ r.kind = task[t].kind /\ r.read = task[t].read,
           UNCHANGED <<domain, outside, tasks, past, overlapped>>
    PROVE  DomainsInv'
  <1> USE DEF DomainsInv, outside, past
  <1>1. DomainsTypeOK'
    BY DEF DomainsTypeOK
  <1>2. task'[t] = r /\ \A q \in Tasks \ {t} : task'[q] = task[q]
    BY DEF DomainsTypeOK
  <1>3. ASSUME NEW q \in Tasks, task'[q] # Nothing PROVE TaskFits(task[q])'
    <2>1. task'[q] # Nothing => TaskFits(task'[q])
      BY <1>2
    <2> QED BY <1>3, <2>1 DEF TaskFits
  <1>4. ASSUME NEW n \in Hostnames \ overlapped' PROVE SoleTask(n)'
    <2>1. SoleTask(n)
      BY <1>4
    <2> QED BY <1>2, <2>1 DEF SoleTask
  <1>5. ActiveAsChecked'
    BY DEF ActiveAsChecked, Added
  <1> QED BY <1>1, <1>3, <1>4, <1>5

\* A request ends and has written the row of its hostname n.
LEMMA WriteKeeps ==
    ASSUME DomainsInv, NEW t \in Tasks, task[t] # Nothing, Leave(t),
           NEW n \in Hostnames, n = task[t].of, NEW row \in Domain,
           domain' = [domain EXCEPT ![n] = row],
           wanted' \subseteq Hostnames, wanted' \ {n} = wanted \ {n},
           NEW z \in Zones \union {Nothing}, vouched' = [vouched EXCEPT ![n] = z],
           n \notin overlapped /\ (row.active \/ row.status = "configuration_verified") =>
               n \in wanted' /\ row.zone # Nothing /\ z = row.zone,
           UNCHANGED <<outside, tasks, overlapped>>
    PROVE  DomainsInv'
  <1> USE DEF DomainsInv, outside
  <1>1. DomainsTypeOK'
    BY DEF DomainsTypeOK, Leave
  <1>2. /\ domain'[n] = row /\ \A m \in Hostnames \ {n} : domain'[m] = domain[m]
        /\ vouched'[n] = z /\ \A m \in Hostnames \ {n} : vouched'[m] = vouched[m]
        /\ task'[t] = Nothing /\ \A q \in Tasks \ {t} : task'[q] = task[q]
    BY DEF DomainsTypeOK, Leave
  <1>3. ASSUME NEW q \in Tasks, task'[q] # Nothing PROVE TaskFits(task[q])'
    <2>1. q # t /\ task'[q] = task[q] /\ TaskFits(task[q]) /\ task[q] \in Task
      BY <1>2, <1>3 DEF DomainsTypeOK
    <2>2. task[q].of \in Hostnames
      BY <2>1 DEF Task
    <2> QED BY <1>2, <2>1, <2>2 DEF TaskFits
  <1>4. ASSUME NEW m \in Hostnames \ overlapped' PROVE SoleTask(m)'
    <2>1. SoleTask(m)
      BY <1>4
    <2> QED BY <1>2, <2>1 DEF SoleTask
  <1>5. ASSUME NEW m \in Added' \ overlapped',
               (domain[m].active \/ domain[m].status = "configuration_verified")'
        PROVE  (m \in wanted /\ domain[m].zone # Nothing /\ vouched[m] = domain[m].zone)'
    <2>1. CASE m = n
      BY <1>2, <1>5, <2>1
    <2>2. CASE m # n
      <3>1. m \in Hostnames
        BY <1>5 DEF Added
      <3>2. m \in Added \ overlapped
        BY <1>2, <1>5, <2>2, <3>1 DEF Added
      <3>3. m \in wanted' <=> m \in wanted
        BY <2>2
      <3> QED BY <1>2, <1>5, <2>2, <3>1, <3>2, <3>3 DEF ActiveAsChecked
    <2> QED BY <2>1, <2>2
  <1> QED BY <1>1, <1>3, <1>4, <1>5 DEF ActiveAsChecked

LEMMA ConnectedKeeps ==
    ASSUME DomainsInv, NEW t \in Tasks, Connected(t) PROVE DomainsInv'
  <1>1. /\ task[t] # Nothing /\ task[t] \in Task /\ TaskFits(task[t])
        /\ task[t].kind = "connect" /\ Leave(t)
        /\ domain \in [Hostnames -> Domain \union {Nothing}] /\ wanted \subseteq Hostnames
    BY DEF Connected, AtWork, DomainsInv, DomainsTypeOK
  <1>2. PICK n \in Hostnames : n = task[t].of
    BY <1>1 DEF Task
  <1>3. PICK row \in Domain :
            row = [status |-> "provider_connected", zone |-> task[t].zone, active |-> FALSE]
    BY <1>1 DEF TaskFits, Domain, DomainStatus
  <1>4. domain' = [domain EXCEPT ![n] = row]
    BY <1>1, <1>2, <1>3 DEF Connected
  <1>5. wanted' = wanted \ {n} /\ vouched' = [vouched EXCEPT ![n] = Nothing]
        /\ UNCHANGED <<outside, tasks, overlapped>>
    BY <1>2 DEF Connected
  <1>6. ~row.active /\ row.status # "configuration_verified"
    BY <1>3
  <1> QED BY <1>1, <1>2, <1>4, <1>5, <1>6, WriteKeeps

LEMMA CheckedKeeps ==
    ASSUME DomainsInv, NEW t \in Tasks, Checked(t) PROVE DomainsInv'
  <1>1. /\ task[t] # Nothing /\ task[t] \in Task /\ TaskFits(task[t])
        /\ task[t].kind = "check" /\ Leave(t)
        /\ domain \in [Hostnames -> Domain \union {Nothing}] /\ wanted \subseteq Hostnames
    BY DEF Checked, AtWork, DomainsInv, DomainsTypeOK
  <1>2. PICK r \in Task : r = task[t]
    BY <1>1
  <1>3. PICK n \in Hostnames : n = r.of
    BY DEF Task
  <1>4. /\ domain[n] \in Domain /\ r.read \in Domain /\ r.ready \in BOOLEAN
        /\ r.activate \in BOOLEAN /\ (r.ready => r.read.zone # Nothing)
    BY <1>1, <1>2, <1>3 DEF TaskFits, Task
  <1> DEFINE activated == r.ready /\ (r.activate \/ r.read.active)
             shown == IF ~r.owner THEN "pending_verification"
                      ELSE IF activated THEN "configuration_verified"
                      ELSE IF r.ready THEN "ready_to_activate" ELSE "setup_required"
  <1>5. PICK row \in Domain : row = [domain[n] EXCEPT !.status = shown, !.active = activated]
    BY <1>4 DEF Domain, DomainStatus
  <1>6. domain' = [domain EXCEPT ![n] = row]
    BY <1>1, <1>2, <1>3, <1>5 DEF Checked
  <1>13. row.zone = domain[n].zone
    BY <1>4, <1>5 DEF Domain
  <1>7. /\ row.active = activated
        /\ row.status = "configuration_verified" => activated
    BY <1>4, <1>5 DEF Domain
  <1>8. PICK z \in Zones \union {Nothing} : z = IF r.ready THEN r.read.zone ELSE Nothing
    BY <1>4 DEF Domain
  <1>9. /\ vouched' = [vouched EXCEPT ![n] = z] /\ UNCHANGED <<outside, tasks, overlapped>>
        /\ wanted' = IF ~r.ready THEN wanted \ {n}
                     ELSE IF r.activate THEN wanted \union {n} ELSE wanted
    BY <1>2, <1>3, <1>8 DEF Checked
  <1>10. ASSUME n \notin overlapped, activated
         PROVE  n \in wanted' /\ row.zone # Nothing /\ z = row.zone
    <2>1. r.read = domain[n]
      BY <1>1, <1>2, <1>3, <1>10 DEF DomainsInv, SoleTask
    <2>4. r.ready
      BY <1>10
    <2>6. r.read.zone # Nothing /\ z = r.read.zone
      BY <1>4, <1>8, <2>4
    <2>2. row.zone # Nothing /\ z = row.zone
      BY <1>13, <2>1, <2>6
    <2>3. domain[n].active => n \in wanted
      BY <1>4, <1>10, <2>1, NoRowAssumption DEF DomainsInv, ActiveAsChecked, Added
    <2>5. r.activate \/ domain[n].active
      BY <1>10, <2>1
    <2> QED BY <1>9, <2>2, <2>3, <2>4, <2>5
  <1>11. wanted' \subseteq Hostnames /\ wanted' \ {n} = wanted \ {n}
    BY <1>1, <1>9
  <1> HIDE DEF activated, shown
  <1>12. n \notin overlapped /\ (row.active \/ row.status = "configuration_verified") =>
               n \in wanted' /\ row.zone # Nothing /\ z = row.zone
    BY <1>7, <1>10
  <1> QED BY <1>1, <1>2, <1>3, <1>6, <1>9, <1>11, <1>12, WriteKeeps

LEMMA UpsertKeeps ==
    ASSUME DomainsInv, NEW t \in Tasks, Upsert(t) PROVE DomainsInv'
  <1>1. /\ task[t] # Nothing /\ task[t] \in Task /\ Leave(t)
        /\ domain \in [Hostnames -> Domain \union {Nothing}] /\ wanted \subseteq Hostnames
        /\ vouched \in [Hostnames -> Zones \union {Nothing}]
    BY DEF Upsert, AtWork, DomainsInv, DomainsTypeOK
  <1>2. PICK n \in Hostnames : n = task[t].of
    BY <1>1 DEF Task
  <1>3. UNCHANGED <<outside, tasks, past, overlapped>>
        /\ domain' = [domain EXCEPT ![n] = IF @ = Nothing THEN NewDomain ELSE @]
    BY <1>2 DEF Upsert
  <1>4. NewDomain \in Domain /\ ~NewDomain.active
        /\ NewDomain.status # "configuration_verified"
    BY DEF NewDomain, Domain, DomainStatus
  <1>5. PICK row \in Domain : row = IF domain[n] = Nothing THEN NewDomain ELSE domain[n]
    BY <1>1, <1>4
  <1>6. domain' = [domain EXCEPT ![n] = row]
    BY <1>3, <1>5
  <1>7. PICK z \in Zones \union {Nothing} : z = vouched[n] /\ vouched' = [vouched EXCEPT ![n] = z]
    BY <1>1, <1>3 DEF past
  <1>8. wanted' = wanted
    BY <1>3 DEF past
  <1>9. n \notin overlapped /\ (row.active \/ row.status = "configuration_verified") =>
               n \in wanted' /\ row.zone # Nothing /\ z = row.zone
    BY <1>4, <1>5, <1>7, <1>8 DEF DomainsInv, ActiveAsChecked, Added
  <1>10. UNCHANGED <<outside, tasks, overlapped>> /\ wanted' \ {n} = wanted \ {n}
    BY <1>3, <1>8
  <1> QED BY <1>1, <1>2, <1>6, <1>7, <1>8, <1>9, <1>10, WriteKeeps

LEMMA StartKeeps ==
    ASSUME DomainsInv, NEW t \in Tasks, NEW n \in Hostnames,
           \/ Add(t, n)
           \/ \E z \in Zones : Connect(t, n, z)
           \/ \E activate \in BOOLEAN : Check(t, n, activate)
    PROVE  DomainsInv'
  <1>1. /\ domain[n] \in Domain \union {Nothing}
        /\ n \in Added => domain[n] \in Domain
    BY DEF DomainsInv, DomainsTypeOK, Added
  <1>2. \A kind \in {"add", "connect", "check"} :
            /\ NewTask(kind, n) \in Task
            /\ NewTask(kind, n) = [kind |-> kind, stage |-> "dns", of |-> n, zone |-> Nothing,
                                   activate |-> FALSE, read |-> domain[n], owner |-> FALSE,
                                   ready |-> FALSE]
    BY <1>1 DEF NewTask, Task
  <1>3. CASE Add(t, n)
    <2>1. PICK r \in Task : r = [NewTask("add", n) EXCEPT !.stage = "row"]
      BY <1>2 DEF Task
    <2>2. TaskFits(r) /\ r.kind = "add" /\ Take(t, r)
      BY <1>2, <1>3, <2>1 DEF TaskFits, Add
    <2> QED BY <1>3, <2>2, TakeKeeps DEF Add
  <1>4. ASSUME NEW z \in Zones, Connect(t, n, z) PROVE DomainsInv'
    <2>1. PICK r \in Task : r = [NewTask("connect", n) EXCEPT !.zone = z]
      BY <1>2 DEF Task
    <2>2. TaskFits(r) /\ r.kind = "connect" /\ Take(t, r)
      BY <1>1, <1>2, <1>4, <2>1 DEF TaskFits, Connect
    <2> QED BY <1>4, <2>2, TakeKeeps DEF Connect
  <1>5. ASSUME NEW activate \in BOOLEAN, Check(t, n, activate) PROVE DomainsInv'
    <2>1. PICK r \in Task : r = [NewTask("check", n) EXCEPT !.activate = activate]
      BY <1>2 DEF Task
    <2>2. TaskFits(r) /\ r.read = domain[r.of] /\ Take(t, r)
      BY <1>1, <1>2, <1>5, <2>1 DEF TaskFits, Check
    <2> QED BY <1>5, <2>2, TakeKeeps DEF Check
  <1> QED BY <1>3, <1>4, <1>5

LEMMA AnswerKeeps ==
    ASSUME DomainsInv, NEW t \in Tasks,
           Resolved(t) \/ ZoneAnswered(t) \/ ZoneMatched(t) \/ Dropped(t)
    PROVE  DomainsInv'
  <1>1. task[t] # Nothing /\ UNCHANGED <<domain, outside, tasks, past, overlapped>>
    BY DEF Resolved, ZoneAnswered, ZoneMatched, Dropped, AtWork
  <1>2. PICK r \in Task : r = task[t] /\ TaskFits(r)
    BY <1>1 DEF DomainsInv, DomainsTypeOK
  <1>3. ASSUME Leave(t) PROVE DomainsInv'
    BY <1>1, <1>3, StepKeeps DEF Leave
  <1>4. ASSUME NEW q \in Task, task' = [task EXCEPT ![t] = q], TaskFits(q),
               q.of = r.of, q.kind = r.kind, q.read = r.read
        PROVE  DomainsInv'
    BY <1>1, <1>2, <1>4, StepKeeps
  <1>5. CASE Resolved(t)
    <2>1. PICK found \in {r.of \in owned, FALSE} :
             IF ~found /\ r.kind = "connect" THEN Leave(t)
             ELSE task' = [task EXCEPT ![t].owner = found,
                              ![t].stage =
                                  IF found /\ (r.kind = "connect" \/ r.read.zone # Nothing)
                                  THEN "zone" ELSE "write"]
      BY <1>2, <1>5 DEF Resolved
    <2>2. CASE ~found /\ r.kind = "connect"
      BY <1>3, <2>1, <2>2
    <2>3. CASE ~(~found /\ r.kind = "connect")
      <3> DEFINE next == IF found /\ (r.kind = "connect" \/ r.read.zone # Nothing)
                         THEN "zone" ELSE "write"
      <3>6. (r.of \in owned) \in BOOLEAN
        BY SMT
      <3>5. found \in BOOLEAN
        BY <3>6, Zenon
      <3>1. PICK q \in Task : q = [r EXCEPT !.owner = found, !.stage = next]
        BY <3>5 DEF Task
      <3>2. task' = [task EXCEPT ![t] = q]
        BY <1>2, <2>1, <2>3, <3>1 DEF DomainsInv, DomainsTypeOK
      <3>3. /\ q.of = r.of /\ q.kind = r.kind /\ q.read = r.read /\ q.zone = r.zone
            /\ q.ready = r.ready /\ q.stage = next
        BY <3>1 DEF Task
      <3>4. TaskFits(q)
        BY <1>2, <3>3 DEF TaskFits
      <3> QED BY <1>4, <3>2, <3>3, <3>4
    <2> QED BY <2>2, <2>3
  <1>6. CASE ZoneAnswered(t)
    <2>1. PICK ready \in {r.read.zone \in secured, FALSE} :
             task' = [task EXCEPT ![t].stage = "write", ![t].ready = ready]
      BY <1>2, <1>6 DEF ZoneAnswered
    <2>2. r.kind = "check" /\ r.stage = "zone"
      BY <1>2, <1>6 DEF ZoneAnswered, AtWork
    <2>8. (r.read.zone \in secured) \in BOOLEAN
      BY SMT
    <2>7. ready \in BOOLEAN
      BY <2>8, Zenon
    <2>3. PICK q \in Task : q = [r EXCEPT !.stage = "write", !.ready = ready]
      BY <2>7 DEF Task
    <2>4. task' = [task EXCEPT ![t] = q]
      BY <1>2, <2>1, <2>3 DEF DomainsInv, DomainsTypeOK
    <2>5. /\ q.of = r.of /\ q.kind = r.kind /\ q.read = r.read /\ q.zone = r.zone
          /\ q.stage = "write"
      BY <2>3 DEF Task
    <2>6. TaskFits(q)
      BY <1>2, <2>2, <2>5 DEF TaskFits
    <2> QED BY <1>4, <2>4, <2>5, <2>6
  <1>7. CASE ZoneMatched(t)
    <2>1. PICK q \in Task : q = [r EXCEPT !.stage = "write"]
      BY DEF Task
    <2>2. task' = [task EXCEPT ![t] = q]
      BY <1>2, <1>7, <2>1 DEF ZoneMatched, DomainsInv, DomainsTypeOK
    <2>3. /\ q.of = r.of /\ q.kind = r.kind /\ q.read = r.read /\ q.zone = r.zone
          /\ q.ready = r.ready /\ q.stage = "write"
      BY <2>1 DEF Task
    <2>4. TaskFits(q)
      BY <1>2, <2>3 DEF TaskFits
    <2> QED BY <1>4, <2>2, <2>3, <2>4
  <1>8. CASE Dropped(t)
    BY <1>3, <1>8 DEF Dropped
  <1> QED BY <1>5, <1>6, <1>7, <1>8

LEMMA DomainsStep ==
    ASSUME DomainsInv, [DomainsNext]_domainVars PROVE DomainsInv'
  <1>1. CASE OutsideChanges
    <2>3. changes' \in 0..MaxChanges
      BY <1>1, DomainAssumption DEF OutsideChanges, DomainsInv, DomainsTypeOK
    <2>4. owned' \subseteq Hostnames /\ secured' \subseteq Zones
      BY <1>1 DEF OutsideChanges, DomainsInv, DomainsTypeOK
    <2>1. DomainsTypeOK'
      BY <1>1, <2>3, <2>4 DEF OutsideChanges, DomainsInv, DomainsTypeOK, past
    <2>2. UNCHANGED <<domain, task, overlapped, wanted, vouched>>
      BY <1>1 DEF OutsideChanges, past
    <2> QED BY <2>1, <2>2 DEF DomainsInv, TaskFits, SoleTask, ActiveAsChecked, Added
  <1>2. CASE UNCHANGED domainVars
    BY <1>2 DEF domainVars, DomainsInv, DomainsTypeOK, TaskFits, SoleTask, ActiveAsChecked, Added
  <1> QED BY <1>1, <1>2, StartKeeps, AnswerKeeps, UpsertKeeps, ConnectedKeeps, CheckedKeeps
          DEF DomainsNext

\* The inductive invariant of domain-service.ts: a request at work on a domain that no
\* other has overlapped writes over the row it has read.
THEOREM DomainsInvariant == DomainsSpec => []DomainsInv
  <1>1. DomainsInit => DomainsInv
    BY DomainAssumption DEF DomainsInit, DomainsInv, DomainsTypeOK, TaskFits, SoleTask,
                            ActiveAsChecked, Added
  <1>2. DomainsInv /\ [DomainsNext]_domainVars => DomainsInv'
    BY DomainsStep
  <1> QED BY <1>1, <1>2, PTL DEF DomainsSpec

\* A domain is active, or called verified, only for the zone that is connected, by a check
\* this zone has passed, and because somebody asked for it, unless two requests for it have
\* overlapped (checkConnectedDomain, connectDomainProvider).
THEOREM ActiveDomainsWereChecked == DomainsSpec => []ActiveAsChecked
  <1>1. DomainsInv => ActiveAsChecked
    BY DEF DomainsInv
  <1> QED BY <1>1, DomainsInvariant, PTL

-----------------------------------------------------------------------------
(* The risk engines: scores *)

\* The decision on a request and the risk of the asset, were they scored now.
Now(k)  == Verdict(ask[k].signals, asset, profile, Related({"asset", "identity"}), weight)
RiskNow == AssetRisk(asset, Related({"asset", "target"}), weight)

Alerts == [AlertId -> Alert \union {Idle}]

\* What tells decisions apart among the categories of events.
Grave == {"impossible_travel", "deception_triggered", "privilege_escalation"}

\* Nothing that counts in A is missing in B.
Grown(A, B) ==
    \A e \in AlertId : A[e] # Idle =>
        /\ B[e] # Idle
        /\ A[e].status # "resolved" => B[e].status # "resolved"
        /\ A[e].severity = "critical" => B[e].severity = "critical"
        /\ A[e].category \in Grave => B[e].category = A[e].category

\* B counts in a decision as A does.
Alike(A, B) ==
    /\ OpenIn(A) \intersect Severe(A) = OpenIn(B) \intersect Severe(B)
    /\ Kinds(A) \intersect Grave = Kinds(B) \intersect Grave

LEMMA RankFacts ==
    /\ DOMAIN Rank = {"allow", "limited_allow", "require_step_up_auth", "deny", "isolate"}
    /\ Rank["allow"] = 0 /\ Rank["limited_allow"] = 1 /\ Rank["require_step_up_auth"] = 2
    /\ Rank["deny"] = 3 /\ Rank["isolate"] = 4
    /\ \A d \in DOMAIN Rank : Rank[d] \in 0..4
  BY DEF Rank

LEMMA Typed ==
    /\ MaxAlerts \in Nat /\ MaxTurns \in Nat /\ MaxMoves \in Nat /\ AlertId \subseteq Nat
    /\ Idle \notin AlertId /\ Idle \notin Alert /\ Idle \notin Engine
    /\ Idle \notin DOMAIN Rank /\ Idle \notin Asks /\ Idle # "asset" /\ "asset" \notin Asks
  BY RiskAssumption, IdleAssumption DEF AlertId

LEMMA AlertIdsFinite == IsFiniteSet(AlertId)
  <1>1. 1 \in Int /\ MaxAlerts \in Int
    BY Typed
  <1>2. IsFiniteSet(1..MaxAlerts)
    BY <1>1, FS_Interval
  <1> QED  BY <1>2 DEF AlertId

LEMMA ClampGrows ==
    ASSUME NEW m \in Int, NEW n \in Int, m <= n
    PROVE  Clamp(m) <= Clamp(n) /\ Clamp(m) \in Int /\ Clamp(m) <= 100
           /\ (0 <= m => Clamp(m) \in 0..100)
  BY DEF Clamp

LEMMA ClampTyped == ASSUME NEW n \in Nat PROVE Clamp(n) \in 0..100
  BY DEF Clamp

LEMMA RoundedGrows ==
    ASSUME NEW m \in Int, NEW n \in Int, m <= n
    PROVE  Rounded(m) <= Rounded(n) /\ Rounded(m) \in Int /\ (0 <= m => 0 <= Rounded(m))
  BY DEF Rounded

LEMMA TimesGrows ==
    ASSUME NEW w \in Nat, NEW m \in Nat, NEW n \in Nat, m <= n
    PROVE  w * m <= w * n /\ w * m \in Nat /\ w * n \in Nat
  <1>1. PICK d \in Nat : n = m + d
    <2>1. n - m \in Nat /\ n = m + (n - m)
      OBVIOUS
    <2> QED  BY <2>1
  <1>2. w * n = w * m + w * d /\ w * d \in Nat /\ w * m \in Nat
    BY <1>1
  <1> QED  BY <1>2

LEMMA CountsGrow ==
    ASSUME NEW A \in Alerts, NEW B \in Alerts, Grown(A, B)
    PROVE  /\ Cardinality(OpenIn(A)) <= Cardinality(OpenIn(B))
           /\ Cardinality(Severe(A)) <= Cardinality(Severe(B))
           /\ OpenSevere(A) <= OpenSevere(B)
           /\ Kinds(A) \intersect Grave \subseteq Kinds(B)
  <1>1. /\ OpenIn(A) \subseteq OpenIn(B) /\ Severe(A) \subseteq Severe(B)
        /\ OpenIn(A) \intersect Severe(A) \subseteq OpenIn(B) \intersect Severe(B)
    BY DEF Grown, OpenIn, Severe
  <1>2. IsFiniteSet(AlertId)
    BY AlertIdsFinite
  <1>3. \A S \in SUBSET AlertId : IsFiniteSet(S)
    BY <1>2, FS_Subset
  <1>4. OpenIn(B) \in SUBSET AlertId /\ Severe(B) \in SUBSET AlertId
        /\ OpenIn(B) \intersect Severe(B) \in SUBSET AlertId
    BY DEF OpenIn, Severe
  <1>5. ASSUME NEW S \in SUBSET AlertId, NEW T \in SUBSET S
        PROVE  Cardinality(T) <= Cardinality(S)
    BY <1>3, FS_Subset
  <1>6. Kinds(A) \intersect Grave \subseteq Kinds(B)
    <2> SUFFICES ASSUME NEW c \in Kinds(A), c \in Grave
                 PROVE  c \in Kinds(B)
      OBVIOUS
    <2>1. PICK e \in AlertId : A[e] # Idle /\ A[e].category = c
      BY DEF Kinds
    <2>2. B[e] # Idle /\ B[e].category = c
      BY <2>1 DEF Grown
    <2> QED  BY <2>2 DEF Kinds
  <1> QED  BY <1>1, <1>4, <1>5, <1>6 DEF OpenSevere

LEMMA CountTyped ==
    ASSUME NEW A \in Alerts
    PROVE  /\ Cardinality(OpenIn(A)) \in Nat /\ Cardinality(Severe(A)) \in Nat
           /\ OpenSevere(A) \in Nat
  <1>1. IsFiniteSet(AlertId)
    BY AlertIdsFinite
  <1>2. OpenIn(A) \in SUBSET AlertId /\ Severe(A) \in SUBSET AlertId
        /\ OpenIn(A) \intersect Severe(A) \in SUBSET AlertId
    BY DEF OpenIn, Severe
  <1>3. \A S \in SUBSET AlertId : IsFiniteSet(S)
    BY <1>1, FS_Subset
  <1> QED  BY <1>2, <1>3, FS_CardinalityType DEF OpenSevere

LEMMA PointsTyped == ASSUME NEW c, NEW n \in Nat PROVE Points(c, n) \in Nat
  BY DEF Points

LEMMA AssetTyped ==
    ASSUME NEW a \in Asset
    PROVE  /\ a.class \in {"public", "internal", "confidential", "sensitive", "critical"}
           /\ a.exposure \in {"internal", "shared", "public", "unknown"}
           /\ a.score \in 0..100 /\ a.decoy \in BOOLEAN
  BY InputAssumption DEF Asset

\* The part of a score that events have no part in, and what they add.
LEMMA BaseRiskParts ==
    ASSUME NEW a \in Asset, ~a.decoy
    PROVE  \E n \in Nat : \A A \in Alerts :
              BaseRisk(a, A) = Clamp(n + 3 * Cardinality(OpenIn(A))
                                       + 6 * Cardinality(Severe(A)))
  <1> DEFINE class == [public |-> 4, internal |-> 12, confidential |-> 26,
                       sensitive |-> 42, critical |-> 58]
             n == class[a.class]
                  + Points(a.location = "public_cloud" /\ Sensitive(a), 14)
                  + Points(a.location = "saas" /\ a.scoped, 10)
                  + Points(~a.encrypted, 18) + Points(~a.kms, 10) + Points(a.scoped, 8)
  <1>1. class[a.class] \in Nat
    BY AssetTyped
  <1>2. n \in Nat
    <2> HIDE DEF class
    <2> QED  BY <1>1, PointsTyped
  <1>3. \A A \in Alerts :
           BaseRisk(a, A) = Clamp(n + 3 * Cardinality(OpenIn(A)) + 6 * Cardinality(Severe(A)))
    BY Zenon DEF BaseRisk
  <1> HIDE DEF n
  <1> QED  BY <1>2, <1>3

LEMMA BaseRiskGrows ==
    ASSUME NEW a \in Asset, NEW A \in Alerts, NEW B \in Alerts, Grown(A, B)
    PROVE  BaseRisk(a, A) <= BaseRisk(a, B) /\ BaseRisk(a, A) \in Nat /\ BaseRisk(a, B) \in Nat
  <1>1. CASE a.decoy
    BY <1>1 DEF BaseRisk
  <1>2. CASE ~a.decoy
    <2>1. PICK n \in Nat :
             \A C \in Alerts : BaseRisk(a, C) = Clamp(n + 3 * Cardinality(OpenIn(C))
                                                        + 6 * Cardinality(Severe(C)))
      BY <1>2, BaseRiskParts
    <2> DEFINE k(C) == n + 3 * Cardinality(OpenIn(C)) + 6 * Cardinality(Severe(C))
    <2>2. k(A) \in Nat /\ k(B) \in Nat /\ k(A) <= k(B)
      BY CountTyped, CountsGrow
    <2>3. BaseRisk(a, A) = Clamp(k(A)) /\ BaseRisk(a, B) = Clamp(k(B))
      BY <2>1
    <2>4. Clamp(k(A)) <= Clamp(k(B)) /\ Clamp(k(A)) \in Nat /\ Clamp(k(B)) \in Nat
      <3> HIDE DEF k
      <3>1. Clamp(k(A)) <= Clamp(k(B))
        BY <2>2, ClampGrows
      <3>2. Clamp(k(A)) \in 0..100 /\ Clamp(k(B)) \in 0..100
        BY <2>2, ClampTyped
      <3> QED  BY <3>1, <3>2
    <2> HIDE DEF k
    <2> QED  BY <2>3, <2>4
  <1> QED  BY <1>1, <1>2, AssetTyped

LEMMA AssetRiskParts ==
    ASSUME NEW a \in Asset, NEW w \in Nat
    PROVE  \E n \in Nat : \A A \in Alerts :
              AssetRisk(a, A, w) = Clamp(Rounded(100 * BaseRisk(a, A) + n
                                                 + 20 * w * OpenSevere(A)))
  <1> DEFINE p1 == Points(a.class = "critical", 24 * 14)
             p2 == Points(~a.encrypted, 18 * 18)
             p3 == Points(~a.kms, 12 * 16)
             p4 == Points(a.location = "public_cloud" /\ Sensitive(a), 16 * 18)
             p5 == Points(a.scoped, 400)
  <1>1. p1 \in Nat /\ p2 \in Nat /\ p3 \in Nat /\ p4 \in Nat /\ p5 \in Nat
    BY PointsTyped
  <1>2. ASSUME NEW A \in Alerts
        PROVE  AssetRisk(a, A, w) = Clamp(Rounded(100 * BaseRisk(a, A) + p1 + p2 + p3 + p4 + p5
                                                  + 20 * w * OpenSevere(A)))
    BY Zenon DEF AssetRisk
  <1>3. ASSUME NEW A \in Alerts
        PROVE  100 * BaseRisk(a, A) + p1 + p2 + p3 + p4 + p5 + 20 * w * OpenSevere(A)
                 = 100 * BaseRisk(a, A) + (p1 + p2 + p3 + p4 + p5) + 20 * w * OpenSevere(A)
    <2>1. Grown(A, A)
      BY DEF Grown
    <2>2. BaseRisk(a, A) \in Nat
      BY <2>1, BaseRiskGrows
    <2>3. 20 * w * OpenSevere(A) \in Nat
      BY CountTyped, TimesGrows
    <2> HIDE DEF p1, p2, p3, p4, p5
    <2> QED  BY <1>1, <2>2, <2>3
  <1> HIDE DEF p1, p2, p3, p4, p5
  <1>4. p1 + p2 + p3 + p4 + p5 \in Nat
    BY <1>1
  <1> QED  BY <1>2, <1>3, <1>4

LEMMA AssetRiskGrows ==
    ASSUME NEW a \in Asset, NEW A \in Alerts, NEW B \in Alerts, Grown(A, B), NEW w \in Nat
    PROVE  /\ AssetRisk(a, A, w) <= AssetRisk(a, B, w)
           /\ AssetRisk(a, A, w) \in 0..100 /\ AssetRisk(a, B, w) \in 0..100
  <1>1. PICK n \in Nat : \A C \in Alerts :
           AssetRisk(a, C, w) = Clamp(Rounded(100 * BaseRisk(a, C) + n
                                              + 20 * w * OpenSevere(C)))
    BY AssetRiskParts
  <1> DEFINE k(C) == 100 * BaseRisk(a, C) + n + 20 * w * OpenSevere(C)
  <1>2. BaseRisk(a, A) <= BaseRisk(a, B) /\ BaseRisk(a, A) \in Nat /\ BaseRisk(a, B) \in Nat
    BY BaseRiskGrows
  <1>3. 20 * w \in Nat /\ OpenSevere(A) \in Nat /\ OpenSevere(B) \in Nat
        /\ OpenSevere(A) <= OpenSevere(B)
    BY CountTyped, CountsGrow
  <1>4. /\ 20 * w * OpenSevere(A) <= 20 * w * OpenSevere(B)
        /\ 20 * w * OpenSevere(A) \in Nat /\ 20 * w * OpenSevere(B) \in Nat
    BY <1>3, TimesGrows
  <1>5. k(A) \in Nat /\ k(B) \in Nat /\ k(A) <= k(B)
    BY <1>2, <1>4
  <1>6. AssetRisk(a, A, w) = Clamp(Rounded(k(A))) /\ AssetRisk(a, B, w) = Clamp(Rounded(k(B)))
    BY <1>1
  <1> HIDE DEF k
  <1>7. Rounded(k(A)) \in Int /\ Rounded(k(B)) \in Int /\ 0 <= Rounded(k(A))
        /\ Rounded(k(A)) <= Rounded(k(B))
    BY <1>5, RoundedGrows
  <1> QED  BY <1>6, <1>7, ClampGrows

LEMMA InventoryTyped ==
    ASSUME NEW a \in Asset
    PROVE  InventoryRisk(a) \in 0..100
  <1> DEFINE class    == [public |-> 4, internal |-> 10, confidential |-> 22, sensitive |-> 34,
                          critical |-> 46]
             exposure == [internal |-> 0, shared |-> 14, public |-> 24, unknown |-> 10]
  <1>1. class[a.class] \in Nat /\ exposure[a.exposure] \in Nat
    BY AssetTyped
  <1> DEFINE n == class[a.class] + exposure[a.exposure]
                  + Points(a.location = "public_cloud", 8)
                  + Points(~a.encrypted, 14) + Points(~a.kms, 9) + Points(a.scoped, 5)
                  + Points(a.decoy, 6)
  <1>2. n \in Nat
    <2> HIDE DEF class, exposure
    <2> QED  BY <1>1, PointsTyped
  <1>3. InventoryRisk(a) = Clamp(n)
    BY Zenon DEF InventoryRisk
  <1> HIDE DEF n
  <1> QED  BY <1>2, <1>3, ClampTyped

LEMMA SignalTyped ==
    ASSUME NEW s \in Signals
    PROVE  /\ s.device \in {"trusted", "managed", "unknown", "compromised"}
           /\ s.location \in {"low", "medium", "high"}
           /\ s.time \in {"normal", "elevated", "off_hours"} /\ s.anomaly \in 0..100
  BY InputAssumption DEF Signal

Gravity(K) == Points("impossible_travel" \in K, 14) + Points("deception_triggered" \in K, 18)
              + Points("privilege_escalation" \in K, 16)

LEMMA GravityGrows ==
    ASSUME NEW K, NEW L, K \intersect Grave \subseteq L
    PROVE  Gravity(K) <= Gravity(L) /\ Gravity(K) \in Nat /\ Gravity(L) \in Nat
  BY DEF Gravity, Grave, Points

LEMMA TrustScoreParts ==
    ASSUME NEW s \in Signals, NEW a \in Asset, NEW p \in Profile, ~a.decoy
    PROVE  \E n \in Nat : \A K :
              TrustScore(s, a, p, K) = Clamp(Rounded(100 * (n + Gravity(K)) + 35 * s.anomaly))
  <1> DEFINE class    == [public |-> 4, internal |-> 10, confidential |-> 18, sensitive |-> 28,
                          critical |-> 38]
             device   == [trusted |-> 0, managed |-> 0, unknown |-> 12, compromised |-> 26]
             location == [low |-> 0, medium |-> 8, high |-> 16]
             time     == [normal |-> 0, elevated |-> 6, off_hours |-> 12]
             noMfa    == ~s.mfa \/ ~p.mfa
             n == class[a.class] + device[s.device] + location[s.location] + time[s.time]
                  + Points(noMfa, 18) + Points(HighImpact(s), 18)
                  + Points(noMfa /\ a.class = "critical", 20)
                  + Points(p.type = "third_party", 14)
                  + Points(p.type = "third_party" /\ Sensitive(a), 12)
                  + Points(p.type = "service", 8)
                  + Points(p.type = "service" /\ s.anomaly >= 72, 14)
  <1>1. class[a.class] \in Nat
    BY AssetTyped
  <1>2. device[s.device] \in Nat /\ location[s.location] \in Nat /\ time[s.time] \in Nat
    BY SignalTyped
  <1>3. n \in Nat
    <2> HIDE DEF class, device, location, time, noMfa
    <2> QED  BY <1>1, <1>2, PointsTyped
  <1>4. ASSUME NEW K
        PROVE  TrustScore(s, a, p, K)
                 = Clamp(Rounded(100 * (n + Points("impossible_travel" \in K, 14)
                                          + Points("deception_triggered" \in K, 18)
                                          + Points("privilege_escalation" \in K, 16))
                                 + 35 * s.anomaly))
    BY Zenon DEF TrustScore
  <1> HIDE DEF n
  <1>5. ASSUME NEW K
        PROVE  n + Points("impossible_travel" \in K, 14)
                 + Points("deception_triggered" \in K, 18)
                 + Points("privilege_escalation" \in K, 16) = n + Gravity(K)
    BY <1>3, PointsTyped DEF Gravity
  <1>6. \A K : TrustScore(s, a, p, K)
                 = Clamp(Rounded(100 * (n + Gravity(K)) + 35 * s.anomaly))
    BY <1>4, <1>5
  <1> QED  BY <1>3, <1>6

LEMMA TrustScoreGrows ==
    ASSUME NEW s \in Signals, NEW a \in Asset, NEW p \in Profile,
           NEW K, NEW L, K \intersect Grave \subseteq L
    PROVE  /\ TrustScore(s, a, p, K) <= TrustScore(s, a, p, L)
           /\ TrustScore(s, a, p, K) \in 0..100 /\ TrustScore(s, a, p, L) \in 0..100
  <1>1. CASE a.decoy
    <2>1. TrustScore(s, a, p, K) = 99 /\ TrustScore(s, a, p, L) = 99
      BY <1>1, Zenon DEF TrustScore
    <2> QED  BY <2>1
  <1>2. CASE ~a.decoy
    <2>1. PICK n \in Nat : \A M :
             TrustScore(s, a, p, M) = Clamp(Rounded(100 * (n + Gravity(M)) + 35 * s.anomaly))
      BY <1>2, TrustScoreParts
    <2> DEFINE k(M) == 100 * (n + Gravity(M)) + 35 * s.anomaly
    <2>2. k(K) \in Nat /\ k(L) \in Nat /\ k(K) <= k(L)
      BY GravityGrows, SignalTyped
    <2>3. TrustScore(s, a, p, K) = Clamp(Rounded(k(K))) /\ TrustScore(s, a, p, L) = Clamp(Rounded(k(L)))
      BY <2>1
    <2> HIDE DEF k
    <2>4. Rounded(k(K)) \in Int /\ Rounded(k(L)) \in Int /\ 0 <= Rounded(k(K))
          /\ Rounded(k(K)) <= Rounded(k(L))
      BY <2>2, RoundedGrows
    <2> QED  BY <2>3, <2>4, ClampGrows
  <1> QED  BY <1>1, <1>2, AssetTyped

\* The score of a request is m, n, and what events and the risk of the asset add.
AccessParts(s, a, p, w, m, n, each) ==
    \A A \in Alerts, score \in 0..100 :
       AccessRisk(s, [a EXCEPT !.score = score], p, A, w)
         = Clamp((IF p.status = "isolated" THEN 99
                  ELSE TrustScore(s, a, p, Kinds(A)) + m)
                 + Points(score >= 60, 8) + Points(score >= 80, 6)
                 + n + each * OpenSevere(A))

LEMMA AccessRiskParts ==
    ASSUME NEW s \in Signals, NEW a \in Asset, NEW p \in Profile, NEW w \in Nat
    PROVE  \E m \in Nat, n \in Nat, each \in Nat : AccessParts(s, a, p, w, m, n, each)
  <1> DEFINE standing == [active |-> 0, watchlist |-> 8, suspicious |-> 18]
             each     == IF Rounded(18 * w) < 2 THEN 2 ELSE Rounded(18 * w)
             m == IF p.status = "isolated" THEN 0 ELSE standing[p.status]
             n1 == Points(a.scoped /\ HighImpact(s), 12)
             n2 == Points(~p.mfa /\ a.class = "critical", 10)
             n3 == Points(s.action = "export" /\ a.class = "critical", 10)
  <1>1. m \in Nat
    BY DEF Profile
  <1>2. each \in Nat
    <2>1. 18 * w \in Int /\ 0 <= 18 * w
      OBVIOUS
    <2> QED  BY <2>1, RoundedGrows
  <1>3. n1 \in Nat /\ n2 \in Nat /\ n3 \in Nat
    BY PointsTyped
  <1>4. ASSUME NEW A \in Alerts, NEW score \in 0..100
        PROVE  AccessRisk(s, [a EXCEPT !.score = score], p, A, w)
                 = Clamp((IF p.status = "isolated" THEN 99
                          ELSE TrustScore(s, a, p, Kinds(A)) + m)
                         + Points(score >= 60, 8) + Points(score >= 80, 6)
                         + (n1 + n2 + n3) + each * OpenSevere(A))
    <2> DEFINE b == [a EXCEPT !.score = score]
    <2>1. /\ b \in Asset /\ b.class = a.class /\ b.scoped = a.scoped /\ b.decoy = a.decoy
          /\ b.score = score
      BY DEF Asset
    <2>2. TrustScore(s, b, p, Kinds(A)) = TrustScore(s, a, p, Kinds(A))
      <3> HIDE DEF b
      <3>1. Sensitive(b) = Sensitive(a)
        BY <2>1 DEF Sensitive
      <3> QED  BY <2>1, <3>1 DEF TrustScore
    <2> DEFINE t == IF p.status = "isolated" THEN 99
                    ELSE TrustScore(s, b, p, Kinds(A)) + standing[p.status]
               x1 == Points(b.score >= 60, 8)
               x2 == Points(b.score >= 80, 6)
               y1 == Points(b.scoped /\ HighImpact(s), 12)
               y2 == Points(~p.mfa /\ b.class = "critical", 10)
               y3 == Points(s.action = "export" /\ b.class = "critical", 10)
               z == each * OpenSevere(A)
    <2>3. AccessRisk(s, b, p, A, w) = Clamp(t + x1 + x2 + y1 + y2 + z + y3)
      BY Zenon DEF AccessRisk
    <2>4. y1 = n1 /\ y2 = n2 /\ y3 = n3 /\ x1 = Points(score >= 60, 8)
          /\ x2 = Points(score >= 80, 6)
      BY <2>1
    <2>5. t = IF p.status = "isolated" THEN 99 ELSE TrustScore(s, a, p, Kinds(A)) + m
      BY <2>2
    <2>6. t \in Nat
      <3>1. Kinds(A) \intersect Grave \subseteq Kinds(A)
        OBVIOUS
      <3>2. TrustScore(s, a, p, Kinds(A)) \in 0..100
        BY <3>1, TrustScoreGrows
      <3> HIDE DEF m
      <3> QED  BY <1>1, <2>5, <3>2
    <2>7. z \in Nat
      <3> HIDE DEF each
      <3> QED  BY <1>2, CountTyped, TimesGrows
    <2>8. x1 \in Nat /\ x2 \in Nat
      BY PointsTyped
    <2> HIDE DEF t, x1, x2, y1, y2, y3, z, n1, n2, n3
    <2>9. t + x1 + x2 + y1 + y2 + z + y3 = t + x1 + x2 + (n1 + n2 + n3) + z
      BY <1>3, <2>4, <2>6, <2>7, <2>8
    <2> USE DEF z
    <2> QED  BY <2>3, <2>4, <2>5, <2>9
  <1> HIDE DEF m, n1, n2, n3, each
  <1>5. n1 + n2 + n3 \in Nat
    BY <1>3
  <1>6. AccessParts(s, a, p, w, m, n1 + n2 + n3, each)
    BY <1>4 DEF AccessParts
  <1> QED  BY <1>1, <1>2, <1>5, <1>6

\* A decision is not milder with more events and a higher risk of the asset.
LEMMA AccessRiskGrows ==
    ASSUME NEW s \in Signals, NEW a \in Asset, NEW p \in Profile, NEW w \in Nat,
           NEW A \in Alerts, NEW B \in Alerts, Grown(A, B),
           NEW score \in 0..100, a.score <= score
    PROVE  AccessRisk(s, a, p, A, w) <= AccessRisk(s, [a EXCEPT !.score = score], p, B, w)
           /\ AccessRisk(s, a, p, A, w) \in Int
           /\ AccessRisk(s, [a EXCEPT !.score = score], p, B, w) \in Int
  <1>1. PICK m \in Nat, n \in Nat, each \in Nat : AccessParts(s, a, p, w, m, n, each)
    BY AccessRiskParts
  <1> DEFINE t(C) == IF p.status = "isolated" THEN 99 ELSE TrustScore(s, a, p, Kinds(C)) + m
             k(C, v) == t(C) + Points(v >= 60, 8) + Points(v >= 80, 6) + n
                        + each * OpenSevere(C)
  <1>2. [a EXCEPT !.score = a.score] = a /\ a.score \in 0..100
    BY DEF Asset
  <1>3. /\ AccessRisk(s, a, p, A, w) = Clamp(k(A, a.score))
        /\ AccessRisk(s, [a EXCEPT !.score = score], p, B, w) = Clamp(k(B, score))
    BY <1>1, <1>2 DEF AccessParts
  <1>4. t(A) \in Nat /\ t(B) \in Nat /\ t(A) <= t(B)
    <2>1. Kinds(A) \intersect Grave \subseteq Kinds(B)
      BY CountsGrow
    <2> QED  BY <2>1, TrustScoreGrows
  <1>5. \A v \in 0..100 : Points(v >= 60, 8) \in Nat /\ Points(v >= 80, 6) \in Nat
    BY PointsTyped
  <1>6. Points(a.score >= 60, 8) <= Points(score >= 60, 8)
        /\ Points(a.score >= 80, 6) <= Points(score >= 80, 6)
    BY <1>2 DEF Points
  <1>7. /\ each * OpenSevere(A) \in Nat /\ each * OpenSevere(B) \in Nat
        /\ each * OpenSevere(A) <= each * OpenSevere(B)
    BY CountTyped, CountsGrow, TimesGrows
  <1>8. k(A, a.score) \in Nat /\ k(B, score) \in Nat /\ k(A, a.score) <= k(B, score)
    <2> HIDE DEF t
    <2> QED  BY <1>2, <1>4, <1>5, <1>6, <1>7
  <1> HIDE DEF k
  <1> QED  BY <1>3, <1>8, ClampGrows, ClampTyped

LEMMA DecisionGrows ==
    ASSUME NEW m \in Int, NEW n \in Int, m <= n
    PROVE  /\ DecisionAt(m) \in DOMAIN Rank /\ DecisionAt(n) \in DOMAIN Rank
           /\ Rank[DecisionAt(m)] <= Rank[DecisionAt(n)]
  BY RankFacts DEF DecisionAt

LEMMA VerdictGrows ==
    ASSUME NEW s \in Signals, NEW a \in Asset, NEW p \in Profile, NEW w \in Nat,
           NEW A \in Alerts, NEW B \in Alerts, Grown(A, B),
           NEW score \in 0..100, a.score <= score
    PROVE  LET v == Verdict(s, a, p, A, w)
               u == Verdict(s, [a EXCEPT !.score = score], p, B, w)
           IN v \in DOMAIN Rank /\ u \in DOMAIN Rank /\ Rank[v] <= Rank[u]
  <1>1. [a EXCEPT !.score = score].decoy = a.decoy
    BY DEF Asset
  <1>2. CASE a.decoy \/ p.status = "isolated"
    BY <1>1, <1>2, RankFacts DEF Verdict
  <1>3. CASE ~(a.decoy \/ p.status = "isolated")
    BY <1>1, <1>3, AccessRiskGrows, DecisionGrows DEF Verdict
  <1> QED  BY <1>2, <1>3

LEMMA VerdictTyped ==
    ASSUME NEW s \in Signals, NEW a \in Asset, NEW p \in Profile, NEW w \in Nat,
           NEW A \in Alerts
    PROVE  Verdict(s, a, p, A, w) \in DOMAIN Rank
  <1>1. Grown(A, A) /\ a.score \in 0..100 /\ a.score <= a.score
    BY AssetTyped DEF Grown
  <1> QED  BY <1>1, VerdictGrows

\* Events that count alike decide alike.
LEMMA VerdictAlike ==
    ASSUME NEW s \in Signals, NEW a \in Asset, NEW p \in Profile, NEW w \in Nat,
           NEW A \in Alerts, NEW B \in Alerts, Alike(A, B)
    PROVE  Verdict(s, a, p, A, w) = Verdict(s, a, p, B, w)
  <1>1. OpenSevere(A) = OpenSevere(B)
    BY DEF Alike, OpenSevere
  <1>2. "impossible_travel" \in Kinds(A) <=> "impossible_travel" \in Kinds(B)
    BY DEF Alike, Grave
  <1>3. "deception_triggered" \in Kinds(A) <=> "deception_triggered" \in Kinds(B)
    BY DEF Alike, Grave
  <1>4. "privilege_escalation" \in Kinds(A) <=> "privilege_escalation" \in Kinds(B)
    BY DEF Alike, Grave
  <1>5. Gravity(Kinds(A)) = Gravity(Kinds(B))
    BY <1>2, <1>3, <1>4 DEF Gravity, Points
  <1>6. TrustScore(s, a, p, Kinds(A)) = TrustScore(s, a, p, Kinds(B))
    <2>1. CASE a.decoy
      BY <2>1, Zenon DEF TrustScore
    <2>2. CASE ~a.decoy
      BY <1>5, <2>2, TrustScoreParts
    <2> QED  BY <2>1, <2>2
  <1>7. AccessRisk(s, a, p, A, w) = AccessRisk(s, a, p, B, w)
    BY <1>1, <1>6, Zenon DEF AccessRisk
  <1> QED  BY <1>7, Zenon DEF Verdict

LEMMA SameScores ==
    ASSUME NEW a \in Asset, NEW b \in Asset, a.class = b.class, a.location = b.location,
           a.encrypted = b.encrypted, a.kms = b.kms, a.scoped = b.scoped, a.decoy = b.decoy
    PROVE  /\ \A A, w : AssetRisk(a, A, w) = AssetRisk(b, A, w)
           /\ a.score = b.score =>
                 \A s, p, A, w : Verdict(s, a, p, A, w) = Verdict(s, b, p, A, w)
  <1>1. Sensitive(a) = Sensitive(b)
    BY DEF Sensitive
  <1>2. ASSUME NEW A
        PROVE  BaseRisk(a, A) = BaseRisk(b, A)
    BY <1>1 DEF BaseRisk
  <1>3. ASSUME NEW A, NEW w
        PROVE  AssetRisk(a, A, w) = AssetRisk(b, A, w)
    BY <1>1, <1>2 DEF AssetRisk
  <1>4. ASSUME NEW s, NEW p, NEW K
        PROVE  TrustScore(s, a, p, K) = TrustScore(s, b, p, K)
    BY <1>1 DEF TrustScore
  <1>5. ASSUME a.score = b.score, NEW s, NEW p, NEW A, NEW w
        PROVE  Verdict(s, a, p, A, w) = Verdict(s, b, p, A, w)
    <2>1. AccessRisk(s, a, p, A, w) = AccessRisk(s, b, p, A, w)
      BY <1>4, <1>5 DEF AccessRisk
    <2> QED  BY <2>1 DEF Verdict
  <1> QED  BY <1>3, <1>5

-----------------------------------------------------------------------------
(* The engines at work *)

\* What was scored last, alone and with nothing changed since, would be scored the same.
ScoreSettled(x) ==
    /\ x \in Asks => ask[x].decision = Now(x)
    /\ x = "asset" /\ ~Alarming(asset.level) => asset.score = RiskNow

EngineSound(w) ==
    /\ IF w.kind = "evaluate" THEN w.subject \in Asks ELSE w.subject = "asset"
    /\ w.kind = "update" => ~w.alone
    /\ w.kind = "evaluate" /\ w.stage # "events" => w.decision \in DOMAIN Rank
    /\ w.kind = "evaluate" /\ w.stage \in {"find", "event"} => Rank[w.decision] >= 2
    /\ w.found # Idle => /\ w.kind = "evaluate" /\ alert[w.found] # Idle
                         /\ alert[w.found].of = w.subject
    /\ w.saw.decoy = asset.decoy
    /\ w.again => w.alone

\* What an engine that nothing has disturbed has read is still so.
AloneSound(w) ==
    /\ w.stage = "events" => w.saw = asset /\ w.who = profile
    /\ w.kind = "recalculate" /\ w.stage = "write" => w.score = RiskNow
    /\ w.kind = "recalculate" /\ w.stage = "event" => Alarming(asset.level)
    /\ w.kind = "evaluate" /\ w.stage # "events" => w.decision = Now(w.subject)
    /\ w.kind = "evaluate" /\ w.stage \in {"find", "event"} =>
          ask[w.subject].decision = w.decision
    /\ w.again /\ w.stage \in {"events", "write"} => ScoreSettled(w.subject)

EnginesSound ==
    \A g \in Working : /\ EngineSound(engine[g])
                       /\ engine[g].alone => AloneSound(engine[g]) /\ \A q \in Working : q = g

\* The event of a decision is about the asset, and only that of a decoy is of a category
\* that counts.
AlertsSound ==
    \A e \in AlertId : alert[e] # Idle /\ alert[e].of # Idle =>
       /\ alert[e].by = "asset"
       /\ alert[e].category = IF asset.decoy THEN "deception_triggered" ELSE "other"

\* Nobody has changed what these were scored from, so that scores have only risen since.
DecisionsTight ==
    \A k \in Asks \ moved : ask[k].decision # Idle => Rank[ask[k].decision] <= Rank[Now(k)]
AssetTight == "asset" \notin moved => asset.score <= RiskNow
LastSettled == last # Idle /\ Working = {} => ScoreSettled(last)

TightInv ==
    RiskTypeOK /\ EnginesSound /\ AlertsSound /\ DecisionsTight /\ AssetTight /\ LastSettled

LEMMA RelatedTyped == ASSUME RiskTypeOK, NEW ways PROVE Related(ways) \in Alerts
  BY DEF RiskTypeOK, Related, Alerts

LEMMA NowTyped ==
    ASSUME RiskTypeOK
    PROVE  RiskNow \in 0..100 /\ \A k \in Asks : Now(k) \in DOMAIN Rank
  <1>1. \A ways : Related(ways) \in Alerts /\ Grown(Related(ways), Related(ways))
    BY RelatedTyped DEF Grown
  <1>2. asset \in Asset /\ asset.score \in 0..100 /\ profile \in Profile /\ weight \in Nat
        /\ \A k \in Asks : ask[k].signals \in Signals
    BY AssetTyped, InputAssumption DEF RiskTypeOK, AskRow
  <1>3. RiskNow \in 0..100
    BY <1>1, <1>2, AssetRiskGrows DEF RiskNow
  <1>4. ASSUME NEW k \in Asks PROVE Now(k) \in DOMAIN Rank
    <2>1. Verdict(ask[k].signals, asset, profile, Related({"asset", "identity"}), weight)
             \in DOMAIN Rank
      BY <1>1, <1>2, VerdictTyped
    <2> QED  BY <2>1 DEF Now
  <1> QED  BY <1>3, <1>4

\* Where events only grow and others change nothing, scores do not fall.
AlertsGrow ==
    /\ Grown(alert, alert')
    /\ \A e \in AlertId : alert[e] # Idle => alert'[e].by = alert[e].by

LEMMA ScoresGrow ==
    ASSUME RiskTypeOK, RiskTypeOK', AlertsGrow, UNCHANGED <<profile, weight>>,
           NEW score \in 0..100, NEW level \in Level,
           asset' = [asset EXCEPT !.score = score, !.level = level]
    PROVE  /\ RiskNow <= RiskNow' /\ (alert' = alert => RiskNow = RiskNow')
           /\ asset.score <= score => \A k \in Asks : ask'[k].signals = ask[k].signals =>
                                          Rank[Now(k)] <= Rank[Now(k)']
  <1>1. ASSUME NEW ways
        PROVE  /\ Related(ways) \in Alerts /\ Related(ways)' \in Alerts
               /\ Grown(Related(ways), Related(ways)')
    <2>1. Related(ways) \in Alerts /\ Related(ways)' \in Alerts
      BY DEF RiskTypeOK, Related, Alerts
    <2>2. Grown(Related(ways), Related(ways)')
      BY DEF AlertsGrow, Grown, Related
    <2> QED  BY <2>1, <2>2
  <1>2. asset \in Asset /\ asset' \in Asset /\ asset.score \in 0..100 /\ profile \in Profile
        /\ weight \in Nat /\ \A k \in Asks : ask[k].signals \in Signals
    BY AssetTyped, InputAssumption DEF RiskTypeOK, AskRow
  <1>3. PICK b \in Asset : b = [asset EXCEPT !.score = score]
    BY <1>2 DEF Asset
  <1>4. /\ asset'.class = asset.class /\ asset'.location = asset.location
        /\ asset'.encrypted = asset.encrypted /\ asset'.kms = asset.kms
        /\ asset'.scoped = asset.scoped /\ asset'.decoy = asset.decoy /\ asset'.score = score
        /\ asset'.class = b.class /\ asset'.location = b.location
        /\ asset'.encrypted = b.encrypted /\ asset'.kms = b.kms
        /\ asset'.scoped = b.scoped /\ asset'.decoy = b.decoy /\ asset'.score = b.score
    BY <1>2, <1>3 DEF Asset
  <1>5. RiskNow <= RiskNow' /\ (alert' = alert => RiskNow = RiskNow')
    <2>1. AssetRisk(asset, Related({"asset", "target"}), weight)
             <= AssetRisk(asset, Related({"asset", "target"})', weight)
      BY <1>1, <1>2, AssetRiskGrows
    <2>2. \A A, w : AssetRisk(asset, A, w) = AssetRisk(asset', A, w)
      BY <1>2, <1>4, SameScores
    <2>3. RiskNow' = AssetRisk(asset', Related({"asset", "target"})', weight)
      BY Zenon DEF RiskNow
    <2>4. alert' = alert => Related({"asset", "target"})' = Related({"asset", "target"})
      BY DEF Related
    <2> QED  BY <2>1, <2>2, <2>3, <2>4 DEF RiskNow
  <1>6. ASSUME asset.score <= score, NEW k \in Asks, ask'[k].signals = ask[k].signals
        PROVE  Rank[Now(k)] <= Rank[Now(k)']
    <2>1. LET v == Verdict(ask[k].signals, asset, profile, Related({"asset", "identity"}), weight)
              u == Verdict(ask[k].signals, b, profile, Related({"asset", "identity"})', weight)
          IN Rank[v] <= Rank[u]
      BY <1>1, <1>2, <1>3, <1>6, VerdictGrows
    <2>2. \A s, p, A, w : Verdict(s, asset', p, A, w) = Verdict(s, b, p, A, w)
      BY <1>2, <1>4, SameScores
    <2>3. Now(k)' = Verdict(ask[k].signals, asset', profile, Related({"asset", "identity"})', weight)
      BY <1>6, Zenon DEF Now
    <2> QED  BY <2>1, <2>2, <2>3 DEF Now
  <1> QED  BY <1>5, <1>6

-----------------------------------------------------------------------------
(* Engines that move *)

MovesTo(g, x) == g \in Working /\ engine' = [engine EXCEPT ![g] = x]

\* Events stay, and stay those of their request.
AlertsLast ==
    \A e \in AlertId : alert[e] # Idle => alert'[e] # Idle /\ alert'[e].of = alert[e].of

LEMMA MoveFacts ==
    ASSUME RiskTypeOK, NEW g, NEW x \in Engine \union {Idle}, MovesTo(g, x)
    PROVE  /\ engine' \in [Engines -> Engine \union {Idle}]
           /\ engine'[g] = x /\ \A q \in Engines \ {g} : engine'[q] = engine[q]
           /\ g \in Engines /\ engine[g] \in Engine
           /\ x # Idle => Working' = Working
           /\ x = Idle => Working' = Working \ {g}
  BY DEF RiskTypeOK, MovesTo, Working

LEMMA OthersSound ==
    ASSUME EnginesSound, NEW g \in Working, NEW q \in Working, q # g,
           AlertsLast, asset'.decoy = asset.decoy, engine[q].found \in AlertId \union {Idle}
    PROVE  EngineSound(engine[q])' \/ engine'[q] # engine[q]
  BY DEF EnginesSound, EngineSound, AlertsLast

LEMMA MoveKeeps ==
    ASSUME RiskTypeOK, EnginesSound, NEW g, NEW x \in Engine \union {Idle}, MovesTo(g, x),
           AlertsLast, asset'.decoy = asset.decoy,
           x # Idle => /\ EngineSound(x)'
                       /\ x.alone => engine[g].alone /\ AloneSound(x)'
    PROVE  EnginesSound'
  <1>1. g \in Working
    BY DEF MovesTo
  <1> SUFFICES ASSUME NEW q \in Working'
               PROVE  /\ EngineSound(engine[q])'
                      /\ engine'[q].alone => AloneSound(engine[q])' /\ \A p \in Working' : p = q
    BY DEF EnginesSound
  <1>2. CASE q = g
    <2>1. x # Idle /\ engine'[q] = x /\ Working' = Working
      BY <1>2, MoveFacts DEF Working
    <2>2. EngineSound(engine[q])'
      BY <2>1 DEF EngineSound
    <2>3. ASSUME engine'[q].alone
          PROVE  AloneSound(engine[q])' /\ \A p \in Working' : p = q
      <3>1. AloneSound(x)' /\ \A p \in Working : p = g
        BY <1>1, <2>1, <2>3 DEF EnginesSound
      <3>2. AloneSound(engine[q])'
        BY <2>1, <3>1 DEF AloneSound
      <3> QED  BY <1>2, <2>1, <3>1, <3>2
    <2> QED  BY <2>2, <2>3
  <1>3. CASE q # g
    <2>1. q \in Working /\ engine'[q] = engine[q]
      BY <1>3, MoveFacts DEF Working
    <2>2. engine[q] \in Engine
      BY <2>1 DEF RiskTypeOK, Working
    <2>3. engine[q].found \in AlertId \union {Idle}
      BY <2>2 DEF Engine
    <2>4. EngineSound(engine[q])'
      BY <1>1, <1>3, <2>1, <2>3, OthersSound
    <2>5. ~engine'[q].alone
      BY <1>1, <1>3, <2>1 DEF EnginesSound
    <2> QED  BY <2>4, <2>5
  <1> QED  BY <1>2, <1>3

LEMMA DisturbedTyped ==
    ASSUME NEW w \in Engine
    PROVE  [w EXCEPT !.alone = FALSE, !.again = FALSE] \in Engine
  <1>1. PICK x \in Engine : x = [w EXCEPT !.alone = FALSE]
    <2>1. [w EXCEPT !.alone = FALSE] \in Engine
      BY DEF Engine
    <2> QED  BY <2>1
  <1>2. [x EXCEPT !.again = FALSE] \in Engine
    BY DEF Engine
  <1>3. [x EXCEPT !.again = FALSE] = [w EXCEPT !.alone = FALSE, !.again = FALSE]
    BY <1>1 DEF Engine
  <1> QED  BY <1>2, <1>3

LEMMA DisturbedFacts ==
    ASSUME RiskTypeOK
    PROVE  /\ Disturbed(engine) \in [Engines -> Engine \union {Idle}]
           /\ \A q \in Engines : Disturbed(engine)[q] = Idle <=> engine[q] = Idle
           /\ \A q \in Working : Disturbed(engine)[q]
                                   = [engine[q] EXCEPT !.alone = FALSE, !.again = FALSE]
  <1>1. ASSUME NEW q \in Engines, engine[q] # Idle
        PROVE  [engine[q] EXCEPT !.alone = FALSE, !.again = FALSE] \in Engine
    <2>1. engine[q] \in Engine
      BY <1>1 DEF RiskTypeOK
    <2> QED  BY <2>1, DisturbedTyped
  <1> QED  BY <1>1, Typed DEF Disturbed, Working

\* A request that begins, or a change by others.
LEMMA DisturbKeeps ==
    ASSUME RiskTypeOK, EnginesSound, AlertsLast, asset'.decoy = asset.decoy,
           NEW E \in [Engines -> Engine \union {Idle}], E = Disturbed(engine),
           \/ engine' = E
           \/ \E g \in Engines \ Working, x \in Engine :
                 /\ engine' = [E EXCEPT ![g] = x]
                 /\ EngineSound(x)' /\ (x.alone => Working = {} /\ AloneSound(x)')
    PROVE  EnginesSound'
  <1>1. ASSUME NEW q \in Working, engine'[q] = E[q]
        PROVE  EngineSound(engine[q])' /\ ~engine'[q].alone
    <2>1. engine[q] \in Engine
      BY DEF RiskTypeOK, Working
    <2>2. PICK w \in Engine : w = [engine[q] EXCEPT !.alone = FALSE, !.again = FALSE]
      <3>1. [engine[q] EXCEPT !.alone = FALSE, !.again = FALSE] \in Engine
        BY <2>1, DisturbedTyped
      <3> QED  BY <3>1
    <2>3. engine'[q] = w
      BY <1>1, <2>2, DisturbedFacts
    <2>4. /\ w.kind = engine[q].kind /\ w.subject = engine[q].subject
          /\ w.stage = engine[q].stage /\ w.decision = engine[q].decision
          /\ w.found = engine[q].found /\ w.saw = engine[q].saw
          /\ w.alone = FALSE /\ w.again = FALSE /\ w.found \in AlertId \union {Idle}
      BY <2>1, <2>2 DEF Engine
    <2>5. EngineSound(engine[q])
      BY DEF EnginesSound
    <2>6. EngineSound(w)'
      BY <2>4, <2>5 DEF EngineSound, AlertsLast
    <2>7. EngineSound(engine[q])'
      BY <2>3, <2>6 DEF EngineSound
    <2> QED  BY <2>3, <2>4, <2>7
  <1>2. CASE engine' = E
    <2>1. Working' = Working
      BY <1>2, DisturbedFacts DEF Working
    <2> QED  BY <1>1, <1>2, <2>1 DEF EnginesSound
  <1>3. ASSUME NEW g \in Engines \ Working, NEW x \in Engine,
               engine' = [E EXCEPT ![g] = x],
               EngineSound(x)', x.alone => Working = {} /\ AloneSound(x)'
        PROVE  EnginesSound'
    <2>1. /\ Working' = Working \union {g} /\ engine'[g] = x
          /\ \A q \in Working : engine'[q] = E[q]
      <3>1. x # Idle /\ \A q \in Engines : E[q] = Idle <=> engine[q] = Idle
        BY DisturbedFacts, Typed
      <3>2. engine'[g] = x /\ \A q \in Engines \ {g} : engine'[q] = E[q]
        BY <1>3
      <3> QED  BY <3>1, <3>2 DEF Working
    <2>2. \A q \in Working : EngineSound(engine[q])' /\ ~engine'[q].alone
      BY <1>1, <2>1
    <2>3. EngineSound(engine[g])'
      BY <1>3, <2>1 DEF EngineSound
    <2>4. x.alone => AloneSound(engine[g])' /\ \A q \in Working' : q = g
      BY <1>3, <2>1 DEF AloneSound
    <2> QED  BY <2>1, <2>2, <2>3, <2>4 DEF EnginesSound
  <1> QED  BY <1>2, <1>3

-----------------------------------------------------------------------------
(* Requests begin and read *)

LEMMA SameRows ==
    ASSUME UNCHANGED <<asset, profile, ask, alert, weight>>
    PROVE  /\ RiskNow' = RiskNow /\ \A k : Now(k)' = Now(k)
           /\ \A x : ScoreSettled(x)' <=> ScoreSettled(x)
           /\ AlertsLast /\ asset'.decoy = asset.decoy
  <1>1. \A ways : Related(ways)' = Related(ways)
    BY DEF Related
  <1>2. RiskNow' = RiskNow /\ \A k : Now(k)' = Now(k)
    BY <1>1 DEF RiskNow, Now
  <1> QED  BY <1>2 DEF ScoreSettled, AlertsLast

LEMMA RowsKeep ==
    ASSUME TightInv, UNCHANGED <<asset, profile, ask, alert, weight, moved>>,
           RiskTypeOK', EnginesSound', Working' # {} \/ last' = Idle
    PROVE  TightInv'
  <1>1. AlertsSound'
    BY DEF TightInv, AlertsSound
  <1>2. DecisionsTight'
    BY SameRows DEF TightInv, DecisionsTight
  <1>3. AssetTight' /\ LastSettled'
    BY SameRows DEF TightInv, AssetTight, LastSettled
  <1> QED  BY <1>1, <1>2, <1>3 DEF TightInv

LEMMA ScoringStarts ==
    ASSUME TightInv, NEW g \in Engines, NEW kind \in {"recalculate", "evaluate"},
           NEW subject \in Subject,
           IF kind = "evaluate" THEN subject \in Asks ELSE subject = "asset",
           Start(g, kind, subject), UNCHANGED <<asset, profile, ask, alert, weight>>
    PROVE  TightInv'
  <1>1. /\ RiskTypeOK /\ EnginesSound /\ LastSettled /\ asset \in Asset /\ profile \in Profile
        /\ g \notin Working
    BY DEF TightInv, RiskTypeOK, Start
  <1>2. PICK E \in [Engines -> Engine \union {Idle}] : E = Disturbed(engine)
    BY <1>1, DisturbedFacts
  <1>3. PICK alone \in BOOLEAN : alone <=> Working = {}
    OBVIOUS
  <1>4. PICK again \in BOOLEAN : again <=> Working = {} /\ last = subject
    OBVIOUS
  <1>5. PICK x \in Engine :
           x = [kind |-> kind, subject |-> subject, stage |-> "events", saw |-> asset,
                who |-> profile, score |-> 0, decision |-> Idle, found |-> Idle,
                alone |-> alone, again |-> again]
    <2>1. [kind |-> kind, subject |-> subject, stage |-> "events", saw |-> asset,
           who |-> profile, score |-> 0, decision |-> Idle, found |-> Idle,
           alone |-> alone, again |-> again] \in Engine
      BY <1>1, SMTT(30) DEF Engine
    <2> QED  BY <2>1
  <1>6. engine' = [E EXCEPT ![g] = x]
    <2>1. x = [kind |-> kind, subject |-> subject, stage |-> "events", saw |-> asset,
               who |-> profile, score |-> 0, decision |-> Idle, found |-> Idle,
               alone |-> Working = {}, again |-> Working = {} /\ last = subject]
      <3>1. alone = (Working = {}) /\ again = (Working = {} /\ last = subject)
        BY <1>3, <1>4, Zenon
      <3> QED  BY <1>5, <3>1, Zenon
    <2> QED  BY <1>2, <2>1, Zenon DEF Start
  <1>7. EngineSound(x)'
    BY <1>3, <1>4, <1>5 DEF EngineSound
  <1>8. ASSUME x.alone PROVE Working = {} /\ AloneSound(x)'
    <2>1. Working = {} /\ x.stage = "events" /\ x.saw = asset' /\ x.who = profile'
          /\ x.subject = subject
      BY <1>3, <1>5, <1>8
    <2>2. x.again => ScoreSettled(subject)'
      <3>1. ASSUME x.again PROVE ScoreSettled(subject)
        <4>1. last = subject /\ subject # Idle
          BY <1>4, <1>5, <3>1, Typed DEF Subject
        <4> QED  BY <1>1, <2>1, <4>1 DEF LastSettled
      <3> QED  BY <3>1, SameRows
    <2> QED  BY <2>1, <2>2 DEF AloneSound
  <1>9. EnginesSound'
    <2>1. \E q \in Engines \ Working, y \in Engine :
             /\ engine' = [E EXCEPT ![q] = y]
             /\ EngineSound(y)' /\ (y.alone => Working = {} /\ AloneSound(y)')
      BY <1>1, <1>6, <1>7, <1>8
    <2> QED  BY <1>1, <1>2, <2>1, SameRows, DisturbKeeps
  <1>10. RiskTypeOK'
    <2>1. engine' \in [Engines -> Engine \union {Idle}]
      BY <1>2, <1>6
    <2>2. turns' \in 0..MaxTurns /\ UNCHANGED <<moves, moved, last>>
      BY <1>1, Typed DEF Start, RiskTypeOK
    <2> QED  BY <1>1, <2>1, <2>2 DEF RiskTypeOK
  <1>11. Working' # {}
    BY <1>5, <1>6, Typed DEF Working
  <1> QED  BY <1>9, <1>10, <1>11, RowsKeep DEF Start

LEMMA UpdateKeeps ==
    ASSUME TightInv, NEW g \in Engines, NEW class \in Classes, NEW exposure \in Exposures,
           Update(g, class, exposure)
    PROVE  TightInv'
  <1>1. /\ RiskTypeOK /\ EnginesSound /\ asset \in Asset /\ profile \in Profile
        /\ g \notin Working /\ UNCHANGED <<asset, profile, ask, alert, weight, moved, moves, last>>
    BY DEF TightInv, RiskTypeOK, Update
  <1>2. PICK E \in [Engines -> Engine \union {Idle}] : E = Disturbed(engine)
    BY <1>1, DisturbedFacts
  <1>3. PICK a \in Asset : a = [asset EXCEPT !.class = class, !.exposure = exposure]
    <2>1. [asset EXCEPT !.class = class, !.exposure = exposure] \in Asset
      BY <1>1 DEF Asset
    <2> QED  BY <2>1
  <1>4. InventoryRisk(a) \in 0..100 /\ a.decoy = asset.decoy
    BY <1>1, <1>3, InventoryTyped DEF Asset
  <1>5. PICK x \in Engine :
           x = [kind |-> "update", subject |-> "asset", stage |-> "write", saw |-> a,
                who |-> profile, score |-> InventoryRisk(a), decision |-> Idle, found |-> Idle,
                alone |-> FALSE, again |-> FALSE]
    BY <1>1, <1>4 DEF Engine, Subject
  <1>6. engine' = [E EXCEPT ![g] = x]
    BY <1>2, <1>3, <1>5, Zenon DEF Update
  <1>7. EngineSound(x)' /\ ~x.alone
    BY <1>1, <1>4, <1>5 DEF EngineSound
  <1>8. EnginesSound'
    <2>1. \E q \in Engines \ Working, y \in Engine :
             /\ engine' = [E EXCEPT ![q] = y]
             /\ EngineSound(y)' /\ (y.alone => Working = {} /\ AloneSound(y)')
      BY <1>1, <1>6, <1>7
    <2> QED  BY <1>1, <1>2, <2>1, SameRows, DisturbKeeps
  <1>9. RiskTypeOK'
    <2>1. engine' \in [Engines -> Engine \union {Idle}]
      BY <1>2, <1>6
    <2>2. turns' \in 0..MaxTurns
      BY <1>1, Typed DEF Update, RiskTypeOK
    <2> QED  BY <1>1, <2>1, <2>2 DEF RiskTypeOK
  <1>10. Working' # {}
    BY <1>5, <1>6, Typed DEF Working
  <1> QED  BY <1>1, <1>8, <1>9, <1>10, RowsKeep

\* A request that reads goes to another stage.
LEMMA ReadKeeps ==
    ASSUME TightInv, NEW g \in Engines, NEW x \in Engine, MovesTo(g, x),
           UNCHANGED <<asset, profile, ask, alert, weight, bounds, moved, last>>,
           EngineSound(x), x.alone => engine[g].alone /\ AloneSound(x)
    PROVE  TightInv'
  <1>1. EngineSound(x)' /\ (x.alone => AloneSound(x)')
    BY SameRows DEF EngineSound, AloneSound
  <1>2. RiskTypeOK /\ EnginesSound
    BY DEF TightInv
  <1>3. EnginesSound'
    BY <1>1, <1>2, SameRows, MoveKeeps
  <1>4. RiskTypeOK' /\ Working' # {}
    <2>1. engine' \in [Engines -> Engine \union {Idle}] /\ Working' = Working /\ g \in Working
      BY <1>2, MoveFacts, Typed DEF MovesTo
    <2> QED  BY <1>2, <2>1 DEF RiskTypeOK, bounds
  <1> QED  BY <1>3, <1>4, RowsKeep

LEMMA EngineAtWork ==
    ASSUME TightInv, NEW g \in Engines, NEW kind, NEW stage, Does(g, kind, stage)
    PROVE  /\ g \in Working /\ engine[g] \in Engine /\ EngineSound(engine[g])
           /\ engine[g].kind = kind /\ engine[g].stage = stage
           /\ engine[g].alone => AloneSound(engine[g])
           /\ IF kind = "evaluate" THEN engine[g].subject \in Asks
              ELSE engine[g].subject = "asset"
  <1>1. g \in Working /\ engine[g].kind = kind /\ engine[g].stage = stage
    BY DEF Does
  <1>2. engine[g] \in Engine
    BY <1>1 DEF TightInv, RiskTypeOK, Working
  <1>3. EngineSound(engine[g]) /\ (engine[g].alone => AloneSound(engine[g]))
    BY <1>1 DEF TightInv, EnginesSound
  <1> QED  BY <1>1, <1>2, <1>3 DEF EngineSound

LEMMA StageTyped ==
    ASSUME NEW w \in Engine, NEW stage \in {"events", "write", "find", "event"}
    PROVE  [w EXCEPT !.stage = stage] \in Engine
  BY DEF Engine

LEMMA RecalculateReadKeeps ==
    ASSUME TightInv, NEW g \in Engines, RecalculateRead(g)
    PROVE  TightInv'
  <1>1. PICK w \in Engine : w = engine[g]
    BY EngineAtWork DEF RecalculateRead
  <1>2. /\ g \in Working /\ EngineSound(w) /\ w.kind = "recalculate" /\ w.stage = "events"
        /\ w.subject = "asset" /\ (w.alone => AloneSound(w))
    BY <1>1, EngineAtWork DEF RecalculateRead
  <1>3. PICK score \in 0..100 : score = AssetRisk(w.saw, Related({"asset", "target"}), weight)
    <2>1. w.saw \in Asset /\ weight \in Nat /\ Related({"asset", "target"}) \in Alerts
      BY RelatedTyped, InputAssumption DEF TightInv, RiskTypeOK, Engine
    <2>2. Grown(Related({"asset", "target"}), Related({"asset", "target"}))
      BY DEF Grown
    <2> QED  BY <2>1, <2>2, AssetRiskGrows
  <1>4. PICK x \in Engine : x = [w EXCEPT !.stage = "write", !.score = score]
    <2>1. PICK y \in Engine : y = [w EXCEPT !.stage = "write"]
      BY StageTyped
    <2>2. [y EXCEPT !.score = score] \in Engine
      BY DEF Engine
    <2>3. [y EXCEPT !.score = score] = [w EXCEPT !.stage = "write", !.score = score]
      BY <2>1 DEF Engine
    <2> QED  BY <2>2, <2>3
  <1>5. MovesTo(g, x)
    <2>1. engine' = [engine EXCEPT ![g].stage = "write", ![g].score = score]
      BY <1>1, <1>3, Zenon DEF RecalculateRead
    <2> QED  BY <1>1, <1>2, <1>4, <2>1 DEF MovesTo
  <1>6. /\ x.kind = "recalculate" /\ x.subject = "asset" /\ x.stage = "write" /\ x.score = score
        /\ x.found = w.found /\ x.saw = w.saw /\ x.alone = w.alone /\ x.again = w.again
        /\ x.decision = w.decision
    BY <1>2, <1>4 DEF Engine
  <1>7. EngineSound(x)
    BY <1>2, <1>6 DEF EngineSound
  <1>8. ASSUME x.alone PROVE engine[g].alone /\ AloneSound(x)
    <2>1. w.alone /\ w.saw = asset /\ (w.again => ScoreSettled("asset"))
      BY <1>2, <1>6, <1>8 DEF AloneSound
    <2>2. score = RiskNow
      BY <1>3, <2>1 DEF RiskNow
    <2> QED  BY <1>1, <1>6, <2>1, <2>2 DEF AloneSound
  <1>9. UNCHANGED <<asset, profile, ask, alert, weight, bounds, moved, last>>
    BY DEF RecalculateRead
  <1> QED  BY <1>5, <1>7, <1>8, <1>9, ReadKeeps

LEMMA EvaluateReadKeeps ==
    ASSUME TightInv, NEW g \in Engines, EvaluateRead(g)
    PROVE  TightInv'
  <1>1. PICK w \in Engine : w = engine[g]
    BY EngineAtWork DEF EvaluateRead
  <1>2. /\ g \in Working /\ EngineSound(w) /\ w.kind = "evaluate" /\ w.stage = "events"
        /\ w.subject \in Asks /\ (w.alone => AloneSound(w))
    BY <1>1, EngineAtWork DEF EvaluateRead
  <1>3. PICK decision \in DOMAIN Rank :
           decision = Verdict(ask[w.subject].signals, w.saw, w.who,
                              Related({"asset", "identity"}), weight)
    <2>1. w.saw \in Asset /\ w.who \in Profile /\ weight \in Nat
          /\ Related({"asset", "identity"}) \in Alerts /\ ask[w.subject].signals \in Signals
      BY <1>2, RelatedTyped, InputAssumption DEF TightInv, RiskTypeOK, Engine, AskRow
    <2> QED  BY <2>1, VerdictTyped
  <1>4. PICK x \in Engine : x = [w EXCEPT !.stage = "write", !.decision = decision]
    <2>1. PICK y \in Engine : y = [w EXCEPT !.stage = "write"]
      BY StageTyped
    <2>2. [y EXCEPT !.decision = decision] \in Engine
      BY DEF Engine
    <2>3. [y EXCEPT !.decision = decision] = [w EXCEPT !.stage = "write", !.decision = decision]
      BY <2>1 DEF Engine
    <2> QED  BY <2>2, <2>3
  <1>5. MovesTo(g, x)
    <2>1. engine' = [engine EXCEPT ![g].stage = "write", ![g].decision = decision]
      BY <1>1, <1>3, Zenon DEF EvaluateRead
    <2> QED  BY <1>1, <1>2, <1>4, <2>1 DEF MovesTo
  <1>6. /\ x.kind = "evaluate" /\ x.subject = w.subject /\ x.stage = "write"
        /\ x.decision = decision
        /\ x.found = w.found /\ x.saw = w.saw /\ x.alone = w.alone /\ x.again = w.again
    BY <1>2, <1>4 DEF Engine
  <1>7. EngineSound(x)
    BY <1>2, <1>3, <1>6 DEF EngineSound
  <1>8. ASSUME x.alone PROVE engine[g].alone /\ AloneSound(x)
    <2>1. w.alone /\ w.saw = asset /\ w.who = profile /\ (w.again => ScoreSettled(w.subject))
      BY <1>2, <1>6, <1>8 DEF AloneSound
    <2>2. decision = Now(w.subject)
      BY <1>3, <2>1 DEF Now
    <2> QED  BY <1>1, <1>6, <2>1, <2>2 DEF AloneSound
  <1>9. UNCHANGED <<asset, profile, ask, alert, weight, bounds, moved, last>>
    BY DEF EvaluateRead
  <1> QED  BY <1>5, <1>7, <1>8, <1>9, ReadKeeps

LEMMA LatestAlert ==
    ASSUME NEW found \in SUBSET AlertId, found # {}
    PROVE  (CHOOSE e \in found : \A f \in found : f <= e) \in found
  <1> DEFINE before == {MaxAlerts - e : e \in found}
             less   == {pair \in Nat \X Nat : pair[1] < pair[2]}
  <1>1. before \subseteq Nat /\ before # {}
    <2>1. \A e \in found : e \in Nat /\ e <= MaxAlerts
      BY DEF AlertId
    <2>2. \A e \in found : MaxAlerts - e \in Nat
      BY <2>1, Typed
    <2> QED BY <2>2
  <1>2. \E x \in before : \A y \in before : <<y, x>> \notin less
    <2>1. IsWellFoundedOn(less, Nat)
      BY NatLessThanWellFounded DEF OpToRel
    <2> HIDE DEF before, less
    <2> QED BY <1>1, <2>1, WFMin
  <1>3. PICK x \in before : \A y \in before : <<y, x>> \notin less
    BY <1>2
  <1>4. PICK e \in found : x = MaxAlerts - e
    OBVIOUS
  <1>5. ASSUME NEW f \in found PROVE f <= e
    <2>1. MaxAlerts - f \in before /\ MaxAlerts - f \in Nat /\ MaxAlerts - e \in Nat
          /\ e \in Nat /\ f \in Nat /\ MaxAlerts \in Nat
      BY Typed DEF AlertId
    <2>2. ~(MaxAlerts - f < MaxAlerts - e)
      BY <1>3, <1>4, <2>1
    <2> QED BY <2>1, <2>2
  <1> QED BY <1>5

LEMMA EvaluateFindKeeps ==
    ASSUME TightInv, NEW g \in Engines, EvaluateFind(g)
    PROVE  TightInv'
  <1>1. PICK w \in Engine : w = engine[g]
    BY EngineAtWork DEF EvaluateFind
  <1>2. /\ g \in Working /\ EngineSound(w) /\ w.kind = "evaluate" /\ w.stage = "find"
        /\ w.subject \in Asks /\ (w.alone => AloneSound(w))
    BY <1>1, EngineAtWork DEF EvaluateFind
  <1>3. PICK e : e = IF EventsFor(w.subject) = {} THEN Idle
                     ELSE CHOOSE f \in EventsFor(w.subject) :
                              \A q \in EventsFor(w.subject) : q <= f
    OBVIOUS
  <1>4. e \in AlertId \union {Idle} /\ (e # Idle => alert[e] # Idle /\ alert[e].of = w.subject)
    <2>1. EventsFor(w.subject) \in SUBSET AlertId
      BY DEF EventsFor
    <2>2. EventsFor(w.subject) = {} => e = Idle
      BY <1>3
    <2>3. EventsFor(w.subject) # {} => e \in EventsFor(w.subject)
      BY <1>3, <2>1, LatestAlert
    <2> QED  BY <2>1, <2>2, <2>3 DEF EventsFor
  <1>5. PICK x \in Engine : x = [w EXCEPT !.stage = "event", !.found = e]
    <2>1. PICK y \in Engine : y = [w EXCEPT !.stage = "event"]
      BY StageTyped
    <2>2. [y EXCEPT !.found = e] \in Engine
      BY <1>4 DEF Engine
    <2>3. [y EXCEPT !.found = e] = [w EXCEPT !.stage = "event", !.found = e]
      BY <2>1 DEF Engine
    <2> QED  BY <2>2, <2>3
  <1>6. MovesTo(g, x)
    <2>1. engine' = [engine EXCEPT ![g].stage = "event", ![g].found = e]
      <3>1. engine' = [engine EXCEPT ![g].stage = "event", ![g].found =
                         IF EventsFor(w.subject) = {} THEN Idle
                         ELSE CHOOSE f \in EventsFor(w.subject) :
                                  \A q \in EventsFor(w.subject) : q <= f]
        BY <1>1 DEF EvaluateFind
      <3> QED  BY <1>3, <3>1
    <2> QED  BY <1>1, <1>2, <1>5, <2>1 DEF MovesTo
  <1>7. /\ x.kind = "evaluate" /\ x.subject = w.subject /\ x.stage = "event"
        /\ x.decision = w.decision
        /\ x.found = e /\ x.saw = w.saw /\ x.alone = w.alone /\ x.again = w.again
    BY <1>2, <1>5 DEF Engine
  <1>8. EngineSound(x)
    BY <1>2, <1>4, <1>7 DEF EngineSound
  <1>9. x.alone => engine[g].alone /\ AloneSound(x)
    BY <1>1, <1>2, <1>7 DEF AloneSound
  <1>10. UNCHANGED <<asset, profile, ask, alert, weight, bounds, moved, last>>
    BY DEF EvaluateFind
  <1> QED  BY <1>6, <1>8, <1>9, <1>10, ReadKeeps

-----------------------------------------------------------------------------
(* Engines write *)

\* A write of the asset or of a request leaves the events alone.
LEMMA AlertsStay ==
    ASSUME alert' = alert
    PROVE  AlertsLast /\ AlertsGrow /\ \A ways : Related(ways)' = Related(ways)
  BY DEF AlertsLast, AlertsGrow, Grown, Related

LEMMA LevelsTyped ==
    ASSUME NEW score
    PROVE  EngineLevel(score) \in Level /\ InventoryLevel(score) \in Level
  BY DEF EngineLevel, InventoryLevel, LevelAt, Level

LEMMA NowTypedNext ==
    ASSUME RiskTypeOK'
    PROVE  \A k \in Asks : Now(k)' \in DOMAIN Rank
  <1> SUFFICES ASSUME NEW k \in Asks
               PROVE  Now(k)' \in DOMAIN Rank
    OBVIOUS
  <1>1. Related({"asset", "identity"})' \in Alerts
    BY DEF RiskTypeOK, Related, Alerts
  <1>2. asset' \in Asset /\ profile' \in Profile /\ weight' \in Nat /\ ask'[k].signals \in Signals
    BY InputAssumption DEF RiskTypeOK, AskRow
  <1>3. Verdict(ask'[k].signals, asset', profile', Related({"asset", "identity"})', weight')
           \in DOMAIN Rank
    BY <1>1, <1>2, VerdictTyped
  <1> QED  BY <1>3, Zenon DEF Now

\* The engine that writes goes on to the stage x stands for, or is done.
Written(g, x, go, stage, settled) ==
    /\ MovesTo(g, x)
    /\ go => /\ x # Idle /\ x.stage = stage /\ last' = last
             /\ x.kind = engine[g].kind /\ x.subject = engine[g].subject
             /\ x.decision = engine[g].decision /\ x.score = engine[g].score
             /\ x.found = engine[g].found /\ x.saw = engine[g].saw
             /\ x.alone = engine[g].alone /\ x.again = engine[g].again
    /\ ~go => x = Idle /\ last' = IF engine[g].alone /\ settled THEN engine[g].subject ELSE Idle

LEMMA WriteMoves ==
    ASSUME RiskTypeOK, NEW g \in Working, NEW stage \in {"find", "event"}, NEW go, NEW settled,
           IF go THEN ToStage(g, stage) /\ UNCHANGED last ELSE FinishAs(g, settled)
    PROVE  \E x \in Engine \union {Idle} : Written(g, x, go, stage, settled)
  <1>0. PICK w \in Engine : w = engine[g]
    BY DEF RiskTypeOK, Working
  <1>1. CASE go
    <2>1. PICK x \in Engine : x = [w EXCEPT !.stage = stage]
      BY StageTyped
    <2>2. MovesTo(g, x)
      BY <1>0, <1>1, <2>1 DEF MovesTo, ToStage
    <2>3. /\ x # Idle /\ x.kind = w.kind /\ x.subject = w.subject
          /\ x.stage = stage /\ x.decision = w.decision /\ x.score = w.score
          /\ x.found = w.found /\ x.saw = w.saw /\ x.alone = w.alone
          /\ x.again = w.again
      BY <2>1, Typed DEF Engine
    <2>4. Written(g, x, go, stage, settled)
      BY <1>0, <1>1, <2>2, <2>3 DEF Written
    <2> QED  BY <2>4
  <1>2. CASE ~go
    <2>1. Written(g, Idle, go, stage, settled)
      BY <1>2 DEF FinishAs, MovesTo, Written
    <2> QED  BY <2>1
  <1> QED  BY <1>1, <1>2

LEMMA RecalculateWriteFacts ==
    ASSUME TightInv, NEW g \in Engines, RecalculateWrite(g), RiskTypeOK'
    PROVE  /\ asset'.score = engine[g].score /\ asset'.level = EngineLevel(engine[g].score)
           /\ asset'.decoy = asset.decoy
           /\ RiskNow' = RiskNow
           /\ asset.score <= engine[g].score => \A k \in Asks : Rank[Now(k)] <= Rank[Now(k)']
  <1>1. engine[g] \in Engine /\ engine[g].score \in 0..100 /\ asset \in Asset
    BY EngineAtWork DEF RecalculateWrite, Engine, TightInv, RiskTypeOK
  <1>2. PICK score \in 0..100, level \in Level :
           score = engine[g].score /\ level = EngineLevel(score)
    BY <1>1, LevelsTyped
  <1>3. asset' = [asset EXCEPT !.score = score, !.level = level]
    BY <1>2 DEF RecalculateWrite
  <1>4. UNCHANGED <<profile, ask, alert, weight>>
    BY DEF RecalculateWrite
  <1>5. RiskNow = RiskNow' /\ (asset.score <= score =>
           \A k \in Asks : ask'[k].signals = ask[k].signals => Rank[Now(k)] <= Rank[Now(k)'])
    BY <1>3, <1>4, AlertsStay, ScoresGrow DEF TightInv
  <1>6. asset'.score = score /\ asset'.level = level /\ asset'.decoy = asset.decoy
    BY <1>1, <1>3 DEF Asset
  <1> QED  BY <1>2, <1>4, <1>5, <1>6

LEMMA ScoredTyped ==
    ASSUME RiskTypeOK, NEW g \in Working, NEW others \in SUBSET Asks, Scored(g, others)
    PROVE  moved' \subseteq Subject
  <1>1. engine[g].subject \in Subject
    BY DEF RiskTypeOK, Working, Engine
  <1> QED  BY <1>1 DEF Scored, RiskTypeOK, Subject

LEMMA RecalculateWriteKeeps ==
    ASSUME TightInv, NEW g \in Engines, RecalculateWrite(g)
    PROVE  TightInv'
  <1>1. PICK w \in Engine : w = engine[g]
    BY EngineAtWork DEF RecalculateWrite
  <1>2. /\ g \in Working /\ EngineSound(w) /\ w.kind = "recalculate" /\ w.stage = "write"
        /\ w.subject = "asset" /\ (w.alone => AloneSound(w)) /\ w.score \in 0..100
    BY <1>1, EngineAtWork DEF RecalculateWrite, Engine
  <1>3. RiskTypeOK /\ EnginesSound
    BY DEF TightInv
  <1>4. PICK others \in SUBSET Asks :
           others = IF w.score < asset.score THEN Asks ELSE {}
    OBVIOUS
  <1>5. Scored(g, others)
    BY <1>1, <1>4 DEF RecalculateWrite
  <1>6. PICK go \in BOOLEAN : go <=> Alarming(EngineLevel(w.score))
    OBVIOUS
  <1>7. IF go THEN ToStage(g, "event") /\ UNCHANGED last ELSE FinishAs(g, TRUE)
    BY <1>1, <1>6 DEF RecalculateWrite, Finish
  <1>8. PICK x \in Engine \union {Idle} : Written(g, x, go, "event", TRUE)
    BY <1>2, <1>3, <1>7, WriteMoves
  <1>9. RiskTypeOK'
    <2>1. asset' \in Asset
      BY <1>1, <1>2, <1>3, LevelsTyped DEF RecalculateWrite, RiskTypeOK, Asset
    <2>2. engine' \in [Engines -> Engine \union {Idle}]
      BY <1>3, <1>8, MoveFacts DEF Written
    <2>3. moved' \subseteq Subject
      BY <1>2, <1>3, <1>5, ScoredTyped
    <2>4. last' \in Subject \union {Idle}
      BY <1>1, <1>2, <1>3, <1>8 DEF RiskTypeOK, Subject, Written
    <2>5. UNCHANGED <<profile, ask, alert, weight, turns, moves>>
      BY DEF RecalculateWrite, bounds
    <2> QED  BY <1>3, <2>1, <2>2, <2>3, <2>4, <2>5 DEF RiskTypeOK
  <1>10. /\ asset'.score = w.score /\ asset'.level = EngineLevel(w.score)
         /\ asset'.decoy = asset.decoy /\ RiskNow' = RiskNow
         /\ asset.score <= w.score => \A k \in Asks : Rank[Now(k)] <= Rank[Now(k)']
    BY <1>1, <1>9, RecalculateWriteFacts
  <1>11. UNCHANGED <<profile, ask, alert, weight>>
    BY DEF RecalculateWrite
  <1>12. EnginesSound'
    <2>1. x # Idle => EngineSound(x)'
      BY <1>1, <1>2, <1>8, <1>10, <1>11 DEF EngineSound, Written
    <2>2. x # Idle /\ x.alone => engine[g].alone /\ AloneSound(x)'
      BY <1>1, <1>2, <1>6, <1>8, <1>10 DEF AloneSound, Written
    <2> QED  BY <1>3, <1>8, <1>10, <1>11, <2>1, <2>2, AlertsStay, MoveKeeps DEF Written
  <1>13. AlertsSound'
    BY <1>10, <1>11 DEF TightInv, AlertsSound
  <1>14. DecisionsTight'
    <2> SUFFICES ASSUME NEW k \in Asks, k \notin moved', ask[k].decision # Idle
                 PROVE  Rank[ask[k].decision] <= Rank[Now(k)']
      BY <1>11 DEF DecisionsTight
    <2>1. k \notin others /\ k \notin moved
      BY <1>1, <1>2, <1>5, Typed DEF Scored
    <2>2. asset.score <= w.score
      <3>1. asset.score \in 0..100
        BY <1>3, AssetTyped DEF RiskTypeOK
      <3>2. w.score \in 0..100
        BY <1>2
      <3>3. ~(w.score < asset.score)
        BY <1>4, <2>1
      <3> QED  BY <3>1, <3>2, <3>3
    <2>3. Rank[Now(k)] <= Rank[Now(k)']
      BY <1>10, <2>2
    <2>4. Rank[ask[k].decision] <= Rank[Now(k)]
      BY <2>1 DEF TightInv, DecisionsTight
    <2>5. ask[k].decision \in DOMAIN Rank /\ Now(k) \in DOMAIN Rank /\ Now(k)' \in DOMAIN Rank
      <3>1. Now(k) \in DOMAIN Rank /\ ask[k].decision \in DOMAIN Rank
        BY <1>3, NowTyped DEF RiskTypeOK, AskRow
      <3>2. \A j \in Asks : Now(j)' \in DOMAIN Rank
        BY <1>9, NowTypedNext
      <3> QED  BY <3>1, <3>2
    <2> QED  BY <2>3, <2>4, <2>5, RankFacts
  <1>15. AssetTight' /\ LastSettled'
    <2>1. w.alone => w.score = RiskNow
      BY <1>2 DEF AloneSound
    <2>2. "asset" \notin moved' => w.alone
      BY <1>1, <1>2, <1>5 DEF Scored
    <2>3. RiskNow \in 0..100
      BY <1>3, NowTyped
    <2>4. AssetTight'
      BY <1>10, <2>1, <2>2, <2>3 DEF AssetTight
    <2>5. ASSUME last' # Idle, Working' = {} PROVE ScoreSettled(last)'
      <3>1. ~go /\ last' = "asset" /\ w.alone
        BY <1>1, <1>2, <1>3, <1>8, <2>5, MoveFacts DEF Written
      <3> QED  BY <1>10, <2>1, <3>1, Typed DEF ScoreSettled
    <2> QED  BY <2>4, <2>5 DEF LastSettled
  <1> QED  BY <1>9, <1>12, <1>13, <1>14, <1>15 DEF TightInv

LEMMA UpdateWriteKeeps ==
    ASSUME TightInv, NEW g \in Engines, UpdateWrite(g)
    PROVE  TightInv'
  <1>1. PICK w \in Engine : w = engine[g]
    BY EngineAtWork DEF UpdateWrite
  <1>2. /\ g \in Working /\ EngineSound(w) /\ w.kind = "update" /\ w.stage = "write"
        /\ w.subject = "asset" /\ ~w.alone
    BY <1>1, EngineAtWork DEF UpdateWrite, EngineSound
  <1>3. RiskTypeOK /\ EnginesSound
    BY DEF TightInv
  <1>4. PICK go \in BOOLEAN : go <=> Alarming(InventoryLevel(w.score))
    OBVIOUS
  <1>5. IF go THEN ToStage(g, "event") /\ UNCHANGED last ELSE FinishAs(g, TRUE)
    BY <1>1, <1>4 DEF UpdateWrite, Finish
  <1>6. PICK x \in Engine \union {Idle} : Written(g, x, go, "event", TRUE)
    BY <1>2, <1>3, <1>5, WriteMoves
  <1>7. PICK level \in Level : level = InventoryLevel(w.score)
    BY LevelsTyped
  <1>8. asset' \in Asset /\ asset'.decoy = asset.decoy
    <2>1. asset \in Asset /\ w.saw \in Asset /\ w.score \in 0..100
      BY <1>3 DEF RiskTypeOK, Engine
    <2>2. PICK class \in Classes, exposure \in Exposures, score \in 0..100 :
             class = w.saw.class /\ exposure = w.saw.exposure /\ score = w.score
      BY <2>1 DEF Asset
    <2>3. asset' = [asset EXCEPT !.class = class, !.exposure = exposure, !.score = score,
                                 !.level = level]
      BY <1>1, <1>7, <2>2, Zenon DEF UpdateWrite
    <2>4. PICK a \in Asset : a = [asset EXCEPT !.class = class, !.exposure = exposure]
      <3>1. [asset EXCEPT !.class = class, !.exposure = exposure] \in Asset
        BY <2>1 DEF Asset
      <3> QED  BY <3>1
    <2>5. asset' = [a EXCEPT !.score = score, !.level = level]
      BY <2>1, <2>3, <2>4 DEF Asset
    <2>6. a.decoy = asset.decoy
      BY <2>1, <2>4 DEF Asset
    <2> QED  BY <2>4, <2>5, <2>6 DEF Asset
  <1>9. UNCHANGED <<profile, ask, alert, weight, turns, moves>> /\ moved' = Subject
    BY DEF UpdateWrite, bounds
  <1>10. RiskTypeOK'
    <2>1. engine' \in [Engines -> Engine \union {Idle}]
      BY <1>3, <1>6, MoveFacts DEF Written
    <2>2. last' \in Subject \union {Idle}
      BY <1>1, <1>2, <1>3, <1>6 DEF RiskTypeOK, Written
    <2> QED  BY <1>3, <1>8, <1>9, <2>1, <2>2 DEF RiskTypeOK
  <1>11. EnginesSound'
    <2>1. x # Idle => EngineSound(x)' /\ ~x.alone
      BY <1>1, <1>2, <1>6, <1>8, <1>9 DEF EngineSound, Written
    <2> QED  BY <1>3, <1>6, <1>8, <1>9, <2>1, AlertsStay, MoveKeeps DEF Written
  <1>12. AlertsSound'
    BY <1>8, <1>9 DEF TightInv, AlertsSound
  <1>13. DecisionsTight' /\ AssetTight'
    BY <1>9 DEF DecisionsTight, AssetTight, Subject
  <1>14. LastSettled'
    <2>1. ~go => last' = Idle
      BY <1>1, <1>2, <1>6 DEF Written
    <2>2. go => Working' # {}
      BY <1>3, <1>6, MoveFacts DEF Written, MovesTo
    <2> QED  BY <2>1, <2>2 DEF LastSettled
  <1> QED  BY <1>10, <1>11, <1>12, <1>13, <1>14 DEF TightInv

\* What the decision on a request is computed from, but for the decision itself.
LEMMA SameDecisions ==
    ASSUME UNCHANGED <<asset, profile, alert, weight>>,
           \A k \in Asks : ask'[k].signals = ask[k].signals
    PROVE  RiskNow' = RiskNow /\ \A k \in Asks : Now(k)' = Now(k)
  <1>1. \A ways : Related(ways)' = Related(ways)
    BY AlertsStay
  <1> QED  BY <1>1 DEF RiskNow, Now

LEMMA EvaluateWriteKeeps ==
    ASSUME TightInv, NEW g \in Engines, EvaluateWrite(g)
    PROVE  TightInv'
  <1>1. PICK w \in Engine : w = engine[g]
    BY EngineAtWork DEF EvaluateWrite
  <1>2. /\ g \in Working /\ EngineSound(w) /\ w.kind = "evaluate" /\ w.stage = "write"
        /\ w.subject \in Asks /\ (w.alone => AloneSound(w))
    BY <1>1, EngineAtWork DEF EvaluateWrite
  <1>3. RiskTypeOK /\ EnginesSound
    BY DEF TightInv
  <1>4. PICK go \in BOOLEAN : go <=> ~(Rank[w.decision] < 2)
    OBVIOUS
  <1>5. IF go THEN ToStage(g, "find") /\ UNCHANGED last ELSE FinishAs(g, TRUE)
    BY <1>1, <1>4 DEF EvaluateWrite, Finish
  <1>6. PICK x \in Engine \union {Idle} : Written(g, x, go, "find", TRUE)
    BY <1>2, <1>3, <1>5, WriteMoves
  <1>7. PICK k \in Asks, decision \in DOMAIN Rank : k = w.subject /\ decision = w.decision
    BY <1>2 DEF EngineSound
  <1>8. /\ ask' = [ask EXCEPT ![k].decision = decision] /\ Scored(g, {})
        /\ UNCHANGED <<asset, profile, alert, weight, turns, moves>>
    BY <1>1, <1>7 DEF EvaluateWrite, bounds
  <1>9. /\ ask' \in [Asks -> AskRow] /\ ask'[k].decision = decision
        /\ \A j \in Asks : ask'[j].signals = ask[j].signals /\ (j # k => ask'[j] = ask[j])
    <2>1. \A j \in Asks : ask[j] \in AskRow
      BY <1>3 DEF RiskTypeOK
    <2>2. PICK row \in AskRow : row = [ask[k] EXCEPT !.decision = decision]
      <3>1. [ask[k] EXCEPT !.decision = decision] \in AskRow
        BY <2>1 DEF AskRow
      <3> QED  BY <3>1
    <2>3. row.signals = ask[k].signals /\ row.decision = decision
      BY <2>1, <2>2 DEF AskRow
    <2>4. ask' = [ask EXCEPT ![k] = row] /\ ask \in [Asks -> AskRow]
      BY <1>3, <1>8, <2>2 DEF RiskTypeOK
    <2> QED  BY <2>3, <2>4
  <1>10. RiskTypeOK'
    <2>1. engine' \in [Engines -> Engine \union {Idle}]
      BY <1>3, <1>6, MoveFacts DEF Written
    <2>2. last' \in Subject \union {Idle}
      BY <1>1, <1>2, <1>3, <1>6 DEF RiskTypeOK, Written, Subject
    <2>3. moved' \subseteq Subject
      BY <1>2, <1>3, <1>8, ScoredTyped
    <2> QED  BY <1>3, <1>8, <1>9, <2>1, <2>2, <2>3 DEF RiskTypeOK
  <1>11. RiskNow' = RiskNow /\ \A j \in Asks : Now(j)' = Now(j)
    BY <1>8, <1>9, SameDecisions
  <1>12. w.alone => decision = Now(k)
    BY <1>2, <1>7 DEF AloneSound
  <1>13. EnginesSound'
    <2>1. x # Idle => EngineSound(x)'
      <3>1. Rank[decision] \in 0..4
        BY RankFacts
      <3>2. go => Rank[decision] >= 2
        BY <1>4, <1>7, <3>1
      <3> QED  BY <1>1, <1>2, <1>6, <1>7, <1>8, <3>2 DEF EngineSound, Written
    <2>2. x # Idle /\ x.alone => engine[g].alone /\ AloneSound(x)'
      BY <1>1, <1>2, <1>6, <1>7, <1>9, <1>11, <1>12 DEF AloneSound, Written
    <2> QED  BY <1>3, <1>6, <1>8, <2>1, <2>2, AlertsStay, MoveKeeps DEF Written
  <1>14. AlertsSound'
    BY <1>8 DEF TightInv, AlertsSound
  <1>15. DecisionsTight'
    <2> SUFFICES ASSUME NEW j \in Asks, j \notin moved', ask'[j].decision # Idle
                 PROVE  Rank[ask'[j].decision] <= Rank[Now(j)]
      BY <1>11 DEF DecisionsTight
    <2>1. CASE j = k
      <3>1. w.alone
        BY <1>1, <1>7, <1>8, <2>1 DEF Scored
      <3> QED  BY <1>9, <1>12, <2>1, <3>1, RankFacts
    <2>2. CASE j # k
      <3>1. j \notin moved
        BY <1>1, <1>7, <1>8, <2>2 DEF Scored
      <3> QED  BY <1>9, <2>2, <3>1 DEF TightInv, DecisionsTight
    <2> QED  BY <2>1, <2>2
  <1>16. AssetTight'
    <2>1. "asset" \notin moved' => "asset" \notin moved
      BY <1>1, <1>7, <1>8, Typed DEF Scored
    <2> QED  BY <1>8, <1>11, <2>1 DEF TightInv, AssetTight
  <1>17. LastSettled'
    <2> SUFFICES ASSUME last' # Idle, Working' = {} PROVE ScoreSettled(last)'
      BY DEF LastSettled
    <2>1. ~go /\ last' = k /\ w.alone
      BY <1>1, <1>2, <1>3, <1>6, <1>7, MoveFacts DEF Written
    <2> QED  BY <1>9, <1>11, <1>12, <2>1, Typed DEF ScoreSettled
  <1> QED  BY <1>10, <1>13, <1>14, <1>15, <1>16, <1>17 DEF TightInv

-----------------------------------------------------------------------------
(* Engines raise events *)

LEMMA RaiseFacts ==
    ASSUME RiskTypeOK, NEW row \in Alert, Raise(row)
    PROVE  /\ \E e \in AlertId : alert[e] = Idle /\ alert' = [alert EXCEPT ![e] = row]
           /\ alert' \in Alerts /\ AlertsLast /\ AlertsGrow
  <1>1. PICK e \in AlertId : alert[e] = Idle /\ alert' = [alert EXCEPT ![e] = row]
    BY DEF Raise, FreeAlerts
  <1>2. /\ alert' \in Alerts /\ \A f \in AlertId : alert[f] # Idle => alert'[f] = alert[f]
    BY <1>1 DEF RiskTypeOK, Alerts
  <1> QED  BY <1>1, <1>2 DEF AlertsLast, AlertsGrow, Grown

LEMMA RaisedSound ==
    ASSUME RiskTypeOK, AlertsSound, NEW e \in AlertId, NEW row \in Alert,
           alert' = [alert EXCEPT ![e] = row], asset'.decoy = asset.decoy,
           row.of # Idle => /\ row.by = "asset"
                            /\ row.category = IF asset.decoy THEN "deception_triggered"
                                              ELSE "other"
    PROVE  AlertsSound'
  <1>1. alert'[e] = row /\ \A f \in AlertId \ {e} : alert'[f] = alert[f]
    BY DEF RiskTypeOK
  <1> QED  BY <1>1 DEF AlertsSound

\* More events, and nothing else, make no score fall.
LEMMA NowGrow ==
    ASSUME RiskTypeOK, RiskTypeOK', AlertsGrow, UNCHANGED <<asset, profile, ask, weight>>
    PROVE  RiskNow <= RiskNow' /\ \A k \in Asks : Rank[Now(k)] <= Rank[Now(k)']
  <1>1. asset \in Asset
    BY DEF RiskTypeOK
  <1>2. PICK score \in 0..100, level \in Level : score = asset.score /\ level = asset.level
    BY <1>1 DEF Asset
  <1>3. asset' = [asset EXCEPT !.score = score, !.level = level] /\ asset.score <= score
    <2>1. [asset EXCEPT !.score = score] = asset
      BY <1>1, <1>2 DEF Asset
    <2>2. [asset EXCEPT !.level = level] = asset
      BY <1>1, <1>2 DEF Asset
    <2>3. [asset EXCEPT !.score = score, !.level = level]
            = [[asset EXCEPT !.score = score] EXCEPT !.level = level]
      BY <1>1 DEF Asset
    <2>4. [asset EXCEPT !.score = score, !.level = level] = asset
      BY <2>1, <2>2, <2>3, Zenon
    <2>5. asset' = [asset EXCEPT !.score = score, !.level = level]
      BY <2>4, Zenon
    <2>6. asset.score <= score
      BY <1>1, <1>2, AssetTyped
    <2> QED  BY <2>5, <2>6
  <1> QED  BY <1>3, ScoresGrow

\* More events leave no score ahead of what it would be now.
LEMMA TightWithMore ==
    ASSUME TightInv, RiskTypeOK', AlertsGrow, UNCHANGED <<asset, profile, ask, weight, moved>>
    PROVE  DecisionsTight' /\ AssetTight'
  <1>1. RiskTypeOK /\ asset \in Asset
    BY DEF TightInv, RiskTypeOK
  <1>2. RiskNow <= RiskNow' /\ \A k \in Asks : Rank[Now(k)] <= Rank[Now(k)']
    BY <1>1, NowGrow
  <1>3. \A k \in Asks : Now(k) \in DOMAIN Rank /\ Now(k)' \in DOMAIN Rank
    BY <1>1, NowTyped, NowTypedNext
  <1>4. DecisionsTight'
    <2> SUFFICES ASSUME NEW k \in Asks, k \notin moved, ask[k].decision # Idle
                 PROVE  Rank[ask[k].decision] <= Rank[Now(k)']
      BY DEF DecisionsTight
    <2>1. ask[k].decision \in DOMAIN Rank /\ Rank[ask[k].decision] <= Rank[Now(k)]
      BY <1>1 DEF TightInv, DecisionsTight, RiskTypeOK, AskRow
    <2> QED  BY <1>2, <1>3, <2>1, RankFacts
  <1>5. AssetTight'
    <2>1. asset'.score = asset.score /\ asset.score \in 0..100 /\ RiskNow \in 0..100
      BY <1>1, AssetTyped, NowTyped
    <2>2. RiskNow' \in Int
      <3>1. Related({"asset", "target"})' \in Alerts
        BY DEF RiskTypeOK, Related, Alerts
      <3>2. asset' \in Asset /\ weight' \in Nat
        BY InputAssumption DEF RiskTypeOK
      <3>3. Grown(Related({"asset", "target"})', Related({"asset", "target"})')
        BY DEF Grown
      <3>4. AssetRisk(asset', Related({"asset", "target"})', weight') \in 0..100
        BY <3>1, <3>2, <3>3, AssetRiskGrows
      <3>5. RiskNow' = AssetRisk(asset', Related({"asset", "target"})', weight')
        BY Zenon DEF RiskNow
      <3> QED  BY <3>4, <3>5
    <2> QED  BY <1>2, <2>1, <2>2 DEF TightInv, AssetTight
  <1> QED  BY <1>4, <1>5

LEMMA AlarmRaisedKeeps ==
    ASSUME TightInv, NEW g \in Engines, AlarmRaised(g)
    PROVE  TightInv'
  <1>1. PICK w \in Engine : w = engine[g]
    BY EngineAtWork DEF AlarmRaised
  <1>2. /\ g \in Working /\ EngineSound(w) /\ w.kind \in {"recalculate", "update"}
        /\ w.stage = "event" /\ w.subject = "asset" /\ (w.alone => AloneSound(w))
    BY <1>1, EngineAtWork DEF AlarmRaised, EngineSound
  <1>3. RiskTypeOK /\ EnginesSound /\ AlertsSound
    BY DEF TightInv
  <1>4. PICK level \in Level : Raise(AssetAlert(level))
    BY LevelsTyped DEF AlarmRaised
  <1>5. AssetAlert(level) \in Alert /\ AssetAlert(level).of = Idle
    BY DEF AssetAlert, Alert, Severity, Category
  <1>6. UNCHANGED <<asset, profile, ask, weight, turns, moves, moved>>
    BY DEF AlarmRaised, bounds
  <1>7. MovesTo(g, Idle) /\ last' = IF w.alone THEN "asset" ELSE Idle
    BY <1>1, <1>2 DEF AlarmRaised, Finish, FinishAs, MovesTo
  <1>8. RiskTypeOK'
    <2>1. engine' \in [Engines -> Engine \union {Idle}]
      BY <1>3, <1>7, MoveFacts
    <2>2. alert' \in Alerts
      BY <1>3, <1>4, <1>5, RaiseFacts
    <2>3. last' \in Subject \union {Idle}
      BY <1>7 DEF Subject
    <2> QED  BY <1>3, <1>6, <2>1, <2>2, <2>3 DEF RiskTypeOK, Alerts
  <1>9. AlertsLast /\ AlertsGrow
    BY <1>3, <1>4, <1>5, RaiseFacts
  <1>10. EnginesSound'
    BY <1>3, <1>6, <1>7, <1>9, MoveKeeps
  <1>11. AlertsSound'
    BY <1>3, <1>4, <1>5, <1>6, RaiseFacts, RaisedSound
  <1>12. DecisionsTight' /\ AssetTight'
    BY <1>6, <1>8, <1>9, TightWithMore
  <1>13. LastSettled'
    <2> SUFFICES ASSUME last' # Idle PROVE ScoreSettled(last)'
      BY DEF LastSettled
    <2>1. w.alone /\ last' = "asset"
      BY <1>7
    <2>2. w.kind = "recalculate"
      BY <1>2, <2>1 DEF EngineSound
    <2>3. Alarming(asset.level)
      BY <1>2, <2>1, <2>2 DEF AloneSound
    <2> QED  BY <1>6, <2>1, <2>3, Typed DEF ScoreSettled
  <1> QED  BY <1>8, <1>10, <1>11, <1>12, <1>13 DEF TightInv

\* The event of a decision that does not isolate changes no decision.
LEMMA OwnEventCountsNot ==
    ASSUME RiskTypeOK, RiskTypeOK', UNCHANGED <<asset, profile, ask, weight>>,
           NEW e \in AlertId, NEW row \in Alert, alert' = [alert EXCEPT ![e] = row],
           row.severity # "critical", row.category \notin Grave,
           alert[e] # Idle => alert[e].severity # "critical" /\ alert[e].category \notin Grave,
           NEW k \in Asks
    PROVE  Now(k)' = Now(k)
  <1>1. alert'[e] = row /\ row # Idle /\ \A f \in AlertId \ {e} : alert'[f] = alert[f]
    BY Typed DEF RiskTypeOK
  <1> DEFINE A == Related({"asset", "identity"})
  <1>2. A \in Alerts /\ A' \in Alerts
    BY DEF RiskTypeOK, Related, Alerts
  <1>3. /\ \A f \in AlertId \ {e} : A'[f] = A[f]
        /\ A[e] # Idle => A[e] = alert[e]
        /\ A'[e] # Idle => A'[e] = row
    BY <1>1 DEF Related
  <1>4. /\ A[e] # Idle => A[e].severity # "critical" /\ A[e].category \notin Grave
        /\ A'[e] # Idle => A'[e].severity # "critical" /\ A'[e].category \notin Grave
    BY <1>3
  <1> HIDE DEF A
  <1>5. OpenIn(A) \intersect Severe(A) = OpenIn(A') \intersect Severe(A')
    <2>1. \A f \in AlertId : f \in OpenIn(A) \intersect Severe(A)
                               <=> f \in OpenIn(A') \intersect Severe(A')
      BY <1>3, <1>4 DEF OpenIn, Severe
    <2> QED  BY <2>1 DEF OpenIn, Severe
  <1>6. Kinds(A) \intersect Grave \subseteq Kinds(A')
    <2> SUFFICES ASSUME NEW c \in Kinds(A), c \in Grave PROVE c \in Kinds(A')
      OBVIOUS
    <2>1. PICK f \in AlertId : A[f] # Idle /\ c = A[f].category
      BY DEF Kinds
    <2>2. A'[f] = A[f]
      BY <1>3, <1>4, <2>1
    <2> QED  BY <2>1, <2>2 DEF Kinds
  <1>7. Kinds(A') \intersect Grave \subseteq Kinds(A)
    <2> SUFFICES ASSUME NEW c \in Kinds(A'), c \in Grave PROVE c \in Kinds(A)
      OBVIOUS
    <2>1. PICK f \in AlertId : A'[f] # Idle /\ c = A'[f].category
      BY DEF Kinds
    <2>2. A'[f] = A[f]
      BY <1>3, <1>4, <2>1
    <2> QED  BY <2>1, <2>2 DEF Kinds
  <1>8. Alike(A, A')
    BY <1>5, <1>6, <1>7 DEF Alike
  <1>9. asset \in Asset /\ profile \in Profile /\ weight \in Nat /\ ask[k].signals \in Signals
    BY InputAssumption DEF RiskTypeOK, AskRow
  <1>10. Verdict(ask[k].signals, asset, profile, A, weight)
           = Verdict(ask[k].signals, asset, profile, A', weight)
    BY <1>2, <1>8, <1>9, VerdictAlike
  <1>11. Now(k) = Verdict(ask[k].signals, asset, profile, A, weight)
    BY Zenon DEF Now, A
  <1>12. Now(k)' = Verdict(ask[k].signals, asset, profile, A', weight)
    BY Zenon DEF Now, A
  <1> QED  BY <1>10, <1>11, <1>12

LEMMA EvaluateEventRow ==
    ASSUME TightInv, NEW g \in Engines, Does(g, "evaluate", "event")
    PROVE  LET w == engine[g]
               row == [severity |-> SeverityOf(w.decision), of |-> w.subject, by |-> "asset",
                       category |-> IF w.saw.decoy THEN "deception_triggered" ELSE "other",
                       status |-> IF w.decision = "isolate" THEN "contained"
                                  ELSE "investigating"]
           IN /\ row \in Alert /\ row.of = w.subject /\ row.by = "asset"
              /\ row.category = IF asset.decoy THEN "deception_triggered" ELSE "other"
              /\ row.status # "resolved"
              /\ row.severity = "critical" <=> w.decision = "isolate"
              /\ w.decision \in DOMAIN Rank
  <1>1. PICK w \in Engine : w = engine[g]
    BY EngineAtWork
  <1>2. /\ w.decision \in DOMAIN Rank /\ Rank[w.decision] >= 2 /\ w.subject \in Asks
        /\ w.saw.decoy = asset.decoy
    <2>1. EngineSound(w) /\ w.kind = "evaluate" /\ w.stage = "event"
      BY <1>1, EngineAtWork
    <2> QED  BY <2>1 DEF EngineSound
  <1>3. w.decision \in {"isolate", "deny", "require_step_up_auth"}
    BY <1>2, RankFacts
  <1>4. PICK severity \in Severity : severity = SeverityOf(w.decision)
    BY <1>3 DEF SeverityOf, Severity, Level
  <1>5. severity = "critical" <=> w.decision = "isolate"
    BY <1>3, <1>4 DEF SeverityOf
  <1> QED  BY <1>1, <1>2, <1>4, <1>5 DEF Alert, Category

LEMMA EvaluateEventKeeps ==
    ASSUME TightInv, NEW g \in Engines, EvaluateEvent(g)
    PROVE  TightInv'
  <1>1. PICK w \in Engine : w = engine[g]
    BY EngineAtWork DEF EvaluateEvent
  <1>2. /\ g \in Working /\ EngineSound(w) /\ w.kind = "evaluate" /\ w.stage = "event"
        /\ w.subject \in Asks /\ (w.alone => AloneSound(w))
    BY <1>1, EngineAtWork DEF EvaluateEvent
  <1>3. RiskTypeOK /\ EnginesSound /\ AlertsSound
    BY DEF TightInv
  <1>4. PICK row \in Alert :
           /\ row = [severity |-> SeverityOf(w.decision), of |-> w.subject, by |-> "asset",
                     category |-> IF w.saw.decoy THEN "deception_triggered" ELSE "other",
                     status |-> IF w.decision = "isolate" THEN "contained"
                                ELSE "investigating"]
           /\ row.of = w.subject /\ row.by = "asset"
           /\ row.category = IF asset.decoy THEN "deception_triggered" ELSE "other"
           /\ row.status # "resolved"
           /\ row.severity = "critical" <=> w.decision = "isolate"
    BY <1>1, EvaluateEventRow DEF EvaluateEvent
  <1>5. PICK back \in BOOLEAN :
           back <=> /\ w.found # Idle /\ alert[w.found].of = w.subject
                    /\ alert[w.found].severity = "critical" /\ row.severity # "critical"
    OBVIOUS
  <1>6. /\ IF w.found = Idle THEN Raise(row) ELSE alert' = [alert EXCEPT ![w.found] = row]
        /\ moved' = IF back THEN Subject ELSE moved
        /\ MovesTo(g, Idle) /\ last' = IF w.alone /\ ~back THEN w.subject ELSE Idle
        /\ UNCHANGED <<asset, profile, ask, weight, turns, moves>>
    BY <1>1, <1>2, <1>4, <1>5 DEF EvaluateEvent, FinishAs, MovesTo, bounds
  <1>7. PICK e \in AlertId :
           /\ alert' = [alert EXCEPT ![e] = row]
           /\ alert[e] # Idle => e = w.found /\ alert[e].of = w.subject
    <2>1. CASE w.found = Idle
      BY <1>3, <1>6, <2>1, RaiseFacts
    <2>2. CASE w.found # Idle
      <3>1. w.found \in AlertId /\ alert[w.found].of = w.subject
        BY <1>2, <2>2 DEF Engine, EngineSound
      <3> QED  BY <1>6, <2>2, <3>1
    <2> QED  BY <2>1, <2>2
  <1>8. alert'[e] = row /\ \A f \in AlertId \ {e} : alert'[f] = alert[f]
    BY <1>3, <1>7 DEF RiskTypeOK
  <1>9. RiskTypeOK'
    <2>1. engine' \in [Engines -> Engine \union {Idle}]
      BY <1>3, <1>6, MoveFacts
    <2>2. alert' \in [AlertId -> Alert \union {Idle}]
      BY <1>3, <1>7 DEF RiskTypeOK
    <2>3. last' \in Subject \union {Idle} /\ moved' \subseteq Subject
      BY <1>2, <1>3, <1>6 DEF Subject, RiskTypeOK
    <2> QED  BY <1>3, <1>6, <2>1, <2>2, <2>3 DEF RiskTypeOK
  <1>10. AlertsLast
    BY <1>4, <1>7, <1>8, Typed DEF AlertsLast
  <1>11. EnginesSound'
    BY <1>3, <1>6, <1>10, MoveKeeps
  <1>12. AlertsSound'
    BY <1>3, <1>4, <1>6, <1>7, RaisedSound
  <1>13. CASE back
    <2>1. DecisionsTight' /\ AssetTight' /\ LastSettled'
      BY <1>6, <1>13 DEF DecisionsTight, AssetTight, LastSettled, Subject
    <2> QED  BY <1>9, <1>11, <1>12, <2>1 DEF TightInv
  <1>14. CASE ~back
    <2>1. alert[e] # Idle =>
             /\ alert[e].severity = "critical" => row.severity = "critical"
             /\ alert[e].by = "asset" /\ alert[e].category = row.category
      <3> SUFFICES ASSUME alert[e] # Idle
                   PROVE  /\ alert[e].severity = "critical" => row.severity = "critical"
                          /\ alert[e].by = "asset" /\ alert[e].category = row.category
        OBVIOUS
      <3>1. e = w.found /\ w.found # Idle /\ alert[e].of = w.subject /\ alert[e].of # Idle
        BY <1>2, <1>7, Typed
      <3>2. alert[e].by = "asset" /\ alert[e].category = row.category
        BY <1>3, <1>4, <3>1 DEF AlertsSound
      <3> QED  BY <1>5, <1>14, <3>1, <3>2
    <2>2. AlertsGrow
      <3>1. ASSUME NEW f \in AlertId, alert[f] # Idle
            PROVE  /\ alert'[f] # Idle /\ alert'[f].by = alert[f].by
                   /\ alert[f].status # "resolved" => alert'[f].status # "resolved"
                   /\ alert[f].severity = "critical" => alert'[f].severity = "critical"
                   /\ alert[f].category \in Grave => alert'[f].category = alert[f].category
        BY <1>4, <1>8, <2>1, <3>1, Typed
      <3> QED  BY <3>1 DEF AlertsGrow, Grown
    <2>3. DecisionsTight' /\ AssetTight'
      BY <1>6, <1>9, <1>14, <2>2, TightWithMore
    <2>4. ASSUME last' # Idle PROVE ScoreSettled(last)'
      <3>1. w.alone /\ last' = w.subject /\ last' # "asset"
        BY <1>2, <1>6, <2>4, Typed
      <3>2. PICK k \in Asks : k = w.subject
        BY <1>2
      <3>3. w.decision = Now(k) /\ ask[k].decision = w.decision
        BY <1>2, <3>1, <3>2 DEF AloneSound
      <3>4. Now(k)' = Now(k)
        <4>1. CASE w.decision = "isolate"
          <5>1. ask'[k].decision # Idle /\ Rank["isolate"] = 4 /\ ask' = ask
            BY <1>6, <3>3, <4>1, RankFacts, Typed
          <5>2. Now(k)' \in DOMAIN Rank
            BY <1>9, NowTypedNext
          <5>3. Rank[Now(k)] <= Rank[Now(k)']
            BY <1>3, <1>6, <1>9, <2>2, NowGrow
          <5> QED  BY <3>3, <4>1, <5>1, <5>2, <5>3, RankFacts
        <4>2. CASE w.decision # "isolate"
          <5>1. ~asset.decoy
            BY <3>3, <4>2, Zenon DEF Now, Verdict
          <5>2. row.severity # "critical" /\ row.category \notin Grave
            BY <1>4, <4>2, <5>1 DEF Grave
          <5>3. alert[e] # Idle =>
                   alert[e].severity # "critical" /\ alert[e].category \notin Grave
            BY <2>1, <5>2
          <5> QED  BY <1>3, <1>6, <1>7, <1>9, <5>2, <5>3, OwnEventCountsNot
        <4> QED  BY <4>1, <4>2
      <3> QED  BY <1>6, <3>1, <3>2, <3>3, <3>4 DEF ScoreSettled
    <2>5. LastSettled'
      BY <2>4 DEF LastSettled
    <2> QED  BY <1>9, <1>11, <1>12, <2>3, <2>5 DEF TightInv
  <1> QED  BY <1>13, <1>14

-----------------------------------------------------------------------------
(* Others, and requests that stop *)

LEMMA ChangeKeeps ==
    ASSUME TightInv, Change, profile' \in Profile, alert' \in Alerts, weight' \in Weights,
           AlertsLast, AlertsSound'
    PROVE  TightInv'
  <1>1. RiskTypeOK /\ EnginesSound
    BY DEF TightInv
  <1>2. PICK E \in [Engines -> Engine \union {Idle}] : E = Disturbed(engine)
    BY <1>1, DisturbedFacts
  <1>3. /\ engine' = E /\ moved' = Subject /\ last' = Idle
        /\ UNCHANGED <<asset, ask, turns>> /\ moves' \in 0..MaxMoves
    BY <1>1, <1>2, Typed DEF Change, RiskTypeOK
  <1>4. RiskTypeOK'
    BY <1>1, <1>3 DEF RiskTypeOK, Alerts
  <1>5. EnginesSound'
    BY <1>1, <1>2, <1>3, DisturbKeeps
  <1>6. DecisionsTight' /\ AssetTight' /\ LastSettled'
    BY <1>3 DEF DecisionsTight, AssetTight, LastSettled, Subject
  <1> QED  BY <1>4, <1>5, <1>6 DEF TightInv

LEMMA OthersKeep ==
    ASSUME TightInv,
           \/ \E s \in {"active", "suspicious", "isolated"} : SetStanding(s)
           \/ RequireMfa
           \/ \E e \in AlertId, s \in {"investigating", "resolved"} : SetAlertStatus(e, s)
           \/ \E s \in {"medium", "critical"}, c \in OtherKinds : OtherAlert(s, c)
           \/ \E w \in Weights : SetWeight(w)
    PROVE  TightInv'
  <1>1. /\ RiskTypeOK /\ AlertsSound /\ profile \in Profile /\ alert \in Alerts
        /\ weight \in Weights
    BY DEF TightInv, RiskTypeOK, Alerts
  <1>2. ASSUME Change, alert' = alert, profile' \in Profile, weight' \in Weights
        PROVE  TightInv'
    <2>1. AlertsSound'
      BY <1>1, <1>2 DEF AlertsSound, Change
    <2> QED  BY <1>1, <1>2, <2>1, AlertsStay, ChangeKeeps
  <1>3. ASSUME NEW s \in {"active", "suspicious", "isolated"}, SetStanding(s)
        PROVE  TightInv'
    <2>1. [profile EXCEPT !.status = s] \in Profile
      BY <1>1 DEF Profile
    <2> QED  BY <1>1, <1>2, <1>3, <2>1 DEF SetStanding
  <1>4. CASE RequireMfa
    <2>1. [profile EXCEPT !.mfa = TRUE] \in Profile
      BY <1>1 DEF Profile
    <2> QED  BY <1>1, <1>2, <1>4, <2>1 DEF RequireMfa
  <1>5. ASSUME NEW e \in AlertId, NEW s \in {"investigating", "resolved"}, SetAlertStatus(e, s)
        PROVE  TightInv'
    <2>1. alert[e] \in Alert
      BY <1>1, <1>5 DEF SetAlertStatus, Alerts
    <2>2. PICK row \in Alert : row = [alert[e] EXCEPT !.status = s]
      <3>1. [alert[e] EXCEPT !.status = s] \in Alert
        BY <2>1 DEF Alert
      <3> QED  BY <3>1
    <2>3. /\ row.of = alert[e].of /\ row.by = alert[e].by
          /\ row.category = alert[e].category
      BY <2>1, <2>2 DEF Alert
    <2>4. alert' = [alert EXCEPT ![e] = row] /\ Change /\ UNCHANGED <<profile, weight>>
          /\ alert[e] # Idle
      BY <1>5, <2>2 DEF SetAlertStatus
    <2>5. alert' \in Alerts /\ AlertsLast
      BY <1>1, <2>3, <2>4, Typed DEF Alerts, AlertsLast
    <2>6. AlertsSound'
      <3>1. asset'.decoy = asset.decoy
        BY <2>4 DEF Change
      <3>2. row.of # Idle =>
               row.by = "asset" /\ row.category = IF asset.decoy THEN "deception_triggered"
                                                  ELSE "other"
        BY <1>1, <2>3, <2>4 DEF AlertsSound
      <3> QED  BY <1>1, <2>4, <3>1, <3>2, RaisedSound
    <2> QED  BY <1>1, <2>4, <2>5, <2>6, ChangeKeeps
  <1>6. ASSUME NEW s \in {"medium", "critical"}, NEW c \in OtherKinds, OtherAlert(s, c)
        PROVE  TightInv'
    <2>1. PICK row \in Alert :
             row = [severity |-> s, category |-> c, of |-> Idle, status |-> "open",
                    by |-> IF c = "other" THEN "target" ELSE "identity"]
      <3>1. c \in Category /\ s \in Severity
        BY InputAssumption DEF Severity, Level
      <3>2. PICK by \in {"asset", "identity", "target"} :
               by = IF c = "other" THEN "target" ELSE "identity"
        OBVIOUS
      <3>3. [severity |-> s, category |-> c, of |-> Idle, status |-> "open", by |-> by]
              \in Alert
        BY <3>1 DEF Alert
      <3> QED  BY <3>2, <3>3
    <2>2. Raise(row) /\ Change /\ UNCHANGED <<profile, weight>>
      BY <1>6, <2>1 DEF OtherAlert
    <2>3. alert' \in Alerts /\ AlertsLast
      BY <1>1, <2>2, RaiseFacts
    <2>4. AlertsSound'
      <3>1. asset'.decoy = asset.decoy /\ row.of = Idle
        BY <2>1, <2>2 DEF Change
      <3> QED  BY <1>1, <2>2, <3>1, RaiseFacts, RaisedSound
    <2> QED  BY <1>1, <2>2, <2>3, <2>4, ChangeKeeps
  <1>7. ASSUME NEW w \in Weights, SetWeight(w)
        PROVE  TightInv'
    BY <1>1, <1>2, <1>7 DEF SetWeight
  <1> QED  BY <1>3, <1>4, <1>5, <1>6, <1>7

LEMMA HaltKeeps ==
    ASSUME TightInv, NEW g \in Engines, Halt(g)
    PROVE  TightInv'
  <1>1. RiskTypeOK /\ EnginesSound
    BY DEF TightInv
  <1>2. /\ MovesTo(g, Idle) /\ last' = Idle /\ moves' \in 0..MaxMoves
        /\ UNCHANGED <<asset, profile, ask, alert, weight, turns, moved>>
    BY <1>1, Typed DEF Halt, MovesTo, RiskTypeOK
  <1>3. EnginesSound'
    BY <1>1, <1>2, SameRows, MoveKeeps
  <1>4. RiskTypeOK'
    BY <1>1, <1>2, MoveFacts DEF RiskTypeOK
  <1> QED  BY <1>2, <1>3, <1>4, RowsKeep

-----------------------------------------------------------------------------
(* Theorems *)

LEMMA RegisteredTyped ==
    ASSUME NEW c \in Classes, NEW x \in Exposures, NEW l \in Locations, NEW d \in BOOLEAN
    PROVE  Registered(c, x, l, d) \in Asset /\ Registered(c, x, l, d).level \in Level
  <1>1. PICK encrypted \in BOOLEAN : encrypted <=> x # "public"
    OBVIOUS
  <1>2. PICK kms \in BOOLEAN : kms <=> c \in {"critical", "sensitive"}
    OBVIOUS
  <1>3. encrypted = (x # "public") /\ kms = (c \in {"critical", "sensitive"})
    BY <1>2, <1>1, Zenon
  <1>4. PICK a \in Asset :
           a = [class |-> c, exposure |-> x, location |-> l, encrypted |-> encrypted,
                kms |-> kms, scoped |-> kms, decoy |-> d, score |-> 0, level |-> "low"]
    <2>1. [class |-> c, exposure |-> x, location |-> l, encrypted |-> encrypted,
           kms |-> kms, scoped |-> kms, decoy |-> d, score |-> 0, level |-> "low"] \in Asset
      BY SMTT(30) DEF Asset, Level
    <2> QED  BY <2>1
  <1>5. InventoryRisk(a) \in 0..100 /\ InventoryLevel(InventoryRisk(a)) \in Level
    BY InventoryTyped, LevelsTyped
  <1>6. PICK b \in Asset : b = [a EXCEPT !.score = InventoryRisk(a)]
    <2>1. [a EXCEPT !.score = InventoryRisk(a)] \in Asset
      BY <1>5 DEF Asset
    <2> QED  BY <2>1
  <1>7. [a EXCEPT !.score = InventoryRisk(a), !.level = InventoryLevel(InventoryRisk(a))]
          = [b EXCEPT !.level = InventoryLevel(InventoryRisk(a))]
    BY <1>6 DEF Asset
  <1>8. [b EXCEPT !.level = InventoryLevel(InventoryRisk(a))] \in Asset
    BY <1>5 DEF Asset
  <1>9. a = [class |-> c, exposure |-> x, location |-> l,
             encrypted |-> x # "public", kms |-> c \in {"critical", "sensitive"},
             scoped |-> c \in {"critical", "sensitive"}, decoy |-> d,
             score |-> 0, level |-> "low"]
    BY <1>3, <1>4, Zenon
  <1>10. Registered(c, x, l, d)
          = [a EXCEPT !.score = InventoryRisk(a), !.level = InventoryLevel(InventoryRisk(a))]
    BY <1>9, Zenon DEF Registered
  <1> QED  BY <1>7, <1>8, <1>10 DEF Asset

LEMMA TightInit == RiskInit => TightInv
  <1> SUFFICES ASSUME RiskInit PROVE TightInv
    OBVIOUS
  <1>1. asset \in Asset /\ asset.level \in Level
    BY RegisteredTyped DEF RiskInit
  <1>2. AssetAlert(asset.level) \in Alert /\ AssetAlert(asset.level).of = Idle
    BY <1>1 DEF AssetAlert, Alert, Severity, Category
  <1>3. alert \in [AlertId -> Alert \union {Idle}]
        /\ \A e \in AlertId : alert[e] # Idle => alert[e].of = Idle
    BY <1>2 DEF RiskInit
  <1>4. ask \in [Asks -> AskRow] /\ \A k \in Asks : ask[k].decision = Idle
    BY DEF RiskInit, AskRow
  <1>5. Working = {} /\ engine \in [Engines -> Engine \union {Idle}]
    BY DEF RiskInit, Working
  <1>6. profile \in Profile /\ weight \in Weights /\ turns \in 0..MaxTurns
        /\ moves \in 0..MaxMoves /\ moved = Subject /\ last = Idle
    BY Typed DEF RiskInit
  <1>7. RiskTypeOK
    BY <1>1, <1>3, <1>4, <1>5, <1>6 DEF RiskTypeOK
  <1>8. EnginesSound /\ AlertsSound
    BY <1>3, <1>5 DEF EnginesSound, AlertsSound
  <1>9. DecisionsTight /\ AssetTight /\ LastSettled
    BY <1>6 DEF DecisionsTight, AssetTight, LastSettled, Subject
  <1> QED  BY <1>7, <1>8, <1>9 DEF TightInv

LEMMA TightStep == TightInv /\ [RiskNext]_riskVars => TightInv'
  <1>1. ASSUME TightInv, NEW g \in Engines, Recalculate(g) PROVE TightInv'
    BY <1>1, ScoringStarts DEF Recalculate, Subject
  <1>2. ASSUME TightInv, NEW g \in Engines, NEW k \in Asks, Evaluation(g, k) PROVE TightInv'
    BY <1>2, ScoringStarts DEF Evaluation, Subject
  <1>3. ASSUME TightInv, UNCHANGED riskVars PROVE TightInv'
    <2>1. RiskTypeOK' /\ EnginesSound'
      BY <1>3 DEF TightInv, riskVars, RiskTypeOK, EnginesSound, EngineSound, AloneSound,
                  Working, ScoreSettled, RiskNow, Now, Related
    <2>2. AlertsSound' /\ DecisionsTight' /\ AssetTight' /\ LastSettled'
      BY <1>3, SameRows DEF TightInv, riskVars, AlertsSound, DecisionsTight, AssetTight,
                            LastSettled, Working
    <2> QED  BY <2>1, <2>2 DEF TightInv
  <1>4. ASSUME TightInv, RiskNext PROVE TightInv'
    BY <1>1, <1>2, <1>4, RecalculateReadKeeps, RecalculateWriteKeeps, AlarmRaisedKeeps,
       EvaluateReadKeeps, EvaluateWriteKeeps, EvaluateFindKeeps, EvaluateEventKeeps,
       UpdateKeeps, UpdateWriteKeeps, HaltKeeps, OthersKeep DEF RiskNext
  <1> QED  BY <1>3, <1>4

\* What was scored alone and from what is still so is not ahead of what it would be scored
\* now; what an engine carries from one statement to the next is still so while nothing
\* disturbs it; a score is settled when it was the last one.
THEOREM TightInvariant == RiskSpec => []TightInv
  <1> QED  BY TightInit, TightStep, PTL DEF RiskSpec

\* One request at work that nothing has disturbed is the only one at work.
LEMMA OnlyOne ==
    ASSUME TightInv, NEW g \in Working, NEW q \in Working, engine[g].alone
    PROVE  q = g
  BY DEF TightInv, EnginesSound

LEMMA AssetWrites ==
    ASSUME TightInv, RiskNext, asset' # asset
    PROVE  \E g \in Engines :
              \/ /\ RecalculateWrite(g)
                 /\ engine[g].alone => asset'.score = RiskNow
              \/ UpdateWrite(g) /\ ~engine[g].alone
  <1>1. \E g \in Engines : RecalculateWrite(g) \/ UpdateWrite(g)
    BY DEF RiskNext, Recalculate, RecalculateRead, AlarmRaised, Evaluation, EvaluateRead,
           EvaluateWrite, EvaluateFind, EvaluateEvent, Update, Halt, SetStanding, RequireMfa,
           SetAlertStatus, OtherAlert, SetWeight, Change
  <1>2. ASSUME NEW g \in Engines, UpdateWrite(g) PROVE ~engine[g].alone
    BY <1>2, EngineAtWork DEF UpdateWrite, EngineSound
  <1>3. ASSUME NEW g \in Engines, RecalculateWrite(g), engine[g].alone
        PROVE  asset'.score = RiskNow
    <2>1. engine[g].score = RiskNow
      BY <1>3, EngineAtWork DEF RecalculateWrite, AloneSound
    <2>2. asset \in Asset
      BY DEF TightInv, RiskTypeOK
    <2> QED  BY <1>3, <2>1, <2>2 DEF RecalculateWrite, Asset
  <1> QED  BY <1>1, <1>2, <1>3

LEMMA AskWrites ==
    ASSUME TightInv, RiskNext, ask' # ask
    PROVE  \E g \in Engines :
              /\ EvaluateWrite(g) /\ g \in Working /\ engine[g].subject \in Asks
              /\ \A k \in Asks : k # engine[g].subject => ask'[k] = ask[k]
              /\ engine[g].alone => ask'[engine[g].subject].decision = Now(engine[g].subject)
              /\ ask' = [ask EXCEPT ![engine[g].subject].decision = engine[g].decision]
  <1>1. PICK g \in Engines : EvaluateWrite(g)
    BY DEF RiskNext, Recalculate, RecalculateRead, RecalculateWrite, AlarmRaised, Evaluation,
           EvaluateRead, EvaluateFind, EvaluateEvent, Update, UpdateWrite, Halt, SetStanding,
           RequireMfa, SetAlertStatus, OtherAlert, SetWeight, Change
  <1>2. PICK w \in Engine : w = engine[g]
    BY <1>1, EngineAtWork DEF EvaluateWrite
  <1>3. /\ g \in Working /\ w.subject \in Asks /\ w.kind = "evaluate" /\ w.stage = "write"
        /\ w.alone => AloneSound(w)
    BY <1>1, <1>2, EngineAtWork DEF EvaluateWrite
  <1>4. ask' = [ask EXCEPT ![w.subject].decision = w.decision]
    BY <1>1, <1>2 DEF EvaluateWrite
  <1>5. ask \in [Asks -> AskRow] /\ ask[w.subject] \in AskRow
    BY <1>3 DEF TightInv, RiskTypeOK
  <1>6. \A k \in Asks : k # w.subject => ask'[k] = ask[k]
    BY <1>4, <1>5
  <1>7. ask'[w.subject].decision = w.decision
    <2>1. ask'[w.subject] = [ask[w.subject] EXCEPT !.decision = w.decision]
      BY <1>3, <1>4, <1>5
    <2> QED  BY <1>5, <2>1 DEF AskRow
  <1>8. w.alone => w.decision = Now(w.subject)
    BY <1>3 DEF AloneSound
  <1> QED  BY <1>1, <1>2, <1>3, <1>4, <1>6, <1>7, <1>8

\* However recalculations and evaluations follow each other, the risk of the asset does not
\* fall and no decision becomes milder unless somebody else has changed something it is
\* computed from, or requests overlap.
THEOREM EnginesTighten == RiskSpec => EnginesOnlyTighten
  <1>1. ASSUME TightInv, [RiskNext]_riskVars, asset'.score < asset.score, "asset" \notin moved
        PROVE  \E g \in Working : engine[g].subject = "asset" /\ ~engine[g].alone
    <2>1. asset.score \in 0..100 /\ RiskNow \in 0..100 /\ asset.score <= RiskNow
      BY <1>1, AssetTyped, NowTyped DEF TightInv, RiskTypeOK, AssetTight
    <2>2. asset' # asset /\ RiskNext
      BY <1>1, <2>1 DEF riskVars
    <2>3. PICK g \in Engines : \/ /\ RecalculateWrite(g)
                                  /\ engine[g].alone => asset'.score = RiskNow
                               \/ UpdateWrite(g) /\ ~engine[g].alone
      BY <1>1, <2>2, AssetWrites
    <2>4. ~engine[g].alone
      BY <1>1, <2>1, <2>3
    <2>5. g \in Working /\ engine[g].subject = "asset"
      BY <1>1, <2>3, EngineAtWork DEF RecalculateWrite, UpdateWrite
    <2> QED  BY <2>4, <2>5
  <1>2. ASSUME TightInv, [RiskNext]_riskVars, NEW k \in Asks, ask[k].decision # Idle,
               Rank[ask'[k].decision] < Rank[ask[k].decision], k \notin moved
        PROVE  \E g \in Working : engine[g].subject = k /\ ~engine[g].alone
    <2>1. ask[k].decision \in DOMAIN Rank /\ Now(k) \in DOMAIN Rank
          /\ Rank[ask[k].decision] <= Rank[Now(k)]
      BY <1>2, NowTyped DEF TightInv, RiskTypeOK, AskRow, DecisionsTight
    <2>2. ask'[k] # ask[k] /\ ask' # ask /\ RiskNext
      BY <1>2, <2>1, RankFacts DEF riskVars
    <2>3. PICK g \in Engines :
             /\ EvaluateWrite(g) /\ g \in Working /\ engine[g].subject \in Asks
             /\ \A j \in Asks : j # engine[g].subject => ask'[j] = ask[j]
             /\ engine[g].alone => ask'[engine[g].subject].decision = Now(engine[g].subject)
      BY <1>2, <2>2, AskWrites
    <2>4. engine[g].subject = k
      BY <2>2, <2>3
    <2>5. ~engine[g].alone
      BY <1>2, <2>1, <2>3, <2>4, RankFacts
    <2> QED  BY <2>3, <2>4, <2>5
  <1>3. TightInv /\ [RiskNext]_riskVars =>
          [/\ asset'.score < asset.score =>
                \/ "asset" \in moved
                \/ \E g \in Working : engine[g].subject = "asset" /\ ~engine[g].alone
           /\ \A k \in Asks :
                ask[k].decision # Idle /\ Rank[ask'[k].decision] < Rank[ask[k].decision] =>
                   \/ k \in moved
                   \/ \E g \in Working : engine[g].subject = k /\ ~engine[g].alone]_riskVars
    BY <1>1, <1>2
  <1> QED  BY <1>3, TightInvariant, PTL DEF RiskSpec, EnginesOnlyTighten

\* An evaluation repeated with nothing in between decides the same, although it counts the
\* event it has raised itself, and a risk that raises no event stays as it is.
THEOREM RepeatsDecideAlike == RiskSpec => RepeatsAgree
  <1>1. ASSUME TightInv, [RiskNext]_riskVars, NEW g \in Working, engine[g].again
        PROVE  /\ engine[g] \in Engine /\ engine[g].alone
               /\ engine[g].stage \in {"events", "write"} => ScoreSettled(engine[g].subject)
    BY <1>1 DEF TightInv, RiskTypeOK, Working, EnginesSound, EngineSound, AloneSound
  <1>2. ASSUME TightInv, [RiskNext]_riskVars, NEW g \in Working, engine[g].again,
               engine[g].subject \in Asks
        PROVE  ask'[engine[g].subject] = ask[engine[g].subject]
    <2> SUFFICES ASSUME ask' # ask
                 PROVE  ask'[engine[g].subject] = ask[engine[g].subject]
      OBVIOUS
    <2>1. RiskNext
      BY <1>2 DEF riskVars
    <2>2. PICK q \in Engines :
             /\ EvaluateWrite(q) /\ q \in Working /\ engine[q].subject \in Asks
             /\ engine[q].alone => ask'[engine[q].subject].decision = Now(engine[q].subject)
             /\ ask' = [ask EXCEPT ![engine[q].subject].decision = engine[q].decision]
      BY <1>2, <2>1, AskWrites
    <2>3. q = g /\ engine[g].alone
      BY <1>1, <1>2, <2>2, OnlyOne
    <2>4. engine[g].stage = "write"
      BY <2>2, <2>3 DEF EvaluateWrite, Does
    <2>5. PICK k \in Asks : k = engine[g].subject
      BY <1>2
    <2>6. ask[k].decision = Now(k) /\ ask'[k].decision = Now(k)
      BY <1>1, <1>2, <2>2, <2>3, <2>4, <2>5 DEF ScoreSettled
    <2>7. ask[k] \in AskRow /\ ask \in [Asks -> AskRow]
      BY <1>2, <2>5 DEF TightInv, RiskTypeOK
    <2>8. ask'[k] = [ask[k] EXCEPT !.decision = engine[g].decision]
      BY <2>2, <2>3, <2>5, <2>7
    <2>9. engine[g].decision = ask[k].decision
      BY <2>6, <2>7, <2>8 DEF AskRow
    <2> QED  BY <2>5, <2>7, <2>8, <2>9 DEF AskRow
  <1>3. ASSUME TightInv, [RiskNext]_riskVars, NEW g \in Working, engine[g].again,
               engine[g].subject = "asset", ~Alarming(asset.level)
        PROVE  asset'.score = asset.score
    <2> SUFFICES ASSUME asset' # asset
                 PROVE  asset'.score = asset.score
      OBVIOUS
    <2>1. RiskNext
      BY <1>3 DEF riskVars
    <2>2. PICK q \in Engines : \/ /\ RecalculateWrite(q)
                                  /\ engine[q].alone => asset'.score = RiskNow
                               \/ UpdateWrite(q) /\ ~engine[q].alone
      BY <1>3, <2>1, AssetWrites
    <2>3. q \in Working
      BY <2>2 DEF RecalculateWrite, UpdateWrite, Does
    <2>4. q = g /\ engine[g].alone
      BY <1>1, <1>3, <2>3, OnlyOne
    <2>5. engine[g].stage = "write" /\ asset'.score = RiskNow
      BY <2>2, <2>4 DEF RecalculateWrite, Does
    <2>6. ScoreSettled("asset")
      BY <1>1, <1>3, <2>5
    <2> QED  BY <1>3, <2>5, <2>6 DEF ScoreSettled
  <1>4. TightInv /\ [RiskNext]_riskVars =>
          [\A g \in Working : engine[g].again =>
              /\ engine[g].subject \in Asks =>
                    ask'[engine[g].subject] = ask[engine[g].subject]
              /\ engine[g].subject = "asset" /\ ~Alarming(asset.level) =>
                    asset'.score = asset.score]_riskVars
    BY <1>2, <1>3
  <1> QED  BY <1>4, TightInvariant, PTL DEF RiskSpec, RepeatsAgree

-----------------------------------------------------------------------------
(* The response engines *)

\* What an isolation is for: there is nobody to isolate, or the identity is isolated, or
\* it was released since.
TookEffect(i) == i = None \/ status[i] = "isolated" \/ i \in freed

\* What a request at work rests on: the rows it has read are still there, the identity
\* they name is the one it has read, and an isolation has taken effect before it is
\* recorded.
PlaybookFits(w) ==
    /\ w.stage \in {"check", "event", "identity", "record"}
    /\ w.event \in EventId /\ w.action \in Action /\ w.sawEvent \in EventStatus
    /\ event[w.event] # None /\ event[w.event].identity = w.identity
    /\ w.stage = "identity" => w.identity # None /\ w.action # "mark_resolved"
    /\ w.stage = "record" /\ w.action = "isolate_identity" => TookEffect(w.identity)

DeceptionFits(w) ==
    /\ w.stage \in {"find", "identity", "asset", "event", "trigger"}
    /\ w.stage = "identity" => w.identity # None

EvaluateFits(w) ==
    /\ w.stage \in {"record", "find", "event"}
    /\ w.of \in AccessRequests /\ w.decision \in Decision
    /\ access[w.of] # None /\ access[w.of].identity = w.identity
    /\ w.stage \in {"find", "event"} => w.decision # "allow"
    /\ w.stage = "event" /\ w.event # None =>
          event[w.event] # None /\ event[w.event].of = w.of

WorkFits(w) ==
    /\ w.kind = "playbook" => PlaybookFits(w)
    /\ w.kind = "deception" => DeceptionFits(w)
    /\ w.kind = "trap" => w.stage \in {"asset", "event", "trigger"}
    /\ w.kind = "evaluate" => EvaluateFits(w)

\* The event of an access request names the identity that has asked.
EventFits(row) ==
    row.of # None => access[row.of] # None /\ row.identity = access[row.of].identity

EngineInv ==
    /\ ResponseTypeOK
    /\ \A h \in Busy : WorkFits(work[h])
    /\ \A e \in EventId : event[e] # None => EventFits(event[e])
    /\ \A e \in EventId : executed[e]["isolate_identity"] > 0 =>
          event[e] # None /\ TookEffect(event[e].identity)

Alone(kinds) == \A h, q \in Busy : work[h].kind \in kinds /\ work[q].kind \in kinds => h = q

\* Playbooks that have not overlapped: one that goes on is not recorded yet.
PlaybooksOnce ==
    "playbook" \notin crossed =>
       /\ Alone({"playbook"})
       /\ \A e \in EventId, a \in Action : executed[e][a] <= 1
       /\ \A h \in Busy : work[h].kind = "playbook" /\ work[h].stage # "check" =>
             executed[work[h].event][work[h].action] = 0

\* Accesses to the deception asset that are counted, and have no trigger row yet.
Counted == {h \in Busy : work[h].kind \in {"trap", "deception"}
                         /\ work[h].stage \in {"event", "trigger"}}

TriggersCounted ==
    "deception" \notin crossed =>
       /\ triggers + Cardinality(Counted) <= triggerCount
       /\ \A h, q \in Busy :
             work[h].kind = "deception" /\ work[q].kind \in {"deception", "trap"} => h = q
       /\ \A h \in Busy :
             work[h].kind = "deception" /\ work[h].stage \in {"find", "identity", "asset"} =>
                work[h].sawCount = triggerCount

\* A refused access request whose evaluation is over: its event shows the decision.
DecidedFor(r) ==
    /\ access[r] # None /\ access[r].decision \in {"deny", "isolate"} /\ r \notin undecided
    /\ \A h \in Busy : work[h].kind = "evaluate" => work[h].of # r

EvaluatedOnce ==
    "evaluate" \notin crossed =>
       /\ Alone({"evaluate"})
       /\ \A r \in AccessRequests :
             /\ \A e, f \in EventsOf(r) : e = f
             /\ DecidedFor(r) => \E e \in EventsOf(r) : event[e].verdict = access[r].decision
       /\ \A h \in Busy : work[h].kind = "evaluate" =>
             /\ work[h].stage \in {"find", "event"} =>
                   access[work[h].of].decision = work[h].decision
             /\ work[h].stage = "event" =>
                   (work[h].event = None <=> EventsOf(work[h].of) = {})

ResponseInv ==
    EngineInv /\ IsFiniteSet(Busy) /\ PlaybooksOnce /\ TriggersCounted /\ EvaluatedOnce
USE NoneAssumption, ResponseAssumption

WorkStage == {"check", "event", "identity", "record", "asset", "find", "trigger"}

\* How a request moves: to another stage, to its end, or from its start.
LEMMA Going ==
    ASSUME ResponseTypeOK, NEW h \in Busy, NEW stage \in WorkStage, GoTo(h, stage)
    PROVE  /\ work' \in [Handlers -> Work \union {None}] /\ Busy' = Busy
           /\ \A g \in Handlers \ {h} : work'[g] = work[g]
           /\ work'[h] \in Work /\ work'[h] # None
           /\ work'[h] = [work[h] EXCEPT !.stage = stage]
           /\ work'[h].stage = stage /\ work'[h].kind = work[h].kind
           /\ work'[h].event = work[h].event /\ work'[h].action = work[h].action
           /\ work'[h].identity = work[h].identity /\ work'[h].of = work[h].of
           /\ work'[h].sawCount = work[h].sawCount /\ work'[h].decision = work[h].decision
  <1>1. PICK w \in Work : w = work[h]
    BY DEF ResponseTypeOK, Busy
  <1>2. PICK v \in Work : v = [w EXCEPT !.stage = stage]
    <2>1. [w EXCEPT !.stage = stage] \in Work
      BY SMTT(30) DEF Work, WorkStage
    <2> QED BY <2>1
  <1>3. work' = [work EXCEPT ![h] = v] /\ work \in [Handlers -> Work \union {None}]
    BY <1>1, <1>2 DEF GoTo, ResponseTypeOK
  <1>4. h \in Handlers /\ v # None
    BY DEF Busy
  <1>5. /\ work' \in [Handlers -> Work \union {None}]
        /\ \A g \in Handlers \ {h} : work'[g] = work[g]
        /\ work'[h] = v
    BY <1>3, <1>4
  <1>6. Busy' = Busy
    BY <1>4, <1>5 DEF Busy
  <1>7. /\ v.stage = stage /\ v.kind = w.kind /\ v.event = w.event /\ v.action = w.action
        /\ v.identity = w.identity /\ v.of = w.of /\ v.sawCount = w.sawCount
        /\ v.decision = w.decision
    BY <1>2 DEF Work
  <1> QED BY <1>1, <1>2, <1>4, <1>5, <1>6, <1>7

LEMMA Leaving ==
    ASSUME ResponseTypeOK, NEW h \in Busy, Done(h)
    PROVE  /\ work' \in [Handlers -> Work \union {None}] /\ Busy' = Busy \ {h}
           /\ \A g \in Handlers \ {h} : work'[g] = work[g]
           /\ work'[h] = None
  BY DEF ResponseTypeOK, Busy, Done

LEMMA Starting ==
    ASSUME ResponseTypeOK, NEW h \in Handlers, NEW w \in Work, Begin(h, w)
    PROVE  /\ work' \in [Handlers -> Work \union {None}] /\ Busy' = Busy \union {h}
           /\ h \notin Busy /\ work'[h] = w /\ w # None
           /\ \A g \in Handlers \ {h} : work'[g] = work[g]
           /\ crossed \subseteq crossed'
           /\ responses' \in 0..MaxResponses /\ UNCHANGED <<stops, undecided>>
  BY DEF ResponseTypeOK, Busy, Begin

LEMMA NewWorkIsWork ==
    NewWork \in Work /\ NewWork = [kind |-> "trap", stage |-> "asset", event |-> None,
        action |-> None, identity |-> None, of |-> None, sawStatus |-> None,
        sawEvent |-> None, sawCount |-> 0, decision |-> None]
  BY DEF NewWork, Work

\* What no step takes back: an isolation that has taken effect, an access request and
\* who it is of, and what an event is about.
RowsKept ==
    /\ \A i : TookEffect(i) => TookEffect(i)'
    /\ \A r \in AccessRequests : access[r] # None =>
          access'[r] # None /\ access'[r].identity = access[r].identity
    /\ \A e \in EventId : event[e] # None =>
          /\ event'[e] # None /\ event'[e].identity = event[e].identity
          /\ event'[e].of = event[e].of

LEMMA FitsKept ==
    ASSUME NEW w \in Work, WorkFits(w), RowsKept PROVE WorkFits(w)'
  <1>1. PlaybookFits(w) => PlaybookFits(w)'
    BY DEF RowsKept, PlaybookFits
  <1>2. DeceptionFits(w) => DeceptionFits(w)'
    BY DEF DeceptionFits
  <1>3. EvaluateFits(w) => EvaluateFits(w)'
    <2>1. w.event \in EventId \union {None}
      BY DEF Work
    <2> QED BY <2>1 DEF RowsKept, EvaluateFits
  <1> QED BY <1>1, <1>2, <1>3 DEF WorkFits

LEMMA EngineKeeps ==
    ASSUME EngineInv, ResponseTypeOK', RowsKept,
           \A g \in Handlers :
              work'[g] = work[g] \/ work'[g] = None \/ WorkFits(work[g])',
           \A e \in EventId : event[e] = None /\ event'[e] # None => EventFits(event[e])',
           \A e \in EventId : executed'[e]["isolate_identity"] > 0 =>
              \/ executed[e]["isolate_identity"] > 0
              \/ event[e] # None /\ TookEffect(event[e].identity)
    PROVE  EngineInv'
  <1>1. ASSUME NEW g \in Busy' PROVE WorkFits(work[g])'
    <2>1. g \in Handlers /\ work'[g] # None
      BY <1>1 DEF Busy
    <2>2. CASE work'[g] = work[g]
      <3>1. PICK w \in Work : w = work[g]
        BY <2>1, <2>2 DEF EngineInv, ResponseTypeOK
      <3>2. WorkFits(w)
        BY <2>1, <2>2, <3>1 DEF EngineInv, Busy
      <3>3. WorkFits(w)'
        BY <3>2, FitsKept
      <3> QED BY <2>2, <3>1, <3>3 DEF WorkFits, PlaybookFits, DeceptionFits, EvaluateFits
    <2> QED BY <2>1, <2>2
  <1>2. ASSUME NEW e \in EventId, event'[e] # None PROVE EventFits(event[e])'
    <2>1. CASE event[e] = None
      BY <1>2, <2>1
    <2>2. CASE event[e] # None
      <3>1. EventFits(event[e]) /\ event[e] \in Event
        BY <2>2 DEF EngineInv, ResponseTypeOK
      <3>2. event[e].of \in AccessRequests \union {None}
        BY <3>1 DEF Event
      <3> QED BY <2>2, <3>1, <3>2 DEF RowsKept, EventFits
    <2> QED BY <2>1, <2>2
  <1>3. ASSUME NEW e \in EventId, executed'[e]["isolate_identity"] > 0
        PROVE  event'[e] # None /\ TookEffect(event[e].identity)'
    <2>1. event[e] # None /\ TookEffect(event[e].identity)
      BY <1>3 DEF EngineInv
    <2>2. PICK i : i = event[e].identity
      OBVIOUS
    <2>3. TookEffect(i)' /\ event'[e] # None /\ event'[e].identity = i
      BY <2>1, <2>2 DEF RowsKept
    <2> QED BY <2>3 DEF TookEffect
  <1> QED BY <1>1, <1>2, <1>3 DEF EngineInv

\* One action at a time.
LEMMA AnalystKeeps ==
    ASSUME EngineInv, NEW i \in Identities,
           \/ \E s \in IdentityStatus : UpdateIdentityStatus(i, s)
           \/ \E r \in AccessRequests : CreateAccessRequest(r, i)
    PROVE  EngineInv'
  <1>1. ASSUME NEW s \in IdentityStatus, UpdateIdentityStatus(i, s) PROVE EngineInv'
    <2>1. UNCHANGED <<access, event, executed, evidence, work, stops, pastOf>>
          /\ SetStatus(i, s) /\ responses' \in 0..MaxResponses
      BY <1>1 DEF UpdateIdentityStatus, EngineInv, ResponseTypeOK
    <2>2. ResponseTypeOK'
      BY <2>1 DEF EngineInv, ResponseTypeOK, SetStatus, evidence, pastOf
    <2>3. RowsKept
      BY <2>1 DEF RowsKept, SetStatus, TookEffect, EngineInv, ResponseTypeOK
    <2> QED BY <2>1, <2>2, <2>3, EngineKeeps
  <1>2. ASSUME NEW r \in AccessRequests, CreateAccessRequest(r, i) PROVE EngineInv'
    <2>1. UNCHANGED <<status, event, executed, evidence, work, budget, pastOf, freed>>
          /\ access[r] = None /\ access' = [access EXCEPT ![r] =
                                     [identity |-> i, decision |-> "pending"]]
      BY <1>2 DEF CreateAccessRequest
    <2>2. [identity |-> i, decision |-> "pending"] \in AccessRequest
      BY DEF AccessRequest
    <2>3. ResponseTypeOK'
      BY <2>1, <2>2 DEF EngineInv, ResponseTypeOK, evidence, pastOf, budget
    <2>4. RowsKept
      BY <2>1 DEF RowsKept, TookEffect, EngineInv, ResponseTypeOK
    <2> QED BY <2>1, <2>3, <2>4, EngineKeeps
  <1> QED BY <1>1, <1>2

\* An event is written: a new one, or one that is there and stays about the same thing.
LEMMA EventWritten ==
    ASSUME EngineInv, NEW e \in EventId, NEW row \in Event,
           event' = [event EXCEPT ![e] = row],
           event[e] # None => row.identity = event[e].identity /\ row.of = event[e].of,
           UNCHANGED <<status, freed, access>>
    PROVE  event' \in [EventId -> Event \union {None}] /\ RowsKept
  BY DEF EngineInv, ResponseTypeOK, RowsKept, TookEffect

LEMMA UpdateEventStatusKeeps ==
    ASSUME EngineInv, NEW e \in EventId, NEW s \in EventStatus, UpdateEventStatus(e, s)
    PROVE  EngineInv'
  <1>1. UNCHANGED <<status, access, executed, evidence, work, stops, pastOf, freed>>
        /\ event[e] # None /\ event' = [event EXCEPT ![e].status = s]
        /\ responses' \in 0..MaxResponses
    BY DEF UpdateEventStatus, EngineInv, ResponseTypeOK
  <1>2. event[e] \in Event
    BY <1>1 DEF EngineInv, ResponseTypeOK
  <1>3. PICK row \in Event : row = [event[e] EXCEPT !.status = s]
    BY <1>2 DEF Event
  <1>4. event' = [event EXCEPT ![e] = row]
        /\ row.identity = event[e].identity /\ row.of = event[e].of
    BY <1>1, <1>2, <1>3 DEF Event
  <1>5. event' \in [EventId -> Event \union {None}] /\ RowsKept
    BY <1>1, <1>4, EventWritten
  <1>6. ResponseTypeOK'
    BY <1>1, <1>5 DEF EngineInv, ResponseTypeOK, evidence, pastOf
  <1>7. \A f \in EventId : event[f] = None => event'[f] = None
    BY <1>1, <1>4 DEF EngineInv, ResponseTypeOK
  <1> QED BY <1>1, <1>5, <1>6, <1>7, EngineKeeps

\* Where a request only moves, or starts, or ends.
LEMMA OnlyWork ==
    ASSUME EngineInv, UNCHANGED <<status, access, event, executed, evidence, freed>>,
           work' \in [Handlers -> Work \union {None}],
           responses' \in 0..MaxResponses, stops' \in 0..MaxStops,
           crossed' \subseteq {"playbook", "deception", "evaluate"},
           undecided' \subseteq AccessRequests,
           NEW h \in Handlers, work'[h] = None \/ WorkFits(work[h])',
           \A g \in Handlers \ {h} : work'[g] = work[g]
    PROVE  EngineInv'
  <1>1. ResponseTypeOK'
    BY DEF EngineInv, ResponseTypeOK, evidence
  <1>2. RowsKept
    BY DEF RowsKept, TookEffect
  <1> QED BY <1>1, <1>2, EngineKeeps

\* A request that starts with work that fits.
LEMMA BeginKeeps ==
    ASSUME EngineInv, UNCHANGED <<status, access, event, executed, evidence, freed>>,
           NEW h \in Handlers, NEW w \in Work, Begin(h, w), WorkFits(w)
    PROVE  EngineInv'
  <1>1. /\ work' \in [Handlers -> Work \union {None}] /\ work'[h] = w
        /\ \A g \in Handlers \ {h} : work'[g] = work[g]
        /\ responses' \in 0..MaxResponses /\ UNCHANGED <<stops, undecided>>
    BY Starting DEF EngineInv
  <1>2. crossed' \subseteq {"playbook", "deception", "evaluate"}
    BY DEF Begin, EngineInv, ResponseTypeOK, Work
  <1>3. WorkFits(w)'
    BY FitsKept DEF RowsKept, TookEffect
  <1>4. WorkFits(work[h])'
    BY <1>1, <1>3 DEF WorkFits, PlaybookFits, DeceptionFits, EvaluateFits
  <1>5. stops' \in 0..MaxStops /\ undecided' \subseteq AccessRequests
    BY <1>1 DEF EngineInv, ResponseTypeOK
  <1> QED BY <1>1, <1>2, <1>4, <1>5, OnlyWork

LEMMA PlaybookStarts ==
    ASSUME EngineInv, NEW h \in Handlers, NEW e \in EventId, NEW a \in Action, Playbook(h, e, a)
    PROVE  \E w \in Work : /\ Begin(h, w) /\ WorkFits(w) /\ w.kind = "playbook"
                           /\ w.stage = "check" /\ w.event = e /\ w.action = a
  <1>1. event[e] \in Event /\ event[e] # None /\ status \in [Identities -> IdentityStatus]
    BY DEF Playbook, EngineInv, ResponseTypeOK
  <1>2. /\ event[e].identity \in Identities \union {None}
        /\ event[e].status \in EventStatus
    BY <1>1 DEF Event
  <1>3. PICK s \in IdentityStatus \union {None} :
            s = IF event[e].identity = None THEN None ELSE status[event[e].identity]
    BY <1>1, <1>2
  <1>4. PICK w : w = [NewWork EXCEPT !.kind = "playbook", !.stage = "check", !.event = e,
                    !.action = a, !.identity = event[e].identity, !.sawEvent = event[e].status,
                    !.sawStatus = s]
    OBVIOUS
  <1>5. w = [kind |-> "playbook", stage |-> "check", event |-> e, action |-> a,
             identity |-> event[e].identity, of |-> None, sawStatus |-> s,
             sawEvent |-> event[e].status, sawCount |-> 0, decision |-> None]
    BY <1>4, NewWorkIsWork
  <1>6. w \in Work
    BY <1>2, <1>5 DEF Work
  <1>7. WorkFits(w)
    BY <1>1, <1>2, <1>5 DEF WorkFits, PlaybookFits
  <1>8. Begin(h, w)
    BY <1>3, <1>4 DEF Playbook
  <1> QED BY <1>5, <1>6, <1>7, <1>8

LEMMA AccessStarts ==
    ASSUME EngineInv, NEW h \in Handlers, Deception(h) \/ Trap(h)
    PROVE  \E w \in Work : /\ Begin(h, w) /\ WorkFits(w) /\ w.stage \in {"find", "asset"}
                           /\ w.kind \in {"deception", "trap"}
                           /\ w.kind = "deception" => w.sawCount = triggerCount
  <1>1. CASE Deception(h)
    <2>1. PICK w : w = [NewWork EXCEPT !.kind = "deception", !.stage = "find",
                                !.sawCount = triggerCount]
      OBVIOUS
    <2>2. w = [kind |-> "deception", stage |-> "find", event |-> None, action |-> None,
             identity |-> None, of |-> None, sawStatus |-> None,
             sawEvent |-> None, sawCount |-> triggerCount, decision |-> None]
      BY <2>1, NewWorkIsWork
    <2>3. w \in Work
      BY <2>2 DEF Work, EngineInv, ResponseTypeOK
    <2>4. WorkFits(w)
      BY <2>2 DEF WorkFits, DeceptionFits
    <2> QED BY <1>1, <2>1, <2>2, <2>3, <2>4 DEF Deception
  <1>2. CASE Trap(h)
    <2>1. Begin(h, NewWork)
      BY <1>2 DEF Trap
    <2>2. WorkFits(NewWork)
      BY NewWorkIsWork DEF WorkFits
    <2> QED BY <1>2, <2>1, <2>2, NewWorkIsWork
  <1> QED BY <1>1, <1>2

LEMMA EvaluateStarts ==
    ASSUME EngineInv, NEW h \in Handlers, NEW r \in AccessRequests, NEW d \in Decision,
           Evaluate(h, r, d)
    PROVE  \E w \in Work : /\ Begin(h, w) /\ WorkFits(w) /\ w.kind = "evaluate"
                           /\ w.stage = "record" /\ w.of = r
  <1>1. access[r] \in AccessRequest /\ access[r] # None
        /\ status \in [Identities -> IdentityStatus]
    BY DEF Evaluate, EngineInv, ResponseTypeOK
  <1>2. access[r].identity \in Identities
    BY <1>1 DEF AccessRequest
  <1>3. PICK s \in IdentityStatus : s = status[access[r].identity]
    BY <1>1, <1>2
  <1>4. PICK w : w = [NewWork EXCEPT !.kind = "evaluate", !.stage = "record", !.of = r,
                    !.decision = d, !.identity = access[r].identity, !.sawStatus = s]
    OBVIOUS
  <1>5. w = [kind |-> "evaluate", stage |-> "record", event |-> None, action |-> None,
             identity |-> access[r].identity, of |-> r, sawStatus |-> s,
             sawEvent |-> None, sawCount |-> 0, decision |-> d]
    BY <1>4, NewWorkIsWork
  <1>6. w \in Work
    BY <1>2, <1>5 DEF Work
  <1>7. WorkFits(w)
    BY <1>1, <1>5 DEF WorkFits, EvaluateFits
  <1>8. Begin(h, w)
    BY <1>3, <1>4 DEF Evaluate
  <1> QED BY <1>5, <1>6, <1>7, <1>8

LEMMA StartsKeep ==
    ASSUME EngineInv, NEW h \in Handlers,
           \/ \E e \in EventId, a \in Action : Playbook(h, e, a)
           \/ Deception(h) \/ Trap(h)
           \/ \E r \in AccessRequests, d \in Decision : Evaluate(h, r, d)
    PROVE  EngineInv'
  <1>1. UNCHANGED <<status, access, event, executed, evidence, freed>>
    BY DEF Playbook, Deception, Trap, Evaluate
  <1>2. \E w \in Work : Begin(h, w) /\ WorkFits(w)
    BY PlaybookStarts, AccessStarts, EvaluateStarts
  <1> QED BY <1>1, <1>2, BeginKeeps

\* A request at work: its record, and that it fits.
LEMMA AtWorkFits ==
    ASSUME EngineInv, NEW h \in Busy
    PROVE  h \in Handlers /\ work[h] \in Work /\ WorkFits(work[h]) /\ ResponseTypeOK
  BY DEF EngineInv, ResponseTypeOK, Busy

\* A request that ends, and has written nothing about the others.
LEMMA EndKeeps ==
    ASSUME EngineInv, NEW h \in Busy, Done(h), UNCHANGED <<status, access, event, freed>>,
           ResponseTypeOK',
           \A e \in EventId : executed'[e]["isolate_identity"] > 0 =>
              \/ executed[e]["isolate_identity"] > 0
              \/ event[e] # None /\ TookEffect(event[e].identity)
    PROVE  EngineInv'
  <1>1. RowsKept
    BY DEF RowsKept, TookEffect
  <1>2. \A g \in Handlers : work'[g] = work[g] \/ work'[g] = None
    BY Leaving DEF EngineInv
  <1> QED BY <1>1, <1>2, EngineKeeps

LEMMA PlaybookCheckKeeps ==
    ASSUME EngineInv, NEW h \in Handlers, PlaybookCheck(h) PROVE EngineInv'
  <1>1. /\ UNCHANGED <<status, access, event, executed, evidence, budget, pastOf, freed>>
        /\ h \in Busy /\ work[h].kind = "playbook" /\ (Done(h) \/ GoTo(h, "event"))
    BY DEF PlaybookCheck, Doing
  <1>2. /\ responses' \in 0..MaxResponses /\ stops' \in 0..MaxStops
        /\ crossed' \subseteq {"playbook", "deception", "evaluate"}
        /\ undecided' \subseteq AccessRequests
    BY <1>1 DEF EngineInv, ResponseTypeOK, budget, pastOf
  <1>3. work[h] \in Work /\ WorkFits(work[h]) /\ ResponseTypeOK
    BY <1>1, AtWorkFits
  <1>4. CASE Done(h)
    BY <1>1, <1>2, <1>3, <1>4, Leaving, OnlyWork
  <1>5. CASE GoTo(h, "event")
    <2>1. /\ work' \in [Handlers -> Work \union {None}]
          /\ work'[h] = [work[h] EXCEPT !.stage = "event"]
          /\ \A g \in Handlers \ {h} : work'[g] = work[g]
      BY <1>1, <1>3, <1>5, Going DEF WorkStage
    <2>2. WorkFits(work[h])'
      BY <1>1, <1>3, <2>1 DEF WorkFits, PlaybookFits, Work, TookEffect
    <2> QED BY <1>1, <1>2, <2>1, <2>2, OnlyWork
  <1> QED BY <1>1, <1>4, <1>5

LEMMA PlaybookEventKeeps ==
    ASSUME EngineInv, NEW h \in Handlers, PlaybookEvent(h) PROVE EngineInv'
  <1>1. /\ UNCHANGED <<status, access, executed, evidence, budget, pastOf, freed>>
        /\ h \in Busy /\ work[h].kind = "playbook"
        /\ event' = [event EXCEPT ![work[h].event].status =
                                      StatusAfter(work[h].sawEvent, work[h].action)]
        /\ GoTo(h, IF work[h].identity = None \/ work[h].action = "mark_resolved"
                   THEN "record" ELSE "identity")
    BY DEF PlaybookEvent, Doing
  <1>2. PICK w \in Work : w = work[h] /\ PlaybookFits(w)
    BY <1>1, AtWorkFits DEF WorkFits
  <1>3. PICK e \in EventId : e = w.event
    BY <1>2 DEF PlaybookFits
  <1>4. event[e] \in Event /\ event[e] # None /\ event[e].identity = w.identity
    BY <1>2, <1>3 DEF PlaybookFits, EngineInv, ResponseTypeOK
  <1>5. StatusAfter(w.sawEvent, w.action) \in EventStatus
    BY <1>2 DEF PlaybookFits, StatusAfter, EventStatus, Action
  <1>6. PICK row \in Event : row = [event[e] EXCEPT !.status = StatusAfter(w.sawEvent, w.action)]
    BY <1>4, <1>5 DEF Event
  <1>7. event' = [event EXCEPT ![e] = row]
        /\ row.identity = event[e].identity /\ row.of = event[e].of
    BY <1>1, <1>2, <1>3, <1>4, <1>6 DEF Event
  <1>8. event' \in [EventId -> Event \union {None}] /\ RowsKept
    BY <1>1, <1>4, <1>7, EventWritten
  <1>9. PICK stage \in {"record", "identity"} :
            stage = IF w.identity = None \/ w.action = "mark_resolved"
                    THEN "record" ELSE "identity"
    OBVIOUS
  <1>10. /\ work' \in [Handlers -> Work \union {None}]
         /\ work'[h] = [w EXCEPT !.stage = stage]
         /\ \A g \in Handlers \ {h} : work'[g] = work[g]
    BY <1>1, <1>2, <1>9, Going DEF WorkStage, EngineInv
  <1>11. ResponseTypeOK'
    BY <1>1, <1>8, <1>10 DEF EngineInv, ResponseTypeOK, evidence, budget, pastOf
  <1>12. PICK v \in Work : v = [w EXCEPT !.stage = stage]
    <2>1. [w EXCEPT !.stage = stage] \in Work
      BY SMTT(30) DEF Work
    <2> QED BY <2>1
  <1>13. /\ v.kind = w.kind /\ v.stage = stage /\ v.event = w.event /\ v.action = w.action
         /\ v.identity = w.identity /\ v.sawEvent = w.sawEvent
    BY <1>12 DEF Work
  <1>14. PlaybookFits(v)
    BY <1>2, <1>9, <1>13 DEF PlaybookFits, TookEffect
  <1>15. WorkFits(v)'
    BY <1>1, <1>2, <1>8, <1>13, <1>14, FitsKept DEF WorkFits
  <1>16. WorkFits(work[h])'
    BY <1>10, <1>12, <1>15 DEF WorkFits, PlaybookFits, DeceptionFits, EvaluateFits
  <1>17. \A f \in EventId : event[f] = None => event'[f] = None
    BY <1>4, <1>7 DEF EngineInv, ResponseTypeOK
  <1> QED BY <1>1, <1>8, <1>10, <1>11, <1>16, <1>17, EngineKeeps

LEMMA StatusSet ==
    ASSUME ResponseTypeOK, NEW i \in Identities, NEW s \in IdentityStatus, SetStatus(i, s)
    PROVE  /\ status' \in [Identities -> IdentityStatus] /\ freed' \subseteq Identities
           /\ \A j : TookEffect(j) => TookEffect(j)'
           /\ s = "isolated" => TookEffect(i)'
  BY DEF ResponseTypeOK, SetStatus, TookEffect

LEMMA PlaybookIdentityKeeps ==
    ASSUME EngineInv, NEW h \in Handlers, PlaybookIdentity(h) PROVE EngineInv'
  <1>1. /\ UNCHANGED <<access, event, executed, evidence, budget, pastOf>>
        /\ h \in Busy /\ work[h].kind = "playbook" /\ work[h].stage = "identity"
        /\ SetStatus(work[h].identity, IF work[h].action = "isolate_identity" THEN "isolated"
                                       ELSE StillIsolated(work[h].sawStatus))
        /\ GoTo(h, "record")
    BY DEF PlaybookIdentity, Doing
  <1>2. PICK w \in Work : w = work[h] /\ PlaybookFits(w)
    BY <1>1, AtWorkFits DEF WorkFits
  <1>3. PICK i \in Identities : i = w.identity
    BY <1>1, <1>2 DEF PlaybookFits, Work
  <1>4. PICK s \in IdentityStatus : s = IF w.action = "isolate_identity" THEN "isolated"
                                        ELSE StillIsolated(w.sawStatus)
    BY DEF StillIsolated, IdentityStatus
  <1>5. /\ status' \in [Identities -> IdentityStatus] /\ freed' \subseteq Identities
        /\ \A j : TookEffect(j) => TookEffect(j)'
        /\ s = "isolated" => TookEffect(i)'
    BY <1>1, <1>2, <1>3, <1>4, StatusSet DEF EngineInv
  <1>6. /\ work' \in [Handlers -> Work \union {None}]
        /\ work'[h] = [w EXCEPT !.stage = "record"]
        /\ \A g \in Handlers \ {h} : work'[g] = work[g]
    BY <1>1, <1>2, Going DEF WorkStage, EngineInv
  <1>7. ResponseTypeOK'
    BY <1>1, <1>5, <1>6 DEF EngineInv, ResponseTypeOK, evidence, budget, pastOf
  <1>8. RowsKept
    BY <1>1, <1>5 DEF RowsKept
  <1>9. WorkFits(work[h])'
    BY <1>1, <1>2, <1>3, <1>4, <1>5, <1>6 DEF WorkFits, PlaybookFits, Work, TookEffect
  <1> QED BY <1>1, <1>6, <1>7, <1>8, <1>9, EngineKeeps

LEMMA PlaybookRecordKeeps ==
    ASSUME EngineInv, NEW h \in Handlers, PlaybookRecord(h) PROVE EngineInv'
  <1>1. /\ UNCHANGED <<status, access, event, evidence, budget, pastOf, freed>>
        /\ h \in Busy /\ work[h].kind = "playbook" /\ work[h].stage = "record" /\ Done(h)
        /\ executed' = [executed EXCEPT ![work[h].event][work[h].action] = @ + 1]
    BY DEF PlaybookRecord, Doing
  <1>2. PICK w \in Work : w = work[h] /\ PlaybookFits(w)
    BY <1>1, AtWorkFits DEF WorkFits
  <1>3. PICK e \in EventId, a \in Action : e = w.event /\ a = w.action
    BY <1>2 DEF PlaybookFits
  <1>4. /\ executed' = [executed EXCEPT ![e][a] = @ + 1]
        /\ executed \in [EventId -> [Action -> Nat]]
    BY <1>1, <1>2, <1>3 DEF EngineInv, ResponseTypeOK
  <1>5. executed' \in [EventId -> [Action -> Nat]]
    BY <1>4
  <1>6. ResponseTypeOK'
    BY <1>1, <1>5, Leaving DEF EngineInv, ResponseTypeOK, evidence, budget, pastOf
  <1>7. a = "isolate_identity" => event[e] # None /\ TookEffect(event[e].identity)
    BY <1>1, <1>2, <1>3 DEF PlaybookFits
  <1>8. \A f \in EventId : executed'[f]["isolate_identity"] > 0 =>
              executed[f]["isolate_identity"] > 0 \/ (f = e /\ a = "isolate_identity")
    BY <1>4 DEF Action
  <1> QED BY <1>1, <1>6, <1>7, <1>8, EndKeeps

LEMMA DeceptionFindKeeps ==
    ASSUME EngineInv, NEW h \in Handlers, DeceptionFind(h)
    PROVE  /\ EngineInv'
           /\ work'[h] \in Work /\ work'[h].stage = "identity"
           /\ work'[h].sawCount = work[h].sawCount
  <1>1. /\ UNCHANGED <<status, access, event, executed, evidence, budget, pastOf, freed>>
        /\ h \in Busy /\ work[h].kind = "deception" /\ work[h].stage = "find"
    BY DEF DeceptionFind, Doing
  <1>2. PICK i \in Identities :
            work' = [work EXCEPT ![h].stage = "identity", ![h].identity = i,
                                 ![h].sawStatus = status[i]]
    BY DEF DeceptionFind
  <1>3. PICK w \in Work : w = work[h]
    BY <1>1, AtWorkFits
  <1>4. PICK s \in IdentityStatus : s = status[i]
    BY DEF EngineInv, ResponseTypeOK
  <1>5. PICK v \in Work : v = [w EXCEPT !.stage = "identity", !.identity = i, !.sawStatus = s]
    <2>1. PICK w1 \in Work : w1 = [w EXCEPT !.stage = "identity"]
      <3>1. [w EXCEPT !.stage = "identity"] \in Work
        BY SMTT(30) DEF Work
      <3> QED BY <3>1
    <2>2. PICK w2 \in Work : w2 = [w1 EXCEPT !.identity = i]
      <3>1. [w1 EXCEPT !.identity = i] \in Work
        BY SMTT(30) DEF Work
      <3> QED BY <3>1
    <2>3. [w2 EXCEPT !.sawStatus = s] \in Work
      BY SMTT(30) DEF Work
    <2>4. [w2 EXCEPT !.sawStatus = s] =
              [w EXCEPT !.stage = "identity", !.identity = i, !.sawStatus = s]
      BY <2>1, <2>2
    <2> QED BY <2>3, <2>4
  <1>6. /\ v.kind = "deception" /\ v.stage = "identity" /\ v.identity = i
        /\ v.sawCount = w.sawCount
    BY <1>1, <1>3, <1>5 DEF Work
  <1>7. work' = [work EXCEPT ![h] = v]
    BY <1>2, <1>3, <1>4, <1>5
  <1>8. /\ work' \in [Handlers -> Work \union {None}] /\ work'[h] = v
        /\ \A g \in Handlers \ {h} : work'[g] = work[g]
    BY <1>7 DEF EngineInv, ResponseTypeOK
  <1>9. WorkFits(work[h])'
    BY <1>6, <1>8 DEF WorkFits, DeceptionFits
  <1>10. /\ responses' \in 0..MaxResponses /\ stops' \in 0..MaxStops
         /\ crossed' \subseteq {"playbook", "deception", "evaluate"}
         /\ undecided' \subseteq AccessRequests
    BY <1>1 DEF EngineInv, ResponseTypeOK, budget, pastOf
  <1> QED BY <1>1, <1>3, <1>6, <1>8, <1>9, <1>10, OnlyWork

LEMMA DeceptionIdentityKeeps ==
    ASSUME EngineInv, NEW h \in Handlers, DeceptionIdentity(h) PROVE EngineInv'
  <1>1. /\ UNCHANGED <<access, event, executed, evidence, budget, pastOf>>
        /\ h \in Busy /\ work[h].kind = "deception" /\ work[h].stage = "identity"
        /\ SetStatus(work[h].identity, StillIsolated(work[h].sawStatus))
        /\ GoTo(h, "asset")
    BY DEF DeceptionIdentity, Doing
  <1>2. PICK w \in Work : w = work[h] /\ DeceptionFits(w)
    BY <1>1, AtWorkFits DEF WorkFits
  <1>3. PICK i \in Identities : i = w.identity
    BY <1>1, <1>2 DEF DeceptionFits, Work
  <1>4. PICK s \in IdentityStatus : s = StillIsolated(w.sawStatus)
    BY DEF StillIsolated, IdentityStatus
  <1>5. /\ status' \in [Identities -> IdentityStatus] /\ freed' \subseteq Identities
        /\ \A j : TookEffect(j) => TookEffect(j)'
    BY <1>1, <1>2, <1>3, <1>4, StatusSet DEF EngineInv
  <1>6. /\ work' \in [Handlers -> Work \union {None}]
        /\ work'[h] = [w EXCEPT !.stage = "asset"]
        /\ \A g \in Handlers \ {h} : work'[g] = work[g]
    BY <1>1, <1>2, Going DEF WorkStage, EngineInv
  <1>7. ResponseTypeOK'
    BY <1>1, <1>5, <1>6 DEF EngineInv, ResponseTypeOK, evidence, budget, pastOf
  <1>8. RowsKept
    BY <1>1, <1>5 DEF RowsKept
  <1>9. WorkFits(work[h])'
    BY <1>1, <1>2, <1>6 DEF WorkFits, DeceptionFits, Work
  <1> QED BY <1>1, <1>6, <1>7, <1>8, <1>9, EngineKeeps

LEMMA AssetKeeps ==
    ASSUME EngineInv, NEW h \in Handlers, DeceptionAsset(h) \/ TrapAsset(h) PROVE EngineInv'
  <1>1. /\ UNCHANGED <<status, access, event, executed, triggers, budget, pastOf, freed>>
        /\ h \in Busy /\ work[h].kind \in {"deception", "trap"} /\ GoTo(h, "event")
        /\ triggerCount' = work[h].sawCount + 1 \/ triggerCount' = triggerCount + 1
    BY DEF DeceptionAsset, TrapAsset, Doing
  <1>2. work[h] \in Work /\ WorkFits(work[h])
    BY <1>1, AtWorkFits
  <1>3. triggerCount' \in Nat
    BY <1>1, <1>2 DEF Work, EngineInv, ResponseTypeOK
  <1>4. /\ work' \in [Handlers -> Work \union {None}]
        /\ work'[h] = [work[h] EXCEPT !.stage = "event"]
        /\ \A g \in Handlers \ {h} : work'[g] = work[g]
    BY <1>1, Going DEF WorkStage, EngineInv
  <1>5. ResponseTypeOK'
    BY <1>1, <1>3, <1>4 DEF EngineInv, ResponseTypeOK, budget, pastOf
  <1>6. RowsKept
    BY <1>1 DEF RowsKept, TookEffect
  <1>7. WorkFits(work[h])'
    BY <1>1, <1>2, <1>4 DEF WorkFits, DeceptionFits, Work
  <1> QED BY <1>1, <1>4, <1>5, <1>6, <1>7, EngineKeeps

LEMMA TriggerEventKeeps ==
    ASSUME EngineInv, NEW h \in Handlers, TriggerEvent(h) PROVE EngineInv'
  <1>1. /\ UNCHANGED <<status, access, executed, evidence, budget, pastOf, freed>>
        /\ h \in Busy /\ work[h].kind \in {"deception", "trap"} /\ GoTo(h, "trigger")
        /\ CreateEvent([status |-> "open", identity |-> work[h].identity, of |-> None,
                        verdict |-> None])
    BY DEF TriggerEvent, Doing
  <1>2. work[h] \in Work /\ WorkFits(work[h])
    BY <1>1, AtWorkFits
  <1>3. PICK row \in Event : row = [status |-> "open", identity |-> work[h].identity,
                                    of |-> None, verdict |-> None]
    BY <1>2 DEF Work, Event, EventStatus
  <1>4. PICK e \in EventId : event[e] = None /\ event' = [event EXCEPT ![e] = row]
    BY <1>1, <1>3 DEF CreateEvent, FreeEvents
  <1>5. event' \in [EventId -> Event \union {None}] /\ RowsKept
    BY <1>1, <1>4, EventWritten
  <1>6. /\ work' \in [Handlers -> Work \union {None}]
        /\ work'[h] = [work[h] EXCEPT !.stage = "trigger"]
        /\ \A g \in Handlers \ {h} : work'[g] = work[g]
    BY <1>1, Going DEF WorkStage, EngineInv
  <1>7. ResponseTypeOK'
    BY <1>1, <1>5, <1>6 DEF EngineInv, ResponseTypeOK, evidence, budget, pastOf
  <1>8. WorkFits(work[h])'
    BY <1>1, <1>2, <1>6 DEF WorkFits, DeceptionFits, Work
  <1>9. \A f \in EventId : event[f] = None /\ event'[f] # None => EventFits(event[f])'
    BY <1>3, <1>4 DEF EventFits, EngineInv, ResponseTypeOK
  <1> QED BY <1>1, <1>5, <1>6, <1>7, <1>8, <1>9, EngineKeeps

LEMMA TriggerRowKeeps ==
    ASSUME EngineInv, NEW h \in Handlers, TriggerRow(h) PROVE EngineInv'
  <1>1. /\ UNCHANGED <<status, access, event, executed, triggerCount, budget, pastOf, freed>>
        /\ h \in Busy /\ Done(h) /\ triggers' = triggers + 1
    BY DEF TriggerRow, Doing
  <1>2. ResponseTypeOK'
    BY <1>1, Leaving DEF EngineInv, ResponseTypeOK, budget, pastOf
  <1> QED BY <1>1, <1>2, EndKeeps

LEMMA DecidesKeeps ==
    ASSUME EngineInv, NEW h \in Handlers, Decides(h) PROVE EngineInv'
  <1>1. /\ UNCHANGED <<status, event, executed, evidence, budget, crossed, freed>>
        /\ h \in Busy /\ work[h].kind = "evaluate" /\ work[h].stage = "record"
        /\ access' = [access EXCEPT ![work[h].of].decision = work[h].decision]
    BY DEF Decides, Doing
  <1>2. PICK w \in Work : w = work[h] /\ EvaluateFits(w)
    BY <1>1, AtWorkFits DEF WorkFits
  <1>3. PICK r \in AccessRequests : r = w.of
    BY <1>2 DEF EvaluateFits
  <1>4. access[r] \in AccessRequest /\ access[r] # None /\ w.decision \in Decision
    BY <1>2, <1>3 DEF EvaluateFits, EngineInv, ResponseTypeOK
  <1>5. PICK row \in AccessRequest : row = [access[r] EXCEPT !.decision = w.decision]
    BY <1>4 DEF AccessRequest
  <1>6. row.identity = access[r].identity /\ access' = [access EXCEPT ![r] = row]
    BY <1>1, <1>2, <1>3, <1>4, <1>5 DEF AccessRequest
  <1>7. /\ access' \in [AccessRequests -> AccessRequest \union {None}]
        /\ access'[r] = row /\ \A q \in AccessRequests \ {r} : access'[q] = access[q]
    BY <1>6 DEF EngineInv, ResponseTypeOK
  <1>8. RowsKept
    BY <1>1, <1>6, <1>7 DEF RowsKept, TookEffect
  <1>9. undecided' \subseteq AccessRequests
    BY <1>2, <1>3 DEF Decides, EngineInv, ResponseTypeOK
  <1>10. CASE w.decision = "allow"
    <2>1. Done(h)
      BY <1>2, <1>10 DEF Decides
    <2>2. /\ work' \in [Handlers -> Work \union {None}] /\ work'[h] = None
          /\ \A g \in Handlers \ {h} : work'[g] = work[g]
      BY <1>1, <2>1, Leaving DEF EngineInv
    <2>3. ResponseTypeOK'
      BY <1>1, <1>7, <1>9, <2>2 DEF EngineInv, ResponseTypeOK, evidence, budget
    <2> QED BY <1>1, <1>8, <2>2, <2>3, EngineKeeps
  <1>11. CASE w.decision # "allow"
    <2>1. GoTo(h, "find")
      BY <1>2, <1>11 DEF Decides
    <2>2. /\ work' \in [Handlers -> Work \union {None}]
          /\ work'[h] = [w EXCEPT !.stage = "find"]
          /\ \A g \in Handlers \ {h} : work'[g] = work[g]
      BY <1>1, <1>2, <2>1, Going DEF WorkStage, EngineInv
    <2>3. ResponseTypeOK'
      BY <1>1, <1>7, <1>9, <2>2 DEF EngineInv, ResponseTypeOK, evidence, budget
    <2>4. WorkFits(work[h])'
      BY <1>1, <1>2, <1>3, <1>4, <1>6, <1>7, <1>11, <2>2 DEF WorkFits, EvaluateFits, Work
    <2> QED BY <1>1, <1>8, <2>2, <2>3, <2>4, EngineKeeps
  <1> QED BY <1>10, <1>11

\* The latest of some events is one of them.
LEMMA LatestEvent ==
    ASSUME NEW found \in SUBSET EventId, found # {}
    PROVE  (CHOOSE e \in found : \A f \in found : f <= e) \in found
  <1> DEFINE before == {MaxEvents - e : e \in found}
             less   == {pair \in Nat \X Nat : pair[1] < pair[2]}
  <1>1. before \subseteq Nat /\ before # {}
    <2>1. \A e \in found : e \in Nat /\ e <= MaxEvents
      BY DEF EventId
    <2>2. \A e \in found : MaxEvents - e \in Nat
      BY <2>1
    <2> QED BY <2>2
  <1>2. \E x \in before : \A y \in before : <<y, x>> \notin less
    <2>1. IsWellFoundedOn(less, Nat)
      BY NatLessThanWellFounded DEF OpToRel
    <2> HIDE DEF before, less
    <2> QED BY <1>1, <2>1, WFMin
  <1>3. PICK x \in before : \A y \in before : <<y, x>> \notin less
    BY <1>2
  <1>4. PICK e \in found : x = MaxEvents - e
    OBVIOUS
  <1>5. ASSUME NEW f \in found PROVE f <= e
    <2>1. MaxEvents - f \in before /\ MaxEvents - f \in Nat /\ MaxEvents - e \in Nat
          /\ e \in Nat /\ f \in Nat
      BY DEF EventId
    <2>2. ~(MaxEvents - f < MaxEvents - e)
      BY <1>3, <1>4, <2>1
    <2> QED BY <2>1, <2>2
  <1> QED BY <1>5

LEMMA FindEventKeeps ==
    ASSUME EngineInv, NEW h \in Handlers, FindEvent(h)
    PROVE  /\ EngineInv'
           /\ work'[h] \in Work /\ work'[h].kind = "evaluate" /\ work'[h].stage = "event"
           /\ work'[h].of = work[h].of /\ work'[h].decision = work[h].decision
           /\ work'[h].event = None <=> EventsOf(work[h].of) = {}
           /\ \A g \in Handlers \ {h} : work'[g] = work[g]
  <1>1. /\ UNCHANGED <<status, access, event, executed, evidence, budget, pastOf, freed>>
        /\ h \in Busy /\ work[h].kind = "evaluate" /\ work[h].stage = "find"
    BY DEF FindEvent, Doing
  <1>2. PICK w \in Work : w = work[h] /\ EvaluateFits(w)
    BY <1>1, AtWorkFits DEF WorkFits
  <1>3. EventsOf(w.of) \in SUBSET EventId
    BY DEF EventsOf
  <1>4. PICK e : e = IF EventsOf(w.of) = {} THEN None
                     ELSE CHOOSE f \in EventsOf(w.of) : \A g \in EventsOf(w.of) : g <= f
    OBVIOUS
  <1>5. /\ EventsOf(w.of) = {} => e = None
        /\ EventsOf(w.of) # {} => e \in EventsOf(w.of)
    BY <1>3, <1>4, LatestEvent
  <1>6. e \in EventId \union {None} /\ (e = None <=> EventsOf(w.of) = {})
        /\ (e # None => event[e] # None /\ event[e].of = w.of)
    BY <1>5 DEF EventsOf
  <1>7. PICK v \in Work : v = [w EXCEPT !.stage = "event", !.event = e]
    <2>1. PICK w1 \in Work : w1 = [w EXCEPT !.stage = "event"]
      <3>1. [w EXCEPT !.stage = "event"] \in Work
        BY SMTT(30) DEF Work
      <3> QED BY <3>1
    <2>2. [w1 EXCEPT !.event = e] \in Work
      BY <1>6, SMTT(30) DEF Work
    <2>3. [w1 EXCEPT !.event = e] = [w EXCEPT !.stage = "event", !.event = e]
      BY <2>1
    <2> QED BY <2>2, <2>3
  <1>8. /\ v.kind = w.kind /\ v.stage = "event" /\ v.identity = w.identity /\ v.event = e
        /\ v.of = w.of /\ v.decision = w.decision
    BY <1>7 DEF Work
  <1>9. work' = [work EXCEPT ![h] = v]
    <2>1. work' = [work EXCEPT ![h].stage = "event",
                      ![h].event = IF EventsOf(w.of) = {} THEN None
                                   ELSE CHOOSE f \in EventsOf(w.of) :
                                            \A g \in EventsOf(w.of) : g <= f]
      BY <1>2 DEF FindEvent
    <2>2. work' = [work EXCEPT ![h].stage = "event", ![h].event = e]
      BY <1>4, <2>1
    <2> QED BY <1>2, <1>7, <2>2
  <1>10. /\ work' \in [Handlers -> Work \union {None}] /\ work'[h] = v
         /\ \A g \in Handlers \ {h} : work'[g] = work[g]
    BY <1>9 DEF EngineInv, ResponseTypeOK
  <1>11. WorkFits(work[h])'
    BY <1>1, <1>2, <1>6, <1>8, <1>10 DEF WorkFits, EvaluateFits
  <1>12. /\ responses' \in 0..MaxResponses /\ stops' \in 0..MaxStops
         /\ crossed' \subseteq {"playbook", "deception", "evaluate"}
         /\ undecided' \subseteq AccessRequests
    BY <1>1 DEF EngineInv, ResponseTypeOK, budget, pastOf
  <1>13. EngineInv'
    BY <1>1, <1>10, <1>11, <1>12, OnlyWork
  <1> QED BY <1>1, <1>2, <1>6, <1>8, <1>10, <1>13

\* What DecisionEvent writes: over the event of the access request, or as a new one.
LEMMA DecisionWritten ==
    ASSUME EngineInv, NEW h \in Handlers, DecisionEvent(h)
    PROVE  \E e \in EventId, row \in Event :
              /\ event' = [event EXCEPT ![e] = row]
              /\ row.of = work[h].of /\ row.verdict = work[h].decision
              /\ row.identity = work[h].identity
              /\ work[h].event = None => event[e] = None
              /\ work[h].event # None =>
                    e = work[h].event /\ event[e] # None
                    /\ row.identity = event[e].identity /\ row.of = event[e].of
  <1>1. h \in Busy /\ work[h].kind = "evaluate" /\ work[h].stage = "event"
    BY DEF DecisionEvent, Doing
  <1>2. PICK w \in Work : w = work[h] /\ EvaluateFits(w)
    BY <1>1, AtWorkFits DEF WorkFits
  <1>3. PICK row :
            row = [status |-> IF w.decision = "isolate" THEN "contained" ELSE "investigating",
                   identity |-> w.identity, of |-> w.of, verdict |-> w.decision]
    OBVIOUS
  <1>4. row \in Event /\ row.of = w.of /\ row.verdict = w.decision /\ row.identity = w.identity
    BY <1>2, <1>3 DEF EvaluateFits, Work, Event, EventStatus
  <1>5. IF w.event = None THEN CreateEvent(row) ELSE event' = [event EXCEPT ![w.event] = row]
    BY <1>2, <1>3 DEF DecisionEvent
  <1>6. CASE w.event = None
    <2>1. PICK e \in EventId : event[e] = None /\ event' = [event EXCEPT ![e] = row]
      BY <1>5, <1>6 DEF CreateEvent, FreeEvents
    <2> QED BY <1>2, <1>4, <1>6, <2>1
  <1>7. CASE w.event # None
    <2>1. PICK e \in EventId : e = w.event
      BY <1>7 DEF Work
    <2>2. event' = [event EXCEPT ![e] = row]
      BY <1>5, <1>7, <2>1
    <2>3. event[e] # None /\ event[e].of = w.of
      BY <1>1, <1>2, <1>7, <2>1 DEF EvaluateFits
    <2>4. event[e].identity = access[w.of].identity
      BY <1>2, <2>3 DEF EngineInv, EventFits, EvaluateFits
    <2>5. row.identity = event[e].identity
      BY <1>2, <1>4, <2>4 DEF EvaluateFits
    <2> QED BY <1>2, <1>4, <1>7, <2>1, <2>2, <2>3, <2>5
  <1> QED BY <1>6, <1>7

LEMMA DecisionEventKeeps ==
    ASSUME EngineInv, NEW h \in Handlers, DecisionEvent(h) PROVE EngineInv'
  <1>1. /\ UNCHANGED <<status, access, executed, evidence, budget, crossed, freed>>
        /\ h \in Busy /\ work[h].kind = "evaluate" /\ Done(h)
        /\ undecided' = undecided \ {work[h].of}
    BY DEF DecisionEvent, Doing
  <1>2. PICK w \in Work : w = work[h] /\ EvaluateFits(w)
    BY <1>1, AtWorkFits DEF WorkFits
  <1>3. PICK e \in EventId, row \in Event :
              /\ event' = [event EXCEPT ![e] = row]
              /\ row.of = w.of /\ row.identity = w.identity
              /\ event[e] # None =>
                    row.identity = event[e].identity /\ row.of = event[e].of
    BY <1>2, DecisionWritten
  <1>4. event' \in [EventId -> Event \union {None}] /\ RowsKept
    BY <1>1, <1>3, EventWritten
  <1>5. /\ work' \in [Handlers -> Work \union {None}] /\ work'[h] = None
        /\ \A g \in Handlers \ {h} : work'[g] = work[g]
    BY <1>1, Leaving DEF EngineInv
  <1>6. ResponseTypeOK'
    BY <1>1, <1>4, <1>5 DEF EngineInv, ResponseTypeOK, evidence, budget
  <1>7. \A f \in EventId : event[f] = None /\ event'[f] # None => EventFits(event[f])'
    <2>1. EventFits(event[e])'
      BY <1>1, <1>2, <1>3 DEF EventFits, EvaluateFits, EngineInv, ResponseTypeOK
    <2>2. \A f \in EventId \ {e} : event'[f] = event[f]
      BY <1>3 DEF EngineInv, ResponseTypeOK
    <2> QED BY <2>1, <2>2
  <1> QED BY <1>1, <1>4, <1>5, <1>6, <1>7, EngineKeeps

LEMMA StopKeeps ==
    ASSUME EngineInv, NEW h \in Handlers, Stop(h) PROVE EngineInv'
  <1>1. /\ UNCHANGED <<status, access, event, executed, evidence, responses, crossed, freed>>
        /\ h \in Busy /\ Done(h) /\ stops' \in 0..MaxStops
        /\ undecided' = IF work[h].kind = "evaluate" THEN undecided \union {work[h].of}
                        ELSE undecided
    BY DEF Stop, EngineInv, ResponseTypeOK
  <1>2. work[h] \in Work /\ WorkFits(work[h])
    BY <1>1, AtWorkFits
  <1>3. undecided' \subseteq AccessRequests
    BY <1>1, <1>2 DEF WorkFits, EvaluateFits, EngineInv, ResponseTypeOK
  <1>4. ResponseTypeOK'
    BY <1>1, <1>3, Leaving DEF EngineInv, ResponseTypeOK, evidence
  <1> QED BY <1>1, <1>4, EndKeeps

LEMMA EngineStep ==
    ASSUME EngineInv, [ResponseNext]_responseVars PROVE EngineInv'
  <1>1. CASE UNCHANGED responseVars
    <2>1. /\ UNCHANGED <<status, access, event, executed, triggerCount, triggers, work>>
          /\ UNCHANGED <<responses, stops, crossed, freed, undecided>>
      BY <1>1 DEF responseVars
    <2>2. ResponseTypeOK' /\ RowsKept
      BY <2>1 DEF EngineInv, ResponseTypeOK, RowsKept, TookEffect
    <2> QED BY <2>1, <2>2, EngineKeeps
  <1>2. ASSUME NEW h \in Handlers,
               \/ \E e \in EventId, a \in Action : Playbook(h, e, a)
               \/ PlaybookCheck(h) \/ PlaybookEvent(h) \/ PlaybookIdentity(h)
               \/ PlaybookRecord(h)
               \/ Deception(h) \/ DeceptionFind(h) \/ DeceptionIdentity(h)
               \/ DeceptionAsset(h)
               \/ Trap(h) \/ TrapAsset(h) \/ TriggerEvent(h) \/ TriggerRow(h)
               \/ \E r \in AccessRequests, d \in Decision : Evaluate(h, r, d)
               \/ Decides(h) \/ FindEvent(h) \/ DecisionEvent(h)
               \/ Stop(h)
        PROVE  EngineInv'
    BY <1>2, StartsKeep, PlaybookCheckKeeps, PlaybookEventKeeps, PlaybookIdentityKeeps,
       PlaybookRecordKeeps, DeceptionFindKeeps, DeceptionIdentityKeeps, AssetKeeps,
       TriggerEventKeeps, TriggerRowKeeps, DecidesKeeps, FindEventKeeps, DecisionEventKeeps,
       StopKeeps
  <1> QED BY <1>1, <1>2, AnalystKeeps, UpdateEventStatusKeeps DEF ResponseNext

LEMMA EngineStarts == ASSUME ResponseInit PROVE EngineInv
  <1>1. ResponseTypeOK
    BY DEF ResponseInit, ResponseTypeOK, IdentityStatus
  <1>2. Busy = {} /\ \A e \in EventId : event[e] = None
    BY DEF ResponseInit, Busy
  <1>3. \A e \in EventId : executed[e]["isolate_identity"] = 0
    BY DEF ResponseInit, Action
  <1> QED BY <1>1, <1>2, <1>3 DEF EngineInv

\* The inductive invariant of the response engines: a request at work is about rows that
\* are there, and has done what it is about to record.
THEOREM EngineInvariant == ResponseSpec => []EngineInv
  <1>1. ResponseInit => EngineInv
    BY EngineStarts
  <1>2. EngineInv /\ [ResponseNext]_responseVars => EngineInv'
    BY EngineStep
  <1> QED BY <1>1, <1>2, PTL DEF ResponseSpec

\* A playbook that is recorded as completed has taken effect, whatever stopped half-way
\* before (executePlaybookWithEngine).
THEOREM RecordedPlaybooksTookEffect == ResponseSpec => []PlaybookTookEffect
  <1>1. EngineInv => PlaybookTookEffect
    BY DEF EngineInv, PlaybookTookEffect, TookEffect
  <1> QED BY <1>1, EngineInvariant, PTL

-----------------------------------------------------------------------------
(* No engine takes an isolation back *)

LEMMA ReleasedBySetting ==
    ASSUME ResponseTypeOK, NEW i \in Identities, NEW j \in Identities,
           NEW s \in IdentityStatus, SetStatus(j, s),
           status[i] = "isolated", status'[i] # "isolated"
    PROVE  i = j /\ s # "isolated"
  BY DEF ResponseTypeOK, SetStatus

LEMMA ReleasesOnly ==
    ASSUME EngineInv, ResponseNext, NEW i \in Identities,
           status[i] = "isolated", status'[i] # "isolated"
    PROVE  Releases(i)
  <1>1. ASSUME NEW h \in Handlers, PlaybookIdentity(h) PROVE Releases(i)
    <2>1. /\ h \in Busy /\ work[h].kind = "playbook" /\ work[h].stage = "identity"
          /\ SetStatus(work[h].identity, IF work[h].action = "isolate_identity" THEN "isolated"
                                         ELSE StillIsolated(work[h].sawStatus))
          /\ GoTo(h, "record")
      BY <1>1 DEF PlaybookIdentity, Doing
    <2>2. work[h] \in Work /\ PlaybookFits(work[h])
      BY <2>1, AtWorkFits DEF WorkFits
    <2>3. PICK j \in Identities : j = work[h].identity
      BY <2>1, <2>2 DEF PlaybookFits, Work
    <2>4. PICK s \in IdentityStatus : s = IF work[h].action = "isolate_identity"
                                          THEN "isolated" ELSE StillIsolated(work[h].sawStatus)
      BY DEF StillIsolated, IdentityStatus
    <2>5. i = j /\ s # "isolated"
      BY <2>1, <2>3, <2>4, ReleasedBySetting DEF EngineInv
    <2>6. work[h].sawStatus # "isolated"
      BY <2>4, <2>5 DEF StillIsolated
    <2>7. work'[h].stage = "record"
      BY <2>1, Going DEF WorkStage, EngineInv
    <2> QED BY <2>1, <2>3, <2>5, <2>6, <2>7 DEF Releases
  <1>2. ASSUME NEW h \in Handlers, DeceptionIdentity(h) PROVE Releases(i)
    <2>1. /\ h \in Busy /\ work[h].kind = "deception" /\ work[h].stage = "identity"
          /\ SetStatus(work[h].identity, StillIsolated(work[h].sawStatus))
          /\ GoTo(h, "asset")
      BY <1>2 DEF DeceptionIdentity, Doing
    <2>2. work[h] \in Work /\ DeceptionFits(work[h])
      BY <2>1, AtWorkFits DEF WorkFits
    <2>3. PICK j \in Identities : j = work[h].identity
      BY <2>1, <2>2 DEF DeceptionFits, Work
    <2>4. PICK s \in IdentityStatus : s = StillIsolated(work[h].sawStatus)
      BY DEF StillIsolated, IdentityStatus
    <2>5. i = j /\ s # "isolated"
      BY <2>1, <2>3, <2>4, ReleasedBySetting DEF EngineInv
    <2>6. work[h].sawStatus # "isolated"
      BY <2>4, <2>5 DEF StillIsolated
    <2>7. work'[h].stage = "asset"
      BY <2>1, Going DEF WorkStage, EngineInv
    <2> QED BY <2>1, <2>3, <2>5, <2>6, <2>7 DEF Releases
  <1>3. ASSUME NEW j \in Identities, NEW s \in IdentityStatus, UpdateIdentityStatus(j, s)
        PROVE  Releases(i)
    <2>1. i = j
      BY <1>3, ReleasedBySetting DEF UpdateIdentityStatus, EngineInv
    <2> QED BY <1>3, <2>1 DEF Releases
  <1>4. status' # status
    OBVIOUS
  <1>5. \A j \in Identities, r \in AccessRequests : ~CreateAccessRequest(r, j)
    BY <1>4 DEF CreateAccessRequest
  <1>6. \A e \in EventId, s \in EventStatus : ~UpdateEventStatus(e, s)
    BY <1>4 DEF UpdateEventStatus
  <1>7. \A h \in Handlers :
           /\ \A e \in EventId, a \in Action : ~Playbook(h, e, a)
           /\ \A r \in AccessRequests, d \in Decision : ~Evaluate(h, r, d)
           /\ ~PlaybookCheck(h) /\ ~PlaybookEvent(h) /\ ~PlaybookRecord(h)
           /\ ~Deception(h) /\ ~DeceptionFind(h) /\ ~DeceptionAsset(h)
    BY <1>4 DEF Playbook, Evaluate, PlaybookCheck, PlaybookEvent, PlaybookRecord, Deception,
                DeceptionFind, DeceptionAsset
  <1>8. \A h \in Handlers :
           /\ ~Trap(h) /\ ~TrapAsset(h) /\ ~TriggerEvent(h) /\ ~TriggerRow(h)
           /\ ~Decides(h) /\ ~FindEvent(h) /\ ~DecisionEvent(h) /\ ~Stop(h)
    BY <1>4 DEF Trap, TrapAsset, TriggerEvent, TriggerRow, Decides, FindEvent, DecisionEvent,
                Stop
  <1> QED BY <1>1, <1>2, <1>3, <1>5, <1>6, <1>7, <1>8 DEF ResponseNext

\* An isolated identity is released only by the analyst, or by a request that had read it
\* before it was isolated (runSoarPlaybook, simulateDeceptionAccessWithEngine).
THEOREM IsolationIsKept == ResponseSpec => IsolationHolds
  <1>1. EngineInv /\ [ResponseNext]_responseVars =>
          [\A i \in Identities :
             status[i] = "isolated" /\ status'[i] # "isolated" => Releases(i)]_responseVars
    BY ReleasesOnly
  <1> QED BY <1>1, EngineInvariant, PTL DEF ResponseSpec, IsolationHolds

-----------------------------------------------------------------------------
(* One record of each thing that is done *)

\* What a step does to the requests at work, of some kinds.
Fewer(kinds) == \A g \in Handlers :
    work'[g] # None /\ work'[g].kind \in kinds => work'[g] = work[g]

Untouched(kinds) == Fewer(kinds) /\ \A g \in Handlers :
    work[g] # None /\ work[g].kind \in kinds => work'[g] = work[g]

\* A step of a request that is at work.
AtWorkStep(h) ==
    \/ PlaybookCheck(h) \/ PlaybookEvent(h) \/ PlaybookIdentity(h) \/ PlaybookRecord(h)
    \/ DeceptionFind(h) \/ DeceptionIdentity(h) \/ DeceptionAsset(h)
    \/ TrapAsset(h) \/ TriggerEvent(h) \/ TriggerRow(h)
    \/ Decides(h) \/ FindEvent(h) \/ DecisionEvent(h) \/ Stop(h)

Starts(h) ==
    \/ \E e \in EventId, a \in Action : Playbook(h, e, a)
    \/ Deception(h) \/ Trap(h)
    \/ \E r \in AccessRequests, d \in Decision : Evaluate(h, r, d)

LEMMA StepKinds ==
    ResponseNext =>
      \/ UNCHANGED <<work, crossed, executed, evidence, undecided>>
      \/ \E h \in Handlers : Starts(h) \/ AtWorkStep(h)
  BY DEF ResponseNext, Starts, AtWorkStep, UpdateIdentityStatus, CreateAccessRequest,
         UpdateEventStatus, pastOf, evidence

\* A request at work keeps its kind, and the others are left alone.
LEMMA OneMoves ==
    ASSUME EngineInv, NEW h \in Handlers, AtWorkStep(h)
    PROVE  /\ h \in Busy /\ crossed' = crossed
           /\ \A g \in Handlers \ {h} : work'[g] = work[g]
           /\ work'[h] # None => work'[h].kind = work[h].kind
           /\ Busy' \subseteq Busy
  <1>1. h \in Busy /\ crossed' = crossed
    BY DEF AtWorkStep, PlaybookCheck, PlaybookEvent, PlaybookIdentity, PlaybookRecord,
           DeceptionFind, DeceptionIdentity, DeceptionAsset, TrapAsset, TriggerEvent,
           TriggerRow, Decides, FindEvent, DecisionEvent, Stop, Doing, pastOf
  <1>2. work[h] \in Work /\ ResponseTypeOK
    BY <1>1, AtWorkFits
  <1>3. ASSUME NEW stage \in WorkStage, GoTo(h, stage)
        PROVE  /\ \A g \in Handlers \ {h} : work'[g] = work[g]
               /\ work'[h].kind = work[h].kind
    BY <1>1, <1>2, <1>3, Going
  <1>4. ASSUME Done(h)
        PROVE  work'[h] = None /\ \A g \in Handlers \ {h} : work'[g] = work[g]
    BY <1>1, <1>2, <1>4, Leaving
  <1>5. CASE DeceptionFind(h)
    <2>1. PICK i \in Identities :
            work' = [work EXCEPT ![h].stage = "identity", ![h].identity = i,
                                 ![h].sawStatus = status[i]]
      BY <1>5 DEF DeceptionFind
    <2> QED BY <1>1, <1>2, <2>1 DEF ResponseTypeOK, Work, Busy
  <1>6. CASE FindEvent(h)
    BY <1>1, <1>6, FindEventKeeps DEF Busy, FindEvent, Doing
  <1>7. CASE \/ PlaybookCheck(h) \/ PlaybookEvent(h) \/ PlaybookIdentity(h)
             \/ PlaybookRecord(h) \/ DeceptionIdentity(h) \/ DeceptionAsset(h)
             \/ TrapAsset(h) \/ TriggerEvent(h) \/ TriggerRow(h)
             \/ Decides(h) \/ DecisionEvent(h) \/ Stop(h)
    <2>1. Done(h) \/ \E stage \in WorkStage : GoTo(h, stage)
      BY <1>7 DEF PlaybookCheck, PlaybookEvent, PlaybookIdentity, PlaybookRecord,
           DeceptionIdentity, DeceptionAsset, TrapAsset, TriggerEvent,
           TriggerRow, Decides, DecisionEvent, Stop, WorkStage
    <2> QED BY <1>1, <1>3, <1>4, <2>1 DEF Busy
  <1> QED BY <1>1, <1>5, <1>6, <1>7 DEF AtWorkStep

LEMMA OthersUntouched ==
    ASSUME EngineInv, NEW h \in Handlers, AtWorkStep(h), NEW kinds, work[h].kind \notin kinds
    PROVE  Untouched(kinds)
  BY OneMoves DEF Untouched, Fewer

LEMMA StartTouchesNone ==
    ASSUME EngineInv, NEW h \in Handlers, NEW w \in Work, Begin(h, w), NEW kinds,
           w.kind \notin kinds
    PROVE  Untouched(kinds)
  BY Starting DEF Untouched, Fewer, EngineInv, Busy

LEMMA BusyFinite ==
    ASSUME EngineInv, IsFiniteSet(Busy), [ResponseNext]_responseVars PROVE IsFiniteSet(Busy')
  <1>1. CASE work' = work
    BY <1>1 DEF Busy
  <1>2. ASSUME NEW h \in Handlers, Starts(h) \/ AtWorkStep(h) PROVE IsFiniteSet(Busy')
    <2>1. Busy' \subseteq Busy \union {h}
      <3>1. CASE AtWorkStep(h)
        BY <3>1, OneMoves
      <3>2. CASE Starts(h)
        BY <3>2, PlaybookStarts, AccessStarts, EvaluateStarts, Starting DEF Starts, EngineInv
      <3> QED BY <1>2, <3>1, <3>2
    <2> QED BY <2>1, FS_AddElement, FS_Subset
  <1> QED BY <1>1, <1>2, StepKinds DEF responseVars

\* Playbooks: nothing of theirs has changed, except that some have ended.
LEMMA PlaybooksKept ==
    ASSUME PlaybooksOnce, Fewer({"playbook"}), executed' = executed, crossed \subseteq crossed'
    PROVE  PlaybooksOnce'
  <1>1. \A g \in Busy' : work'[g].kind = "playbook" => g \in Busy /\ work'[g] = work[g]
    BY DEF Fewer, Busy
  <1> QED BY <1>1 DEF PlaybooksOnce, Alone

LEMMA PlaybooksStep ==
    ASSUME EngineInv, PlaybooksOnce, [ResponseNext]_responseVars PROVE PlaybooksOnce'
  <1>1. CASE UNCHANGED <<work, crossed, executed>>
    BY <1>1 DEF PlaybooksOnce, Alone, Busy
  <1>2. ASSUME NEW h \in Handlers, Starts(h) PROVE PlaybooksOnce'
    <2>1. executed' = executed
      BY <1>2 DEF Starts, Playbook, Deception, Trap, Evaluate
    <2>2. ASSUME NEW e \in EventId, NEW a \in Action, Playbook(h, e, a) PROVE PlaybooksOnce'
      <3>1. PICK w \in Work : Begin(h, w) /\ w.kind = "playbook" /\ w.stage = "check"
        BY <2>2, PlaybookStarts
      <3>2. /\ Busy' = Busy \union {h} /\ work'[h] = w
            /\ \A g \in Handlers \ {h} : work'[g] = work[g]
            /\ crossed \subseteq crossed' /\ h \notin Busy
        BY <3>1, Starting DEF EngineInv
      <3>3. "playbook" \notin crossed' => \A q \in Busy : work[q].kind # "playbook"
        BY <3>1 DEF Begin, Crossing
      <3>4. \A g \in Busy : g \in Handlers /\ work'[g] = work[g]
        BY <3>2 DEF Busy
      <3> QED BY <2>1, <3>1, <3>2, <3>3, <3>4 DEF PlaybooksOnce, Alone
    <2>3. ASSUME \/ Deception(h) \/ Trap(h)
                 \/ \E r \in AccessRequests, d \in Decision : Evaluate(h, r, d)
          PROVE  PlaybooksOnce'
      <3>1. PICK w \in Work : Begin(h, w) /\ w.kind # "playbook"
        BY <2>3, AccessStarts, EvaluateStarts
      <3>2. Fewer({"playbook"})
        BY <3>1, StartTouchesNone DEF Untouched
      <3>3. crossed \subseteq crossed'
        BY <3>1 DEF Begin
      <3> QED BY <2>1, <3>2, <3>3, PlaybooksKept
    <2> QED BY <1>2, <2>2, <2>3 DEF Starts
  <1>3. ASSUME NEW h \in Handlers, AtWorkStep(h), work[h].kind # "playbook"
        PROVE  PlaybooksOnce'
    <2>1. Fewer({"playbook"})
      BY <1>3, OthersUntouched DEF Untouched
    <2>2. executed' = executed
      BY <1>3 DEF AtWorkStep, PlaybookCheck, PlaybookEvent, PlaybookIdentity, PlaybookRecord,
           DeceptionFind, DeceptionIdentity, DeceptionAsset, TrapAsset, TriggerEvent,
           TriggerRow, Decides, FindEvent, DecisionEvent, Stop, Doing
    <2> QED BY <1>3, <2>1, <2>2, OneMoves, PlaybooksKept
  <1>4. ASSUME NEW h \in Handlers, AtWorkStep(h), work[h].kind = "playbook"
        PROVE  PlaybooksOnce'
    <2>1. /\ h \in Busy /\ crossed' = crossed /\ Busy' \subseteq Busy
          /\ \A g \in Handlers \ {h} : work'[g] = work[g]
      BY <1>4, OneMoves
    <2>2. work[h] \in Work /\ PlaybookFits(work[h]) /\ ResponseTypeOK
      BY <1>4, <2>1, AtWorkFits DEF WorkFits
    <2>3. PICK e \in EventId, a \in Action : e = work[h].event /\ a = work[h].action
      BY <2>2 DEF PlaybookFits
    <2>4. ASSUME Done(h), executed' = executed PROVE PlaybooksOnce'
      <3>1. Fewer({"playbook"})
        BY <2>1, <2>2, <2>4, Leaving DEF Fewer
      <3> QED BY <2>1, <2>4, <3>1, PlaybooksKept
    <2>5. ASSUME NEW stage \in WorkStage, GoTo(h, stage), executed' = executed,
                 "playbook" \notin crossed => executed[e][a] = 0
          PROVE  PlaybooksOnce'
      <3>1. work'[h].event = e /\ work'[h].action = a
        BY <2>1, <2>2, <2>3, <2>5, Going
      <3>2. \A g \in Busy' : work'[g].kind = "playbook" => g \in Busy /\ work[g].kind = "playbook"
        BY <1>4, <2>1 DEF Busy
      <3>3. \A g \in Busy' \ {h} : work'[g] = work[g]
        BY <2>1 DEF Busy
      <3> QED BY <2>1, <2>5, <3>1, <3>2, <3>3 DEF PlaybooksOnce, Alone
    <2>6. work[h].stage # "check" /\ "playbook" \notin crossed => executed[e][a] = 0
      BY <1>4, <2>1, <2>3 DEF PlaybooksOnce
    <2>7. CASE PlaybookCheck(h)
      <3>1. CASE executed[e][a] > 0
        BY <2>3, <2>4, <2>7, <3>1 DEF PlaybookCheck
      <3>2. CASE ~(executed[e][a] > 0)
        <4>1. executed[e][a] = 0
          BY <2>2, <3>2 DEF ResponseTypeOK
        <4> QED BY <2>3, <2>5, <2>7, <3>2, <4>1 DEF PlaybookCheck, WorkStage
      <3> QED BY <3>1, <3>2
    <2>8. CASE PlaybookEvent(h) \/ PlaybookIdentity(h)
      <3>1. /\ executed' = executed /\ work[h].stage # "check"
            /\ \E stage \in WorkStage : GoTo(h, stage)
        BY <2>8 DEF PlaybookEvent, PlaybookIdentity, Doing, WorkStage
      <3> QED BY <2>5, <2>6, <3>1
    <2>9. CASE PlaybookRecord(h)
      <3>1. /\ executed' = [executed EXCEPT ![e][a] = @ + 1] /\ Done(h)
            /\ work[h].stage # "check" /\ executed \in [EventId -> [Action -> Nat]]
        BY <2>2, <2>3, <2>9 DEF PlaybookRecord, Doing, ResponseTypeOK
      <3>2. Busy' = Busy \ {h}
        BY <2>1, <2>2, <3>1, Leaving
      <3>3. "playbook" \notin crossed => \A g \in Busy' : work'[g].kind # "playbook"
        BY <1>4, <2>1, <3>2 DEF PlaybooksOnce, Alone, Busy
      <3>4. "playbook" \notin crossed => \A f \in EventId, b \in Action : executed'[f][b] <= 1
        BY <2>6, <3>1 DEF PlaybooksOnce
      <3> QED BY <2>1, <3>3, <3>4 DEF PlaybooksOnce, Alone
    <2>10. CASE Stop(h)
      BY <2>4, <2>10 DEF Stop
    <2> QED BY <1>4, <2>7, <2>8, <2>9, <2>10 DEF AtWorkStep, DeceptionFind,
            DeceptionIdentity, DeceptionAsset, TrapAsset, TriggerEvent, TriggerRow, Decides,
            FindEvent, DecisionEvent, Doing
  <1> QED BY <1>1, <1>2, <1>3, <1>4, StepKinds DEF responseVars

\* Accesses to the deception asset: none has moved, and some may have ended.
LEMMA TriggersKept ==
    ASSUME TriggersCounted, ResponseTypeOK, IsFiniteSet(Busy),
           Fewer({"trap", "deception"}), UNCHANGED evidence, crossed \subseteq crossed'
    PROVE  TriggersCounted'
  <1>1. \A g \in Busy' : work'[g].kind \in {"trap", "deception"} =>
                             g \in Busy /\ work'[g] = work[g]
    BY DEF Fewer, Busy
  <1>2. Counted' \subseteq Counted /\ Counted \subseteq Busy
    BY <1>1 DEF Counted
  <1>3. /\ Cardinality(Counted') <= Cardinality(Counted)
        /\ Cardinality(Counted) \in Nat /\ Cardinality(Counted') \in Nat
    BY <1>2, FS_Subset, FS_CardinalityType
  <1>4. triggers \in Nat /\ triggerCount \in Nat
    BY DEF ResponseTypeOK
  <1>5. triggers + Cardinality(Counted) <= triggerCount =>
            triggers' + Cardinality(Counted') <= triggerCount'
    BY <1>3, <1>4 DEF evidence
  <1>6. triggerCount' = triggerCount
    BY DEF evidence
  <1> QED BY <1>1, <1>5, <1>6 DEF TriggersCounted

LEMMA TriggersStep ==
    ASSUME EngineInv, IsFiniteSet(Busy), TriggersCounted, [ResponseNext]_responseVars
    PROVE  TriggersCounted'
  <1>0. ResponseTypeOK /\ triggers \in Nat /\ triggerCount \in Nat
    BY DEF EngineInv, ResponseTypeOK
  <1>1. CASE UNCHANGED <<work, crossed, evidence>>
    <2>1. Fewer({"trap", "deception"})
      BY <1>1 DEF Fewer
    <2> QED BY <1>0, <1>1, <2>1, TriggersKept
  <1>2. ASSUME NEW h \in Handlers, Starts(h) PROVE TriggersCounted'
    <2>1. UNCHANGED evidence
      BY <1>2 DEF Starts, Playbook, Deception, Trap, Evaluate
    <2>2. ASSUME \/ \E e \in EventId, a \in Action : Playbook(h, e, a)
                 \/ \E r \in AccessRequests, d \in Decision : Evaluate(h, r, d)
          PROVE  TriggersCounted'
      <3>1. PICK w \in Work : Begin(h, w) /\ w.kind \in {"playbook", "evaluate"}
        BY <2>2, PlaybookStarts, EvaluateStarts
      <3>2. Fewer({"trap", "deception"})
        BY <3>1, StartTouchesNone DEF Untouched
      <3>3. crossed \subseteq crossed'
        BY <3>1 DEF Begin
      <3> QED BY <1>0, <2>1, <3>2, <3>3, TriggersKept
    <2>3. ASSUME Deception(h) \/ Trap(h) PROVE TriggersCounted'
      <3>1. PICK w \in Work : /\ Begin(h, w) /\ w.stage \in {"find", "asset"}
                              /\ w.kind \in {"deception", "trap"}
                              /\ w.kind = "deception" => w.sawCount = triggerCount
        BY <2>3, AccessStarts
      <3>2. /\ Busy' = Busy \union {h} /\ work'[h] = w
            /\ \A g \in Handlers \ {h} : work'[g] = work[g]
            /\ crossed \subseteq crossed' /\ h \notin Busy
        BY <3>1, Starting DEF EngineInv
      <3>3. \A g \in Busy : g \in Handlers /\ work'[g] = work[g]
        BY <3>2 DEF Busy
      <3>4. Counted' = Counted
        BY <3>1, <3>2, <3>3 DEF Counted
      <3>5. "deception" \notin crossed' =>
               /\ w.kind = "deception" => \A q \in Busy : work[q].kind \notin {"deception", "trap"}
               /\ w.kind = "trap" => \A q \in Busy : work[q].kind # "deception"
        BY <3>1 DEF Begin, Crossing
      <3>6. UNCHANGED <<triggers, triggerCount>>
        BY <2>1 DEF evidence
      <3>7. CASE "deception" \notin crossed'
        <4>1. triggers' + Cardinality(Counted') <= triggerCount'
          BY <3>2, <3>4, <3>6, <3>7 DEF TriggersCounted
        <4>2. ASSUME NEW g \in Busy', NEW q \in Busy',
                     work'[g].kind = "deception", work'[q].kind \in {"deception", "trap"}
              PROVE  g = q
          BY <3>1, <3>2, <3>3, <3>5, <3>7, <4>2 DEF TriggersCounted
        <4>3. ASSUME NEW g \in Busy', work'[g].kind = "deception",
                     work'[g].stage \in {"find", "identity", "asset"}
              PROVE  work'[g].sawCount = triggerCount'
          BY <3>1, <3>2, <3>3, <3>6, <3>7, <4>3 DEF TriggersCounted
        <4> QED BY <4>1, <4>2, <4>3 DEF TriggersCounted
      <3> QED BY <3>7 DEF TriggersCounted
    <2> QED BY <1>2, <2>2, <2>3 DEF Starts
  <1>3. ASSUME NEW h \in Handlers, AtWorkStep(h), work[h].kind \notin {"trap", "deception"}
        PROVE  TriggersCounted'
    <2>1. Fewer({"trap", "deception"})
      BY <1>3, OthersUntouched DEF Untouched
    <2>2. UNCHANGED evidence
      BY <1>3 DEF AtWorkStep, PlaybookCheck, PlaybookEvent, PlaybookIdentity, PlaybookRecord,
           DeceptionFind, DeceptionIdentity, DeceptionAsset, TrapAsset, TriggerEvent,
           TriggerRow, Decides, FindEvent, DecisionEvent, Stop, Doing
    <2> QED BY <1>0, <1>3, <2>1, <2>2, OneMoves, TriggersKept
  <1>4. ASSUME NEW h \in Handlers, AtWorkStep(h), work[h].kind \in {"trap", "deception"}
        PROVE  TriggersCounted'
    <2>1. /\ h \in Busy /\ crossed' = crossed /\ Busy' \subseteq Busy
          /\ \A g \in Handlers \ {h} : work'[g] = work[g]
          /\ work'[h] # None => work'[h].kind = work[h].kind
      BY <1>4, OneMoves
    <2>2. work[h] \in Work
      BY <2>1, AtWorkFits
    <2>3. \A g \in Busy \ {h} : g \in Handlers /\ g \in Busy' /\ work'[g] = work[g]
      BY <2>1 DEF Busy
    <2>4. Counted \subseteq Busy /\ IsFiniteSet(Counted) /\ Cardinality(Counted) \in Nat
      BY FS_Subset, FS_CardinalityType DEF Counted
    <2>5. CASE "deception" \in crossed
      BY <2>1, <2>5 DEF TriggersCounted
    <2>6. CASE Stop(h) \/ TriggerRow(h)
      <3>1. Busy' = Busy \ {h} /\ Fewer({"trap", "deception"})
        BY <1>0, <2>1, <2>6, Leaving DEF Stop, TriggerRow, Fewer
      <3>2. CASE Stop(h)
        BY <1>0, <2>1, <3>1, <3>2, TriggersKept DEF Stop
      <3>3. CASE TriggerRow(h)
        <4>1. /\ triggers' = triggers + 1 /\ triggerCount' = triggerCount /\ h \in Counted
          BY <2>1, <3>3 DEF TriggerRow, Doing, Counted
        <4>2. Counted' = Counted \ {h}
          BY <2>3, <3>1 DEF Counted
        <4>3. Cardinality(Counted') = Cardinality(Counted) - 1
          BY <2>4, <4>1, <4>2, FS_RemoveElement
        <4>4. triggers + Cardinality(Counted) <= triggerCount =>
                  triggers' + Cardinality(Counted') <= triggerCount'
          BY <1>0, <2>4, <4>1, <4>3
        <4> QED BY <2>1, <2>3, <3>1, <4>1, <4>4 DEF TriggersCounted
      <3> QED BY <2>6, <3>2, <3>3
    <2>7. CASE (DeceptionFind(h) \/ DeceptionIdentity(h) \/ TriggerEvent(h))
      <3>1. UNCHANGED <<triggers, triggerCount>>
        BY <2>7 DEF DeceptionFind, DeceptionIdentity, TriggerEvent, evidence
      <3>2. /\ Busy' = Busy
            /\ work'[h].stage \in {"event", "trigger"} <=> work[h].stage \in {"event", "trigger"}
            /\ work[h].stage \in {"event", "trigger"} \/ work'[h].sawCount = work[h].sawCount
            /\ work[h].stage \in {"find", "identity", "asset", "event", "trigger"}
        <4>1. CASE DeceptionFind(h)
          <5>1. work[h].stage = "find" /\ work'[h].stage = "identity" /\ work'[h] # None
                /\ work'[h].sawCount = work[h].sawCount
            BY <4>1, DeceptionFindKeeps DEF DeceptionFind, Doing
          <5> QED BY <2>1, <2>3, <5>1 DEF Busy
        <4>2. CASE DeceptionIdentity(h)
          BY <1>0, <2>1, <4>2, Going DEF DeceptionIdentity, Doing, WorkStage
        <4>3. CASE TriggerEvent(h)
          BY <1>0, <2>1, <4>3, Going DEF TriggerEvent, Doing, WorkStage
        <4> QED BY <2>7, <4>1, <4>2, <4>3
      <3>3. Counted' = Counted
        BY <1>4, <2>1, <2>3, <3>2 DEF Counted, Busy
      <3> QED BY <2>1, <2>3, <3>1, <3>2, <3>3 DEF TriggersCounted, Busy
    <2>8. CASE (DeceptionAsset(h) \/ TrapAsset(h)) /\ "deception" \notin crossed
      <3>1. triggers' = triggers /\ GoTo(h, "event") /\ work[h].stage = "asset"
        BY <2>8 DEF DeceptionAsset, TrapAsset, Doing
      <3>2. triggerCount' = triggerCount + 1
        <4>1. CASE TrapAsset(h)
          BY <4>1 DEF TrapAsset
        <4>2. CASE DeceptionAsset(h)
          <5>1. work[h].kind = "deception" /\ work[h].stage = "asset"
                /\ triggerCount' = work[h].sawCount + 1
            BY <4>2 DEF DeceptionAsset, Doing
          <5> QED BY <2>1, <2>8, <5>1 DEF TriggersCounted
        <4> QED BY <2>8, <4>1, <4>2
      <3>3. Busy' = Busy /\ work'[h].stage = "event" /\ work'[h].kind = work[h].kind
        BY <1>0, <2>1, <3>1, Going DEF WorkStage
      <3>4. Counted' = Counted \union {h} /\ h \notin Counted
        BY <1>4, <2>1, <2>3, <3>1, <3>3 DEF Counted
      <3>5. Cardinality(Counted') = Cardinality(Counted) + 1
        BY <2>4, <3>4, FS_AddElement
      <3>6. triggers' + Cardinality(Counted') <= triggerCount'
        BY <1>0, <2>4, <2>8, <3>1, <3>2, <3>5 DEF TriggersCounted
      <3>7. ASSUME NEW g \in Busy', work'[g].kind = "deception"
            PROVE  g = h
        BY <1>4, <2>3, <2>1, <2>8, <3>3, <3>7 DEF TriggersCounted
      <3>8. ASSUME NEW g \in Busy', NEW q \in Busy',
                   work'[g].kind = "deception", work'[q].kind \in {"deception", "trap"}
            PROVE  g = q
        BY <2>1, <2>3, <2>8, <3>3, <3>8 DEF TriggersCounted
      <3> QED BY <3>3, <3>6, <3>7, <3>8 DEF TriggersCounted
    <2> QED BY <1>4, <2>5, <2>6, <2>7, <2>8 DEF AtWorkStep, PlaybookCheck, PlaybookEvent,
            PlaybookIdentity, PlaybookRecord, Decides, FindEvent, DecisionEvent, Doing
  <1> QED BY <1>1, <1>2, <1>3, <1>4, StepKinds DEF responseVars, evidence

\* Evaluations: none has moved, no event or decision of theirs has changed.
LEMMA EvaluationsKept ==
    ASSUME EvaluatedOnce, Untouched({"evaluate"}), crossed \subseteq crossed',
           undecided' = undecided,
           \A r \in AccessRequests : access[r] # None => access'[r] = access[r],
           \A r \in AccessRequests : access[r] = None =>
              access'[r] = None \/ access'[r].decision = "pending",
           \A h \in Busy : work[h].kind = "evaluate" =>
              work[h].of \in AccessRequests /\ access[work[h].of] # None,
           \A r \in AccessRequests :
              /\ EventsOf(r)' = EventsOf(r)
              /\ \A e \in EventsOf(r) : event'[e].verdict = event[e].verdict
    PROVE  EvaluatedOnce'
  <1>1. \A g \in Busy' : work'[g].kind = "evaluate" =>
           g \in Busy /\ work'[g] = work[g] /\ work[g].kind = "evaluate"
    BY DEF Untouched, Fewer, Busy
  <1>2. \A g \in Busy : work[g].kind = "evaluate" => g \in Busy' /\ work'[g] = work[g]
    BY DEF Untouched, Busy
  <1>3. SUFFICES ASSUME "evaluate" \notin crossed' PROVE EvaluatedOnce'
    BY DEF EvaluatedOnce
  <1>4. "evaluate" \notin crossed
    BY <1>3
  <1>5. Alone({"evaluate"})'
    BY <1>1, <1>4 DEF EvaluatedOnce, Alone
  <1>6. ASSUME NEW r \in AccessRequests PROVE \A e, f \in EventsOf(r)' : e = f
    BY <1>4 DEF EvaluatedOnce
  <1>7. ASSUME NEW r \in AccessRequests, DecidedFor(r)'
        PROVE  \E e \in EventsOf(r)' : event'[e].verdict = access'[r].decision
    <2>1. access[r] # None /\ access'[r] = access[r]
      BY <1>7 DEF DecidedFor
    <2>2. \A g \in Busy : work[g].kind = "evaluate" => work[g].of # r
      BY <1>2, <1>7 DEF DecidedFor
    <2>3. DecidedFor(r)
      BY <1>7, <2>1, <2>2 DEF DecidedFor
    <2>4. PICK e \in EventsOf(r) : event[e].verdict = access[r].decision
      BY <1>4, <2>3 DEF EvaluatedOnce
    <2> QED BY <2>1, <2>4
  <1>8. ASSUME NEW h \in Busy', work'[h].kind = "evaluate"
        PROVE  /\ work'[h].stage \in {"find", "event"} =>
                     access'[work'[h].of].decision = work'[h].decision
               /\ work'[h].stage = "event" =>
                     (work'[h].event = None <=> EventsOf(work[h].of)' = {})
    <2>1. h \in Busy /\ work'[h] = work[h] /\ work[h].kind = "evaluate"
      BY <1>1, <1>8
    <2>2. PICK r \in AccessRequests : r = work[h].of /\ access'[r] = access[r]
      BY <2>1
    <2>3. EventsOf(work[h].of)' = EventsOf(r)'
      BY <2>1, <2>2 DEF EventsOf
    <2> QED BY <1>4, <2>1, <2>2, <2>3 DEF EvaluatedOnce
  <1> QED BY <1>3, <1>5, <1>6, <1>7, <1>8 DEF EvaluatedOnce

\* An event that is about no access request, or whose verdict stays, changes none of theirs.
LEMMA EventsKept ==
    ASSUME ResponseTypeOK, NEW e \in EventId, NEW row \in Event,
           event' = [event EXCEPT ![e] = row],
           \/ event[e] # None /\ row.of = event[e].of /\ row.verdict = event[e].verdict
           \/ event[e] = None /\ row.of = None
    PROVE  \A r \in AccessRequests :
              /\ EventsOf(r)' = EventsOf(r)
              /\ \A f \in EventsOf(r) : event'[f].verdict = event[f].verdict
  <1>1. event'[e] = row /\ \A f \in EventId \ {e} : event'[f] = event[f]
    BY DEF ResponseTypeOK
  <1> QED BY <1>1 DEF EventsOf

LEMMA EvaluatingRows ==
    ASSUME EngineInv
    PROVE  \A h \in Busy : work[h].kind = "evaluate" =>
              work[h].of \in AccessRequests /\ access[work[h].of] # None
  BY AtWorkFits DEF WorkFits, EvaluateFits

\* The steps that write no access request and, of events, only what EventsKept allows.
LEMMA EvaluationsQuiet ==
    ASSUME EngineInv, EvaluatedOnce, Untouched({"evaluate"}), crossed \subseteq crossed',
           undecided' = undecided, access' = access,
           \/ event' = event
           \/ \E e \in EventId, row \in Event :
                 /\ event' = [event EXCEPT ![e] = row]
                 /\ \/ event[e] # None /\ row.of = event[e].of /\ row.verdict = event[e].verdict
                    \/ event[e] = None /\ row.of = None
    PROVE  EvaluatedOnce'
  <1>1. \A r \in AccessRequests :
              /\ EventsOf(r)' = EventsOf(r)
              /\ \A f \in EventsOf(r) : event'[f].verdict = event[f].verdict
    <2>1. CASE event' = event
      BY <2>1 DEF EventsOf
    <2>2. CASE event' # event
      BY <2>2, EventsKept DEF EngineInv
    <2> QED BY <2>1, <2>2
  <1> QED BY <1>1, EvaluatingRows, EvaluationsKept

LEMMA EvaluateStartKeeps ==
    ASSUME EngineInv, EvaluatedOnce, NEW h \in Handlers, NEW r \in AccessRequests,
           NEW d \in Decision, Evaluate(h, r, d)
    PROVE  EvaluatedOnce'
  <1>1. UNCHANGED <<access, event>>
    BY DEF Evaluate
  <1>2. PICK w \in Work : Begin(h, w) /\ w.kind = "evaluate" /\ w.stage = "record" /\ w.of = r
    BY EvaluateStarts
  <1>3. /\ Busy' = Busy \union {h} /\ work'[h] = w
        /\ \A g \in Handlers \ {h} : work'[g] = work[g]
        /\ crossed \subseteq crossed' /\ h \notin Busy /\ undecided' = undecided
    BY <1>2, Starting DEF EngineInv
  <1>4. "evaluate" \notin crossed' => \A q \in Busy : work[q].kind # "evaluate"
    BY <1>2 DEF Begin, Crossing
  <1>5. \A g \in Busy : g \in Handlers /\ work'[g] = work[g]
    BY <1>3 DEF Busy
  <1>6. SUFFICES ASSUME "evaluate" \notin crossed' PROVE EvaluatedOnce'
    BY DEF EvaluatedOnce
  <1>7. "evaluate" \notin crossed
    BY <1>3, <1>6
  <1>8. \A g \in Busy' : work'[g].kind = "evaluate" => g = h
    BY <1>3, <1>4, <1>5, <1>6
  <1>9. \A q \in AccessRequests : EventsOf(q)' = EventsOf(q)
    BY <1>1 DEF EventsOf
  <1>10. \A q \in AccessRequests : DecidedFor(q)' => DecidedFor(q)
    BY <1>1, <1>3, <1>5 DEF DecidedFor
  <1> QED BY <1>1, <1>2, <1>3, <1>7, <1>8, <1>9, <1>10 DEF EvaluatedOnce, Alone

LEMMA DecidesOnce ==
    ASSUME EngineInv, EvaluatedOnce, NEW h \in Handlers, Decides(h) PROVE EvaluatedOnce'
  <1>1. /\ h \in Busy /\ work[h].kind = "evaluate" /\ work[h].stage = "record"
        /\ event' = event /\ crossed' = crossed
        /\ access' = [access EXCEPT ![work[h].of].decision = work[h].decision]
    BY DEF Decides, Doing
  <1>2. PICK w \in Work : w = work[h] /\ EvaluateFits(w)
    BY <1>1, AtWorkFits DEF WorkFits
  <1>3. PICK r \in AccessRequests : r = w.of
    BY <1>2 DEF EvaluateFits
  <1>4. /\ access[r] \in AccessRequest /\ access[r] # None /\ w.decision \in Decision
        /\ access \in [AccessRequests -> AccessRequest \union {None}]
    BY <1>2, <1>3 DEF EvaluateFits, EngineInv, ResponseTypeOK
  <1>5. /\ access'[r].decision = w.decision
        /\ \A q \in AccessRequests \ {r} : access'[q] = access[q]
    BY <1>1, <1>2, <1>3, <1>4 DEF AccessRequest
  <1>6. SUFFICES ASSUME "evaluate" \notin crossed PROVE EvaluatedOnce'
    BY <1>1 DEF EvaluatedOnce
  <1>7. \A q \in AccessRequests : EventsOf(q)' = EventsOf(q)
    BY <1>1 DEF EventsOf
  <1>8. /\ \A g \in Handlers \ {h} : work'[g] = work[g]
        /\ work'[h] # None => work'[h].kind = "evaluate" /\ work'[h].of = r
              /\ work'[h].decision = w.decision /\ work'[h].stage = "find"
              /\ undecided' = undecided /\ w.decision # "allow"
        /\ work'[h] = None => w.decision = "allow" /\ undecided' = undecided \ {r}
    <2>1. CASE w.decision = "allow"
      BY <1>1, <1>2, <1>3, <2>1, Leaving DEF Decides, EngineInv
    <2>2. CASE w.decision # "allow"
      BY <1>1, <1>2, <1>3, <2>2, Going DEF Decides, EngineInv, WorkStage
    <2> QED BY <2>1, <2>2
  <1>9. \A g \in Busy' : g \in Busy /\ (g # h => work'[g] = work[g])
    BY <1>1, <1>8 DEF Busy
  <1>10. \A g \in Busy : work[g].kind = "evaluate" => g = h
    BY <1>1, <1>6 DEF EvaluatedOnce, Alone
  <1>11. \A g \in Busy' : work'[g].kind = "evaluate" => g = h
    BY <1>9, <1>10
  <1>12. Alone({"evaluate"})'
    BY <1>11 DEF Alone
  <1>13. \A q \in AccessRequests : \A e, f \in EventsOf(q)' : e = f
    BY <1>6, <1>7 DEF EvaluatedOnce
  <1>14. ASSUME NEW q \in AccessRequests, DecidedFor(q)'
         PROVE  \E e \in EventsOf(q)' : event'[e].verdict = access'[q].decision
    <2>1. q # r
      <3>1. CASE work'[h] = None
        BY <1>5, <1>8, <1>14, <3>1 DEF DecidedFor
      <3>2. CASE work'[h] # None
        BY <1>8, <1>14, <3>2 DEF DecidedFor, Busy
      <3> QED BY <3>1, <3>2
    <2>2. access'[q] = access[q] /\ q \notin undecided
      BY <1>5, <1>8, <1>14, <2>1 DEF DecidedFor
    <2>3. DecidedFor(q)
      BY <1>2, <1>3, <1>10, <1>14, <2>1, <2>2 DEF DecidedFor
    <2>4. PICK e \in EventsOf(q) : event[e].verdict = access[q].decision
      BY <1>6, <2>3 DEF EvaluatedOnce
    <2> QED BY <1>1, <1>7, <2>2, <2>4
  <1>15. ASSUME NEW g \in Busy', work'[g].kind = "evaluate"
         PROVE  /\ work'[g].stage \in {"find", "event"} =>
                      access'[work'[g].of].decision = work'[g].decision
                /\ work'[g].stage # "event"
    <2>1. g = h /\ work'[h] # None
      BY <1>11, <1>15 DEF Busy
    <2> QED BY <1>5, <1>8, <2>1
  <1> QED BY <1>6, <1>12, <1>13, <1>14, <1>15 DEF EvaluatedOnce

LEMMA FindEventOnce ==
    ASSUME EngineInv, EvaluatedOnce, NEW h \in Handlers, FindEvent(h) PROVE EvaluatedOnce'
  <1>1. /\ UNCHANGED <<access, event, undecided, crossed>>
        /\ h \in Busy /\ work[h].kind = "evaluate" /\ work[h].stage = "find"
    BY DEF FindEvent, Doing, pastOf
  <1>2. /\ work'[h] \in Work /\ work'[h].kind = "evaluate" /\ work'[h].stage = "event"
        /\ work'[h].of = work[h].of /\ work'[h].decision = work[h].decision
        /\ work'[h].event = None <=> EventsOf(work[h].of) = {}
        /\ \A g \in Handlers \ {h} : work'[g] = work[g]
    BY FindEventKeeps
  <1>3. SUFFICES ASSUME "evaluate" \notin crossed PROVE EvaluatedOnce'
    BY <1>1 DEF EvaluatedOnce
  <1>4. \A r : EventsOf(r)' = EventsOf(r)
    BY <1>1 DEF EventsOf
  <1>5. Busy' = Busy
    BY <1>1, <1>2 DEF Busy
  <1>6. \A g \in Busy : work[g].kind = "evaluate" => g = h
    BY <1>1, <1>3 DEF EvaluatedOnce, Alone
  <1>7. \A g \in Busy' : work'[g].kind = "evaluate" => g = h
    BY <1>2, <1>5, <1>6 DEF Busy
  <1>8. \A r \in AccessRequests : DecidedFor(r)' => DecidedFor(r)
    BY <1>1, <1>2, <1>5, <1>6 DEF DecidedFor
  <1>9. EventsOf(work[h].of)' = EventsOf(work[h].of)
    BY <1>1, <1>2 DEF EventsOf
  <1>10. access[work[h].of].decision = work[h].decision
    BY <1>1, <1>3 DEF EvaluatedOnce
  <1>11. Alone({"evaluate"})'
    BY <1>7 DEF Alone
  <1>12. ASSUME NEW g \in Busy', work'[g].kind = "evaluate"
         PROVE  /\ access'[work'[g].of].decision = work'[g].decision
                /\ work'[g].event = None <=> EventsOf(work[g].of)' = {}
    <2>1. g = h
      BY <1>7, <1>12
    <2> QED BY <1>1, <1>2, <1>9, <1>10, <2>1
  <1>13. \A r \in AccessRequests :
             /\ \A e, f \in EventsOf(r)' : e = f
             /\ DecidedFor(r)' =>
                   \E e \in EventsOf(r)' : event'[e].verdict = access'[r].decision
    BY <1>1, <1>3, <1>4, <1>8 DEF EvaluatedOnce
  <1> QED BY <1>11, <1>12, <1>13 DEF EvaluatedOnce

LEMMA DecisionEventOnce ==
    ASSUME EngineInv, EvaluatedOnce, NEW h \in Handlers, DecisionEvent(h)
    PROVE  EvaluatedOnce'
  <1>1. /\ access' = access /\ crossed' = crossed /\ Done(h)
        /\ undecided' = undecided \ {work[h].of}
        /\ h \in Busy /\ work[h].kind = "evaluate" /\ work[h].stage = "event"
    BY DEF DecisionEvent, Doing
  <1>2. PICK w \in Work : w = work[h] /\ EvaluateFits(w)
    BY <1>1, AtWorkFits DEF WorkFits
  <1>3. PICK r \in AccessRequests : r = w.of
    BY <1>2 DEF EvaluateFits
  <1>4. PICK e \in EventId, row \in Event :
              /\ event' = [event EXCEPT ![e] = row]
              /\ row.of = r /\ row.verdict = w.decision
              /\ w.event = None => event[e] = None
              /\ w.event # None => event[e] # None /\ row.of = event[e].of
    BY <1>2, <1>3, DecisionWritten
  <1>5. SUFFICES ASSUME "evaluate" \notin crossed PROVE EvaluatedOnce'
    BY <1>1 DEF EvaluatedOnce
  <1>6. event'[e] = row /\ row # None /\ \A f \in EventId \ {e} : event'[f] = event[f]
    BY <1>4 DEF EngineInv, ResponseTypeOK
  <1>7. /\ Busy' = Busy \ {h} /\ \A g \in Handlers \ {h} : work'[g] = work[g]
    BY <1>1, Leaving DEF EngineInv
  <1>8. \A g \in Busy : work[g].kind = "evaluate" => g = h
    BY <1>1, <1>5 DEF EvaluatedOnce, Alone
  <1>9. \A g \in Busy' : work'[g].kind # "evaluate"
    BY <1>7, <1>8 DEF Busy
  <1>10. /\ access[r].decision = w.decision
         /\ w.event = None <=> EventsOf(r) = {}
         /\ \A f, g \in EventsOf(r) : f = g
    BY <1>1, <1>2, <1>3, <1>5 DEF EvaluatedOnce
  <1>11. EventsOf(r)' = {e}
    <2>1. CASE w.event = None
      BY <1>4, <1>6, <1>10, <2>1 DEF EventsOf
    <2>2. CASE w.event # None
      <3>1. e \in EventsOf(r)
        BY <1>4, <2>2 DEF EventsOf
      <3> QED BY <1>4, <1>6, <1>10, <3>1 DEF EventsOf
    <2> QED BY <2>1, <2>2
  <1>12. ASSUME NEW q \in AccessRequests, q # r
         PROVE  EventsOf(q)' = EventsOf(q) /\ e \notin EventsOf(q)
    BY <1>4, <1>6, <1>12 DEF EventsOf
  <1>13. ASSUME NEW q \in AccessRequests
         PROVE  /\ \A f, g \in EventsOf(q)' : f = g
                /\ DecidedFor(q)' =>
                      \E f \in EventsOf(q)' : event'[f].verdict = access'[q].decision
    <2>1. CASE q = r
      BY <1>1, <1>4, <1>6, <1>10, <1>11, <2>1
    <2>2. CASE q # r
      <3>1. DecidedFor(q)' => DecidedFor(q)
        BY <1>1, <1>2, <1>3, <1>8, <2>2 DEF DecidedFor
      <3>2. \A f \in EventsOf(q) : event'[f] = event[f]
        BY <1>6, <1>12, <2>2 DEF EventsOf
      <3> QED BY <1>1, <1>5, <1>12, <2>2, <3>1, <3>2 DEF EvaluatedOnce
    <2> QED BY <2>1, <2>2
  <1> QED BY <1>9, <1>13 DEF EvaluatedOnce, Alone

LEMMA StopOnce ==
    ASSUME EngineInv, EvaluatedOnce, NEW h \in Handlers, Stop(h) PROVE EvaluatedOnce'
  <1>1. /\ UNCHANGED <<access, event, crossed>> /\ h \in Busy /\ Done(h)
        /\ undecided' = IF work[h].kind = "evaluate" THEN undecided \union {work[h].of}
                        ELSE undecided
    BY DEF Stop
  <1>2. Busy' = Busy \ {h} /\ \A g \in Handlers \ {h} : work'[g] = work[g]
    BY <1>1, Leaving DEF EngineInv
  <1>3. \A g \in Busy' : g \in Busy /\ work'[g] = work[g]
    BY <1>2 DEF Busy
  <1>4. \A r : EventsOf(r)' = EventsOf(r)
    BY <1>1 DEF EventsOf
  <1>5. ASSUME NEW r \in AccessRequests, DecidedFor(r)' PROVE DecidedFor(r)
    <2>1. \A g \in Busy \ {h} : work[g].kind = "evaluate" => work[g].of # r
      BY <1>2, <1>3, <1>5 DEF DecidedFor
    <2>2. r \notin undecided' /\ r \notin undecided
      BY <1>1, <1>5 DEF DecidedFor
    <2>3. work[h].kind = "evaluate" => work[h].of # r
      BY <1>1, <2>2
    <2> QED BY <1>1, <1>5, <2>1, <2>2, <2>3 DEF DecidedFor
  <1>6. \A g \in Busy' : EventsOf(work[g].of)' = EventsOf(work[g].of)
    BY <1>1, <1>3 DEF EventsOf
  <1> QED BY <1>1, <1>3, <1>4, <1>5, <1>6 DEF EvaluatedOnce, Alone

LEMMA EvaluationsStep ==
    ASSUME EngineInv, EvaluatedOnce, [ResponseNext]_responseVars PROVE EvaluatedOnce'
  <1>1. CASE UNCHANGED responseVars
    BY <1>1 DEF responseVars, EvaluatedOnce, Alone, Busy, EventsOf, DecidedFor
  <1>2. ASSUME NEW i \in Identities, NEW s \in IdentityStatus, UpdateIdentityStatus(i, s)
        PROVE  EvaluatedOnce'
    BY <1>2, EvaluationsQuiet DEF UpdateIdentityStatus, pastOf, Untouched, Fewer
  <1>3. ASSUME NEW i \in Identities, NEW r \in AccessRequests, CreateAccessRequest(r, i)
        PROVE  EvaluatedOnce'
    <2>1. /\ UNCHANGED <<event, work, crossed, undecided>> /\ access[r] = None
          /\ access' = [access EXCEPT ![r] = [identity |-> i, decision |-> "pending"]]
      BY <1>3 DEF CreateAccessRequest, pastOf
    <2>2. /\ access'[r].decision = "pending"
          /\ \A q \in AccessRequests \ {r} : access'[q] = access[q]
      BY <2>1 DEF EngineInv, ResponseTypeOK
    <2>3. Untouched({"evaluate"})
      BY <2>1 DEF Untouched, Fewer
    <2>4. \A q \in AccessRequests : /\ EventsOf(q)' = EventsOf(q)
                                    /\ \A e \in EventsOf(q) : event'[e].verdict = event[e].verdict
      BY <2>1 DEF EventsOf
    <2>5. \A q \in AccessRequests : access[q] # None => access'[q] = access[q]
      BY <2>1, <2>2
    <2>6. \A q \in AccessRequests : access[q] = None =>
              access'[q] = None \/ access'[q].decision = "pending"
      BY <2>2
    <2> QED BY <2>1, <2>3, <2>4, <2>5, <2>6, EvaluatingRows, EvaluationsKept
  <1>4. ASSUME NEW e \in EventId, NEW s \in EventStatus, UpdateEventStatus(e, s)
        PROVE  EvaluatedOnce'
    <2>1. /\ UNCHANGED <<access, work, crossed, undecided>> /\ event[e] # None
          /\ event' = [event EXCEPT ![e].status = s]
      BY <1>4 DEF UpdateEventStatus, pastOf
    <2>2. event[e] \in Event
      BY <2>1 DEF EngineInv, ResponseTypeOK
    <2>3. PICK row \in Event : row = [event[e] EXCEPT !.status = s]
      BY <2>2 DEF Event
    <2>4. row.of = event[e].of /\ row.verdict = event[e].verdict
          /\ event' = [event EXCEPT ![e] = row]
      BY <2>1, <2>2, <2>3 DEF Event
    <2>5. Untouched({"evaluate"})
      BY <2>1 DEF Untouched, Fewer
    <2> QED BY <2>1, <2>4, <2>5, EvaluationsQuiet
  <1>5. ASSUME NEW h \in Handlers, Starts(h) PROVE EvaluatedOnce'
    <2>1. ASSUME \/ \E e \in EventId, a \in Action : Playbook(h, e, a)
                 \/ Deception(h) \/ Trap(h)
          PROVE  EvaluatedOnce'
      <3>1. UNCHANGED <<access, event>>
        BY <2>1 DEF Playbook, Deception, Trap
      <3>2. PICK w \in Work : Begin(h, w) /\ w.kind # "evaluate"
        BY <2>1, PlaybookStarts, AccessStarts
      <3>3. Untouched({"evaluate"})
        BY <3>2, StartTouchesNone
      <3>4. crossed \subseteq crossed' /\ undecided' = undecided
        BY <3>2 DEF Begin
      <3> QED BY <3>1, <3>3, <3>4, EvaluationsQuiet
    <2> QED BY <1>5, <2>1, EvaluateStartKeeps DEF Starts
  <1>6. ASSUME NEW h \in Handlers, AtWorkStep(h), work[h].kind # "evaluate", ~Stop(h)
        PROVE  EvaluatedOnce'
    <2>1. Untouched({"evaluate"}) /\ crossed' = crossed /\ h \in Busy
      BY <1>6, OthersUntouched, OneMoves
    <2>2. ~Decides(h) /\ ~FindEvent(h) /\ ~DecisionEvent(h)
      BY <1>6 DEF Decides, FindEvent, DecisionEvent, Doing
    <2>3. access' = access /\ undecided' = undecided
      BY <1>6, <2>2 DEF AtWorkStep, PlaybookCheck, PlaybookEvent, PlaybookIdentity,
           PlaybookRecord, DeceptionFind, DeceptionIdentity, DeceptionAsset, TrapAsset,
           TriggerEvent, TriggerRow, pastOf
    <2>4. CASE PlaybookEvent(h)
      <3>1. PICK w \in Work : w = work[h] /\ PlaybookFits(w)
        BY <2>1, <2>4, AtWorkFits DEF WorkFits, PlaybookEvent, Doing
      <3>2. PICK e \in EventId : e = w.event
        BY <3>1 DEF PlaybookFits
      <3>3. event' = [event EXCEPT ![e].status = StatusAfter(w.sawEvent, w.action)]
        BY <2>4, <3>1, <3>2 DEF PlaybookEvent
      <3>4. event[e] \in Event /\ event[e] # None
        BY <3>1, <3>2 DEF PlaybookFits, EngineInv, ResponseTypeOK
      <3>5. StatusAfter(w.sawEvent, w.action) \in EventStatus
        BY <3>1 DEF PlaybookFits, StatusAfter, EventStatus, Action
      <3>6. PICK row \in Event :
                row = [event[e] EXCEPT !.status = StatusAfter(w.sawEvent, w.action)]
        BY <3>4, <3>5 DEF Event
      <3>7. row.of = event[e].of /\ row.verdict = event[e].verdict
            /\ event' = [event EXCEPT ![e] = row]
        BY <3>3, <3>4, <3>6 DEF Event
      <3> QED BY <2>1, <2>3, <3>4, <3>7, EvaluationsQuiet
    <2>5. CASE TriggerEvent(h)
      <3>1. work[h] \in Work
        BY <2>1, AtWorkFits
      <3>2. PICK row \in Event : row = [status |-> "open", identity |-> work[h].identity,
                                        of |-> None, verdict |-> None]
        BY <3>1 DEF Work, Event, EventStatus
      <3>3. CreateEvent(row)
        BY <2>5, <3>2 DEF TriggerEvent
      <3>4. PICK e \in EventId : event[e] = None /\ event' = [event EXCEPT ![e] = row]
        BY <3>3 DEF CreateEvent, FreeEvents
      <3> QED BY <2>1, <2>3, <3>2, <3>4, EvaluationsQuiet
    <2>6. CASE ~PlaybookEvent(h) /\ ~TriggerEvent(h)
      <3>1. event' = event
        BY <1>6, <2>2, <2>6 DEF AtWorkStep, PlaybookCheck, PlaybookIdentity, PlaybookRecord,
           DeceptionFind, DeceptionIdentity, DeceptionAsset, TrapAsset, TriggerRow
      <3> QED BY <2>1, <2>3, <3>1, EvaluationsQuiet
    <2> QED BY <2>4, <2>5, <2>6
  <1>7. ASSUME NEW h \in Handlers, AtWorkStep(h), work[h].kind = "evaluate"
        PROVE  EvaluatedOnce'
    BY <1>7, DecidesOnce, FindEventOnce, DecisionEventOnce, StopOnce DEF AtWorkStep,
       PlaybookCheck, PlaybookEvent, PlaybookIdentity, PlaybookRecord, DeceptionFind,
       DeceptionIdentity, DeceptionAsset, TrapAsset, TriggerEvent, TriggerRow, Doing
  <1>8. ASSUME NEW h \in Handlers, AtWorkStep(h) PROVE EvaluatedOnce'
    BY <1>6, <1>7, <1>8, StopOnce
  <1> QED BY <1>1, <1>2, <1>3, <1>4, <1>5, <1>8 DEF ResponseNext, Starts, AtWorkStep

\* The inductive invariant of requests that have not overlapped with others of their kind:
\* what one has read is still so when it writes, also after one that has stopped.
THEOREM ResponseInvariant == ResponseSpec => []ResponseInv
  <1>1. ASSUME ResponseInit PROVE ResponseInv
    <2>1. EngineInv
      BY <1>1, EngineStarts
    <2>2. Busy = {} /\ IsFiniteSet(Busy) /\ Cardinality(Counted) = 0
      <3>1. Busy = {} /\ Counted = {}
        BY <1>1 DEF ResponseInit, Busy, Counted
      <3> QED BY <3>1, FS_EmptySet
    <2>3. PlaybooksOnce
      BY <1>1, <2>2 DEF ResponseInit, PlaybooksOnce, Alone, Action
    <2>4. TriggersCounted
      BY <1>1, <2>2 DEF ResponseInit, TriggersCounted
    <2>5. EvaluatedOnce
      BY <1>1, <2>2 DEF ResponseInit, EvaluatedOnce, Alone, EventsOf, DecidedFor
    <2> QED BY <2>1, <2>2, <2>3, <2>4, <2>5 DEF ResponseInv
  <1>2. ResponseInv /\ [ResponseNext]_responseVars => ResponseInv'
    BY EngineStep, BusyFinite, PlaybooksStep, TriggersStep, EvaluationsStep DEF ResponseInv
  <1> QED BY <1>1, <1>2, PTL DEF ResponseSpec

\* Requests that do not overlap leave one record each, also when they are repeated after
\* one that stopped half-way: one execution of a playbook action, one event of a refused
\* access request that shows the decision, and no trigger missing from the count.
THEOREM OneRecordEach == ResponseSpec => []RecordedOnce
  <1>1. ASSUME ResponseInv PROVE RecordedOnce
    <2>1. "deception" \notin crossed => triggers <= triggerCount
      <3>1. triggers \in Nat /\ triggerCount \in Nat
        BY <1>1 DEF ResponseInv, EngineInv, ResponseTypeOK
      <3>2. Cardinality(Counted) \in Nat
        BY <1>1, FS_Subset, FS_CardinalityType DEF ResponseInv, Counted
      <3> QED BY <1>1, <3>1, <3>2 DEF ResponseInv, TriggersCounted
    <2>2. "playbook" \notin crossed => \A e \in EventId, a \in Action : executed[e][a] <= 1
      BY <1>1 DEF ResponseInv, PlaybooksOnce
    <2>3. ASSUME "evaluate" \notin crossed, NEW r \in AccessRequests
          PROVE  Cardinality(EventsOf(r)) <= 1
      <3>1. \A e, f \in EventsOf(r) : e = f
        BY <1>1, <2>3 DEF ResponseInv, EvaluatedOnce
      <3>2. EventsOf(r) = {} \/ \E e : EventsOf(r) = {e}
        BY <3>1
      <3>3. CASE EventsOf(r) = {}
        BY <3>3, FS_EmptySet
      <3>4. ASSUME NEW e, EventsOf(r) = {e} PROVE Cardinality(EventsOf(r)) <= 1
        BY <3>4, FS_Singleton
      <3> QED BY <3>2, <3>3, <3>4
    <2>4. ASSUME "evaluate" \notin crossed, NEW r \in AccessRequests
          PROVE  (/\ access[r] # None /\ access[r].decision \in {"deny", "isolate"}
                  /\ r \notin undecided
                  /\ \A h \in Busy : work[h].kind = "evaluate" => work[h].of # r)
                 => \E e \in EventsOf(r) : event[e].verdict = access[r].decision
      BY <1>1, <2>4 DEF ResponseInv, EvaluatedOnce, DecidedFor
    <2> QED BY <2>1, <2>2, <2>3, <2>4 DEF RecordedOnce
  <1> QED BY <1>1, ResponseInvariant, PTL

=============================================================================
