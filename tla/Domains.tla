------------------------------ MODULE Domains ------------------------------
(***************************************************************************)
(* A connected domain (integrations/domain-service.ts): its provider is    *)
(* connected, its configuration is checked against DNS and Cloudflare, and *)
(* it is activated.  A request reads the row, asks the outside, and writes *)
(* the row back without a second look; requests overlap.                   *)
(***************************************************************************)
EXTENDS Naturals, FiniteSets

CONSTANTS
    Hostnames,      \* of domains that are added
    Zones,          \* Cloudflare zones, each with a token
    Tasks,          \* requests at work
    Nothing,
    DomainLimit,    \* domains per organization: 50
    MaxTasks,       \* bound: requests
    MaxChanges      \* bound: changes of DNS and of the zones

ASSUME DomainAssumption ==
    /\ Nothing \notin Hostnames \union Zones
    /\ DomainLimit \in Nat /\ MaxTasks \in Nat /\ MaxChanges \in Nat

VARIABLES
    domain,     \* domain[n]: the row of hostname n, or Nothing
    owned,      \* hostnames whose TXT record is in the DNS
    secured,    \* zones whose proxy, TLS and firewall are configured
    task, tasks, changes,
    (* History *)
    wanted,     \* hostnames asked to be active since they were connected or failed a check
    vouched,    \* vouched[n]: the zone that passed the last check written
    overlapped  \* hostnames of which two requests have overlapped

domainVars == <<domain, owned, secured, task, tasks, changes, wanted, vouched, overlapped>>
outside    == <<owned, secured, changes>>
past       == <<wanted, vouched>>

-----------------------------------------------------------------------------
DomainStatus == {"pending_verification", "provider_connected", "setup_required",
                 "ready_to_activate", "configuration_verified"}

\* zone: zoneId and tokenCiphertext, which are set together; active: activatedAt # null.
Domain == [status : DomainStatus, zone : Zones \union {Nothing}, active : BOOLEAN]

\* Nothing is not a row.
ASSUME NoRowAssumption == Nothing \notin Domain

NewDomain == [status |-> "pending_verification", zone |-> Nothing, active |-> FALSE]

\* read: the row as it was read; owner, ready: what DNS and Cloudflare answered.
Task == [kind : {"add", "connect", "check"}, stage : {"row", "dns", "zone", "write"},
         of : Hostnames, zone : Zones \union {Nothing}, activate : BOOLEAN,
         read : Domain \union {Nothing}, owner : BOOLEAN, ready : BOOLEAN]

NewTask(kind, n) ==
    [kind |-> kind, stage |-> "dns", of |-> n, zone |-> Nothing, activate |-> FALSE,
     read |-> domain[n], owner |-> FALSE, ready |-> FALSE]

DomainsTypeOK ==
    /\ domain \in [Hostnames -> Domain \union {Nothing}]
    /\ owned \subseteq Hostnames /\ secured \subseteq Zones
    /\ task \in [Tasks -> Task \union {Nothing}]
    /\ tasks \in 0..MaxTasks /\ changes \in 0..MaxChanges
    /\ wanted \subseteq Hostnames /\ overlapped \subseteq Hostnames
    /\ vouched \in [Hostnames -> Zones \union {Nothing}]

DomainsInit ==
    /\ domain = [n \in Hostnames |-> Nothing]
    /\ owned \in SUBSET Hostnames /\ secured \in SUBSET Zones
    /\ task = [t \in Tasks |-> Nothing] /\ tasks = 0 /\ changes = 0
    /\ wanted = {} /\ overlapped = {}
    /\ vouched = [n \in Hostnames |-> Nothing]

-----------------------------------------------------------------------------
AtWork(t, kind, stage) == task[t] # Nothing /\ task[t].kind = kind /\ task[t].stage = stage
Added == {n \in Hostnames : domain[n] # Nothing}

Take(t, r) ==
    /\ task[t] = Nothing /\ tasks < MaxTasks /\ tasks' = tasks + 1
    /\ task' = [task EXCEPT ![t] = r]
    /\ overlapped' = IF \E q \in Tasks : task[q] # Nothing /\ task[q].of = r.of
                     THEN overlapped \union {r.of} ELSE overlapped

Leave(t) == task' = [task EXCEPT ![t] = Nothing]

\* addConnectedDomain counts before it upserts.
Add(t, n) ==
    /\ Cardinality(Added) < DomainLimit
    /\ Take(t, [NewTask("add", n) EXCEPT !.stage = "row"])
    /\ UNCHANGED <<domain, outside, past>>

Upsert(t) ==
    LET n == task[t].of
    IN /\ AtWork(t, "add", "row")
       /\ domain' = [domain EXCEPT ![n] = IF @ = Nothing THEN NewDomain ELSE @]
       /\ Leave(t)
       /\ UNCHANGED <<outside, tasks, past, overlapped>>

Connect(t, n, z) ==
    /\ n \in Added
    /\ Take(t, [NewTask("connect", n) EXCEPT !.zone = z])
    /\ UNCHANGED <<domain, outside, past>>

Check(t, n, activate) ==
    /\ n \in Added
    /\ Take(t, [NewTask("check", n) EXCEPT !.activate = activate])
    /\ UNCHANGED <<domain, outside, past>>

\* verifyOwnership; no answer of the DNS is no ownership.  Without it a provider is not
\* connected, and a check does not ask Cloudflare.
Resolved(t) ==
    LET r == task[t]
    IN /\ AtWork(t, r.kind, "dns")
       /\ \E found \in {r.of \in owned, FALSE} :
             IF ~found /\ r.kind = "connect" THEN Leave(t)
             ELSE task' = [task EXCEPT ![t].owner = found,
                              ![t].stage =
                                  IF found /\ (r.kind = "connect" \/ r.read.zone # Nothing)
                                  THEN "zone" ELSE "write"]
       /\ UNCHANGED <<domain, outside, tasks, past, overlapped>>

\* Cloudflare answers for the zone that was read, or fails.
ZoneAnswered(t) ==
    LET r == task[t]
    IN /\ AtWork(t, "check", "zone")
       /\ \E ready \in {r.read.zone \in secured, FALSE} :
             task' = [task EXCEPT ![t].stage = "write", ![t].ready = ready]
       /\ UNCHANGED <<domain, outside, tasks, past, overlapped>>

ZoneMatched(t) ==
    /\ AtWork(t, "connect", "zone")
    /\ task' = [task EXCEPT ![t].stage = "write"]
    /\ UNCHANGED <<domain, outside, tasks, past, overlapped>>

\* Mutation: a domain stays active when its provider is replaced.
MutConnected(t) ==
    LET n == task[t].of
    IN /\ AtWork(t, "connect", "write")
       /\ domain' = [domain EXCEPT ![n].zone = task[t].zone, ![n].status = "provider_connected"]
       /\ vouched' = [vouched EXCEPT ![n] = Nothing] /\ wanted' = wanted \ {n}
       /\ Leave(t)
       /\ UNCHANGED <<outside, tasks, overlapped>>

Connected(t) ==
    LET n == task[t].of
    IN /\ AtWork(t, "connect", "write")
       /\ domain' = [domain EXCEPT ![n] = [status |-> "provider_connected",
                                           zone |-> task[t].zone, active |-> FALSE]]
       /\ vouched' = [vouched EXCEPT ![n] = Nothing] /\ wanted' = wanted \ {n}
       /\ Leave(t)
       /\ UNCHANGED <<outside, tasks, overlapped>>

\* A check that passes keeps an active domain active, or activates it if asked to; one
\* that fails deactivates it.
Checked(t) ==
    LET r == task[t]
        n == r.of
        activated == r.ready /\ (r.activate \/ r.read.active)
    IN /\ AtWork(t, "check", "write")
       /\ domain' = [domain EXCEPT
             ![n].status = IF ~r.owner THEN "pending_verification"
                           ELSE IF activated THEN "configuration_verified"
                           ELSE IF r.ready THEN "ready_to_activate"
                           ELSE "setup_required",
             ![n].active = activated]
       /\ vouched' = [vouched EXCEPT ![n] = IF r.ready THEN r.read.zone ELSE Nothing]
       /\ wanted' = IF ~r.ready THEN wanted \ {n}
                    ELSE IF r.activate THEN wanted \union {n} ELSE wanted
       /\ Leave(t)
       /\ UNCHANGED <<outside, tasks, overlapped>>

\* The token is refused, the zone belongs to another domain, a statement fails, or the
\* process dies.
Dropped(t) ==
    /\ task[t] # Nothing
    /\ Leave(t)
    /\ UNCHANGED <<domain, outside, tasks, past, overlapped>>

OutsideChanges ==
    /\ changes < MaxChanges /\ changes' = changes + 1
    /\ \/ \E n \in Hostnames : /\ owned' = (owned \ {n}) \union ({n} \ owned)
                               /\ UNCHANGED secured
       \/ \E z \in Zones : /\ secured' = (secured \ {z}) \union ({z} \ secured)
                           /\ UNCHANGED owned
    /\ UNCHANGED <<domain, task, tasks, past, overlapped>>

DomainsNext ==
    \/ \E t \in Tasks, n \in Hostnames :
          \/ Add(t, n)
          \/ \E z \in Zones : Connect(t, n, z)
          \/ \E activate \in BOOLEAN : Check(t, n, activate)
    \/ \E t \in Tasks :
          \/ Upsert(t) \/ Resolved(t) \/ ZoneAnswered(t) \/ ZoneMatched(t)
          \/ Connected(t) \/ Checked(t) \/ Dropped(t)
    \/ OutsideChanges

DomainsSpec == DomainsInit /\ [][DomainsNext]_domainVars

-----------------------------------------------------------------------------
(* Properties *)

\* A domain is active, or called verified, only for the zone that is connected, by a
\* check that this zone has passed, and because somebody asked for it since it was
\* connected or last failed: unless two requests for it overlapped, the later of which
\* writes what the earlier has changed.
ActiveAsChecked ==
    \A n \in Added \ overlapped :
       domain[n].active \/ domain[n].status = "configuration_verified" =>
          /\ n \in wanted
          /\ domain[n].zone # Nothing /\ vouched[n] = domain[n].zone
=============================================================================
