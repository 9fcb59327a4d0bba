------------------------------ MODULE Response ------------------------------
(***************************************************************************)
(* The response engines of one organization: access decisions              *)
(* (zero-trust-engine.service.ts), playbooks and event statuses            *)
(* (event-engine.service.ts), simulated and real accesses to a deception   *)
(* asset (deception-engine.service.ts, trap-service.ts), and the analyst's *)
(* own changes.  No engine uses a transaction: every statement is a step,  *)
(* and a request may stop at each (an error of the database, a crash).     *)
(* Audit log, notifications, timelines and risk scores are left out.       *)
(***************************************************************************)
EXTENDS Naturals, FiniteSets

CONSTANTS
    Identities,     \* identity profiles
    AccessRequests,
    Handlers,       \* requests at work
    None,
    MaxEvents,      \* bound: security events
    MaxResponses,   \* bound: requests started
    MaxStops        \* bound: requests that stop half-way

ASSUME ResponseAssumption ==
    /\ None \notin Identities \union AccessRequests
    /\ MaxEvents \in Nat /\ MaxResponses \in Nat /\ MaxStops \in Nat

VARIABLES
    status,       \* status[i] of an identity profile
    access,       \* access[r]: an access request, or None
    event,        \* event[e]: a security event, or None
    executed,     \* executed[e][a]: completed playbook executions
    triggerCount, \* of the deception asset
    triggers,     \* its trigger rows
    work, responses, stops,
    (* History *)
    crossed,      \* kinds of request of which two have overlapped
    freed,        \* identities released after they were isolated
    undecided     \* access requests whose last evaluation has stopped half-way

responseVars == <<status, access, event, executed, triggerCount, triggers, work,
                  responses, stops, crossed, freed, undecided>>
evidence  == <<triggerCount, triggers>>
budget    == <<responses, stops>>
pastOf    == <<crossed, undecided>>

-----------------------------------------------------------------------------
\* watchlist is not told apart from active here, nor false_positive from resolved.
IdentityStatus == {"active", "suspicious", "isolated"}
EventStatus    == {"open", "investigating", "contained", "resolved"}

\* deny stands for require_step_up_auth too, allow for limited_allow.
Decision == {"allow", "deny", "isolate"}

\* isolate_identity stands for account_lock; mark_resolved for the actions that
\* concern the event alone.
Action == {"isolate_identity", "revoke_token", "mark_resolved"}

EventId == 1..MaxEvents

AccessRequest == [identity : Identities, decision : Decision \union {"pending"}]

\* verdict: the decision in the title and the severity of a zero trust event.
Event == [status : EventStatus, identity : Identities \union {None},
          of : AccessRequests \union {None}, verdict : Decision \union {None}]

\* A request at work: what it has read is never read again.
Work == [kind : {"playbook", "deception", "trap", "evaluate"},
         stage : {"check", "event", "identity", "record", "asset", "find", "trigger"},
         event : EventId \union {None}, action : Action \union {None},
         identity : Identities \union {None}, of : AccessRequests \union {None},
         sawStatus : IdentityStatus \union {None}, sawEvent : EventStatus \union {None},
         sawCount : Nat, decision : Decision \union {None}]

NewWork == [kind |-> "trap", stage |-> "asset", event |-> None, action |-> None,
            identity |-> None, of |-> None, sawStatus |-> None, sawEvent |-> None,
            sawCount |-> 0, decision |-> None]

\* None is neither a row nor the number of one.
ASSUME NoneAssumption == None \notin Event \union AccessRequest \union Work \union EventId

ResponseTypeOK ==
    /\ status \in [Identities -> IdentityStatus]
    /\ access \in [AccessRequests -> AccessRequest \union {None}]
    /\ event \in [EventId -> Event \union {None}]
    /\ executed \in [EventId -> [Action -> Nat]]
    /\ triggerCount \in Nat /\ triggers \in Nat
    /\ work \in [Handlers -> Work \union {None}]
    /\ responses \in 0..MaxResponses /\ stops \in 0..MaxStops
    /\ crossed \subseteq {"playbook", "deception", "evaluate"}
    /\ freed \subseteq Identities /\ undecided \subseteq AccessRequests

ResponseInit ==
    /\ status = [i \in Identities |-> "active"]
    /\ access = [r \in AccessRequests |-> None]
    /\ event = [e \in EventId |-> None]
    /\ executed = [e \in EventId |-> [a \in Action |-> 0]]
    /\ triggerCount = 0 /\ triggers = 0
    /\ work = [h \in Handlers |-> None] /\ responses = 0 /\ stops = 0
    /\ crossed = {} /\ freed = {} /\ undecided = {}

-----------------------------------------------------------------------------
Busy == {h \in Handlers : work[h] # None}
Doing(h, kind, stage) == h \in Busy /\ work[h].kind = kind /\ work[h].stage = stage

\* A simulated access reads the count that traps and other accesses change.
Crossing(kind) ==
    CASE kind = "trap"      -> \E q \in Busy : work[q].kind = "deception"
      [] kind = "deception" -> \E q \in Busy : work[q].kind \in {"deception", "trap"}
      [] OTHER              -> \E q \in Busy : work[q].kind = kind

Begin(h, w) ==
    /\ h \notin Busy /\ responses < MaxResponses
    /\ responses' = responses + 1
    /\ work' = [work EXCEPT ![h] = w]
    /\ crossed' = IF Crossing(w.kind)
                  THEN crossed \union {IF w.kind = "trap" THEN "deception" ELSE w.kind}
                  ELSE crossed
    /\ UNCHANGED <<stops, undecided>>

GoTo(h, stage) == work' = [work EXCEPT ![h].stage = stage]
Done(h)        == work' = [work EXCEPT ![h] = None]

FreeEvents == {e \in EventId : event[e] = None}

CreateEvent(row) ==
    \E e \in FreeEvents :
       /\ \A f \in FreeEvents : e <= f
       /\ event' = [event EXCEPT ![e] = row]

SetStatus(i, s) ==
    /\ status' = [status EXCEPT ![i] = s]
    /\ freed' = IF status[i] = "isolated" /\ s # "isolated" THEN freed \union {i} ELSE freed

-----------------------------------------------------------------------------
(* The analyst *)

CreateAccessRequest(r, i) ==
    /\ access[r] = None
    /\ access' = [access EXCEPT ![r] = [identity |-> i, decision |-> "pending"]]
    /\ UNCHANGED <<status, event, executed, evidence, work, budget, pastOf, freed>>

UpdateIdentityStatus(i, s) ==
    /\ responses < MaxResponses /\ responses' = responses + 1
    /\ SetStatus(i, s)
    /\ UNCHANGED <<access, event, executed, evidence, work, stops, pastOf>>

UpdateEventStatus(e, s) ==
    /\ event[e] # None /\ event[e].status # s
    /\ responses < MaxResponses /\ responses' = responses + 1
    /\ event' = [event EXCEPT ![e].status = s]
    /\ UNCHANGED <<status, access, executed, evidence, work, stops, pastOf, freed>>

-----------------------------------------------------------------------------
(* executePlaybookWithEngine *)

\* runSoarPlaybook, of the status that was read.
StatusAfter(s, a) ==
    CASE a = "isolate_identity" -> "contained"
      [] a = "mark_resolved"    -> "resolved"
      [] a = "revoke_token"     -> IF s = "open" THEN "investigating" ELSE s

Playbook(h, e, a) ==
    /\ event[e] # None
    /\ Begin(h, [NewWork EXCEPT !.kind = "playbook", !.stage = "check", !.event = e,
                    !.action = a, !.identity = event[e].identity, !.sawEvent = event[e].status,
                    !.sawStatus = IF event[e].identity = None THEN None
                                  ELSE status[event[e].identity]])
    /\ UNCHANGED <<status, access, event, executed, evidence, freed>>

\* An action that was executed before is not repeated.
PlaybookCheck(h) ==
    /\ Doing(h, "playbook", "check")
    /\ IF executed[work[h].event][work[h].action] > 0 THEN Done(h) ELSE GoTo(h, "event")
    /\ UNCHANGED <<status, access, event, executed, evidence, budget, pastOf, freed>>

\* Mutation: the execution is recorded before it has taken effect.
MutPlaybookEvent(h) ==
    LET w == work[h]
    IN /\ Doing(h, "playbook", "event")
       /\ event' = [event EXCEPT ![w.event].status = StatusAfter(w.sawEvent, w.action)]
       /\ executed' = [executed EXCEPT ![w.event][w.action] = @ + 1]
       /\ GoTo(h, IF w.identity = None \/ w.action = "mark_resolved"
                  THEN "record" ELSE "identity")
       /\ UNCHANGED <<status, access, evidence, budget, pastOf, freed>>

PlaybookEvent(h) ==
    LET w == work[h]
    IN /\ Doing(h, "playbook", "event")
       /\ event' = [event EXCEPT ![w.event].status = StatusAfter(w.sawEvent, w.action)]
       /\ GoTo(h, IF w.identity = None \/ w.action = "mark_resolved"
                  THEN "record" ELSE "identity")
       /\ UNCHANGED <<status, access, executed, evidence, budget, pastOf, freed>>

\* Mutation: whatever was read, the identity becomes suspicious.
MutStillIsolated(saw) == "suspicious"

\* An identity that was read as isolated stays so.
StillIsolated(saw) == IF saw = "isolated" THEN "isolated" ELSE "suspicious"

PlaybookIdentity(h) ==
    LET w == work[h]
    IN /\ Doing(h, "playbook", "identity")
       /\ SetStatus(w.identity, IF w.action = "isolate_identity" THEN "isolated"
                                ELSE StillIsolated(w.sawStatus))
       /\ GoTo(h, "record")
       /\ UNCHANGED <<access, event, executed, evidence, budget, pastOf>>

PlaybookRecord(h) ==
    /\ Doing(h, "playbook", "record")
    /\ executed' = [executed EXCEPT ![work[h].event][work[h].action] = @ + 1]
    /\ Done(h)
    /\ UNCHANGED <<status, access, event, evidence, budget, pastOf, freed>>

-----------------------------------------------------------------------------
(* simulateDeceptionAccessWithEngine, triggerTrapForRequest *)

Deception(h) ==
    /\ Begin(h, [NewWork EXCEPT !.kind = "deception", !.stage = "find",
                                !.sawCount = triggerCount])
    /\ UNCHANGED <<status, access, event, executed, evidence, freed>>

\* The identity of the request, or the most anomalous one.
DeceptionFind(h) ==
    /\ Doing(h, "deception", "find")
    /\ \E i \in Identities :
          work' = [work EXCEPT ![h].stage = "identity", ![h].identity = i,
                               ![h].sawStatus = status[i]]
    /\ UNCHANGED <<status, access, event, executed, evidence, budget, pastOf, freed>>

DeceptionIdentity(h) ==
    /\ Doing(h, "deception", "identity")
    /\ SetStatus(work[h].identity, StillIsolated(work[h].sawStatus))
    /\ GoTo(h, "asset")
    /\ UNCHANGED <<access, event, executed, evidence, budget, pastOf>>

\* The count is written back, one higher than it was read.
DeceptionAsset(h) ==
    /\ Doing(h, "deception", "asset")
    /\ triggerCount' = work[h].sawCount + 1
    /\ GoTo(h, "event")
    /\ UNCHANGED <<status, access, event, executed, triggers, budget, pastOf, freed>>

Trap(h) ==
    /\ Begin(h, NewWork)
    /\ UNCHANGED <<status, access, event, executed, evidence, freed>>

TrapAsset(h) ==
    /\ Doing(h, "trap", "asset")
    /\ triggerCount' = triggerCount + 1
    /\ GoTo(h, "event")
    /\ UNCHANGED <<status, access, event, executed, triggers, budget, pastOf, freed>>

TriggerEvent(h) ==
    /\ Doing(h, "trap", "event") \/ Doing(h, "deception", "event")
    /\ CreateEvent([status |-> "open", identity |-> work[h].identity, of |-> None,
                    verdict |-> None])
    /\ GoTo(h, "trigger")
    /\ UNCHANGED <<status, access, executed, evidence, budget, pastOf, freed>>

TriggerRow(h) ==
    /\ Doing(h, "trap", "trigger") \/ Doing(h, "deception", "trigger")
    /\ triggers' = triggers + 1
    /\ Done(h)
    /\ UNCHANGED <<status, access, event, executed, triggerCount, budget, pastOf, freed>>

-----------------------------------------------------------------------------
(* evaluateAccessRequestWithEngine *)

\* The score abstracted: an isolated identity is always isolated again, for any other
\* the request, the asset and the related events may give any decision.
Evaluate(h, r, d) ==
    /\ access[r] # None
    /\ status[access[r].identity] = "isolated" => d = "isolate"
    /\ Begin(h, [NewWork EXCEPT !.kind = "evaluate", !.stage = "record", !.of = r,
                    !.decision = d, !.identity = access[r].identity,
                    !.sawStatus = status[access[r].identity]])
    /\ UNCHANGED <<status, access, event, executed, evidence, freed>>

Decides(h) ==
    LET w == work[h]
    IN /\ Doing(h, "evaluate", "record")
       /\ access' = [access EXCEPT ![w.of].decision = w.decision]
       /\ IF w.decision = "allow"
          THEN Done(h) /\ undecided' = undecided \ {w.of}
          ELSE GoTo(h, "find") /\ UNCHANGED undecided
       /\ UNCHANGED <<status, event, executed, evidence, budget, crossed, freed>>

EventsOf(r) == {e \in EventId : event[e] # None /\ event[e].of = r}

\* Mutation: every evaluation creates an event.
MutFindEvent(h) ==
    /\ Doing(h, "evaluate", "find")
    /\ GoTo(h, "event")
    /\ UNCHANGED <<status, access, event, executed, evidence, budget, pastOf, freed>>

\* The latest event of the access request is updated, if there is one.
FindEvent(h) ==
    LET found == EventsOf(work[h].of)
    IN /\ Doing(h, "evaluate", "find")
       /\ work' = [work EXCEPT ![h].stage = "event",
                      ![h].event = IF found = {} THEN None
                                   ELSE CHOOSE e \in found : \A f \in found : f <= e]
       /\ UNCHANGED <<status, access, event, executed, evidence, budget, pastOf, freed>>

DecisionEvent(h) ==
    LET w == work[h]
        row == [status |-> IF w.decision = "isolate" THEN "contained" ELSE "investigating",
                identity |-> w.identity, of |-> w.of, verdict |-> w.decision]
    IN /\ Doing(h, "evaluate", "event")
       /\ IF w.event = None THEN CreateEvent(row) ELSE event' = [event EXCEPT ![w.event] = row]
       /\ undecided' = undecided \ {w.of}
       /\ Done(h)
       /\ UNCHANGED <<status, access, executed, evidence, budget, crossed, freed>>

-----------------------------------------------------------------------------
\* A statement fails or the process dies: what is written stays.
Stop(h) ==
    /\ h \in Busy /\ stops < MaxStops
    /\ stops' = stops + 1
    /\ undecided' = IF work[h].kind = "evaluate" THEN undecided \union {work[h].of}
                    ELSE undecided
    /\ Done(h)
    /\ UNCHANGED <<status, access, event, executed, evidence, responses, crossed, freed>>

ResponseNext ==
    \/ \E i \in Identities :
          \/ \E s \in IdentityStatus : UpdateIdentityStatus(i, s)
          \/ \E r \in AccessRequests : CreateAccessRequest(r, i)
    \/ \E e \in EventId, s \in EventStatus : UpdateEventStatus(e, s)
    \/ \E h \in Handlers :
          \/ \E e \in EventId, a \in Action : Playbook(h, e, a)
          \/ PlaybookCheck(h) \/ PlaybookEvent(h) \/ PlaybookIdentity(h) \/ PlaybookRecord(h)
          \/ Deception(h) \/ DeceptionFind(h) \/ DeceptionIdentity(h) \/ DeceptionAsset(h)
          \/ Trap(h) \/ TrapAsset(h) \/ TriggerEvent(h) \/ TriggerRow(h)
          \/ \E r \in AccessRequests, d \in Decision : Evaluate(h, r, d)
          \/ Decides(h) \/ FindEvent(h) \/ DecisionEvent(h)
          \/ Stop(h)

ResponseSpec == ResponseInit /\ [][ResponseNext]_responseVars

-----------------------------------------------------------------------------
(* Properties *)

\* An isolated identity is released only by the analyst, or by a request that had read
\* it before it was isolated: no engine takes an isolation back on its own.
Releases(i) ==
    \/ \E s \in IdentityStatus : UpdateIdentityStatus(i, s)
    \/ \E h \in Busy : work[h].identity = i /\ work[h].sawStatus # "isolated"
                       /\ work'[h] # work[h]

IsolationHolds ==
    [][\A i \in Identities :
          status[i] = "isolated" /\ status'[i] # "isolated" => Releases(i)]_responseVars

\* A playbook that is recorded as completed has taken effect, whatever stopped half-way
\* before: the identity it was to isolate is isolated, unless it was released since.
PlaybookTookEffect ==
    \A e \in EventId : event[e] # None /\ executed[e]["isolate_identity"] > 0 =>
        \/ event[e].identity = None
        \/ status[event[e].identity] = "isolated"
        \/ event[e].identity \in freed

\* Requests that do not overlap leave one record each, also when they are repeated after
\* one that stopped: a playbook action is recorded once, a refused access request has one
\* event and it shows the decision, and no trigger is missing from the count.
RecordedOnce ==
    /\ "playbook" \notin crossed => \A e \in EventId, a \in Action : executed[e][a] <= 1
    /\ "deception" \notin crossed => triggers <= triggerCount
    /\ "evaluate" \notin crossed =>
          \A r \in AccessRequests :
             /\ Cardinality(EventsOf(r)) <= 1
             /\ (/\ access[r] # None /\ access[r].decision \in {"deny", "isolate"}
                 /\ r \notin undecided
                 /\ \A h \in Busy : work[h].kind = "evaluate" => work[h].of # r)
                => \E e \in EventsOf(r) : event[e].verdict = access[r].decision
=============================================================================
