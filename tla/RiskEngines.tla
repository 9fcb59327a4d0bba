---------------------------- MODULE RiskEngines ----------------------------
(***************************************************************************)
(* The scores of one asset and of the access requests for it               *)
(* (risk-engine.service.ts, zero-trust-engine.service.ts and the functions *)
(* they call, data-asset-service.ts).  Each engine reads what the other    *)
(* writes: a decision raises an event, events raise the risk of the asset, *)
(* the risk of the asset hardens decisions, and a high risk raises an      *)
(* event again.  Nothing is locked: a request reads, waits and writes.     *)
(*                                                                         *)
(* Points are hundredths where the code multiplies by fractions.  What no  *)
(* statement changes after an asset is created (backup, access load,       *)
(* anonymization) counts as in createDataAsset: it adds nothing.  The      *)
(* alarms of deception assets, which have names of their own, are not      *)
(* about the asset and add nothing to its risk.                            *)
(***************************************************************************)
EXTENDS Naturals, FiniteSets

CONSTANTS
    Asks,        \* access requests
    Engines,     \* requests at work
    Idle,
    Classes, Exposures, Locations, Types,   \* of the asset, of the identity, those tried
    Signals,     \* what an access request may carry, those tried
    Weights,     \* openCriticalEventWeight, those tried
    OtherKinds,     \* categories of the events raised by others, those tried
    MaxAlerts,   \* bound: security events
    MaxTurns,    \* bound: requests started
    MaxMoves     \* bound: changes made by others, requests that stop half-way

ASSUME RiskAssumption ==
    /\ Idle \notin Asks \union {"asset"} /\ "asset" \notin Asks
    /\ MaxAlerts \in Nat /\ MaxTurns \in Nat /\ MaxMoves \in Nat

VARIABLES
    asset, profile,   \* the asset and the identity that asks for it
    ask,              \* ask[k]: an access request
    alert,            \* alert[e]: a security event about them, or Idle
    weight,           \* openCriticalEventWeight of the risk policy
    engine,           \* engine[g]: what a request does, or Idle
    turns, moves,
    (* History *)
    moved,            \* whose inputs others have changed since it was last scored
    last              \* what was scored last, alone and with nothing changed since

riskVars == <<asset, profile, ask, alert, weight, engine, turns, moves, moved, last>>
bounds   == <<turns, moves>>

-----------------------------------------------------------------------------
Level    == {"low", "medium", "high", "critical"}
Severity == Level
Category == {"impossible_travel", "deception_triggered", "privilege_escalation", "other"}
Rank     == [allow |-> 0, limited_allow |-> 1, require_step_up_auth |-> 2, deny |-> 3,
             isolate |-> 4]

AlertId == 1..MaxAlerts
Subject == Asks \union {"asset"}

Asset == [class : Classes, exposure : Exposures, location : Locations, encrypted : BOOLEAN,
          kms : BOOLEAN, scoped : BOOLEAN, decoy : BOOLEAN, score : 0..100, level : Level]
Profile == [type : Types, mfa : BOOLEAN,
            status : {"active", "watchlist", "suspicious", "isolated"}]
AskRow == [signals : Signals, decision : DOMAIN Rank \union {Idle}]
\* by: what ties it to the asset or to the identity; target: the name of the asset.
Alert == [severity : Severity, category : Category, of : Asks \union {Idle},
          by : {"asset", "identity", "target"},
          status : {"open", "investigating", "contained", "resolved", "false_positive"}]

\* alone: nothing else has happened since it began; again: nor since the same was
\* scored before.
Engine == [kind : {"recalculate", "evaluate", "update"}, subject : Subject,
           stage : {"events", "write", "find", "event"}, saw : Asset, who : Profile,
           score : 0..100, decision : DOMAIN Rank \union {Idle}, found : AlertId \union {Idle},
           alone : BOOLEAN, again : BOOLEAN]

\* What the schemas of access requests and of the risk policy accept.
Signal == [mfa : BOOLEAN, device : {"trusted", "managed", "unknown", "compromised"},
           action : {"read", "write", "export", "delete", "admin"},
           location : {"low", "medium", "high"}, time : {"normal", "elevated", "off_hours"},
           anomaly : 0..100]

ASSUME InputAssumption ==
    /\ Classes \subseteq {"public", "internal", "confidential", "sensitive", "critical"}
    /\ Exposures \subseteq {"internal", "shared", "public", "unknown"}
    /\ Signals \subseteq Signal /\ Weights \subseteq 0..100 /\ OtherKinds \subseteq Category

\* Idle stands for no request at work, no event and no decision.
ASSUME IdleAssumption == Idle \notin Engine \union Alert \union AlertId \union DOMAIN Rank

RiskTypeOK ==
    /\ asset \in Asset /\ profile \in Profile /\ weight \in Weights
    /\ ask \in [Asks -> AskRow]
    /\ alert \in [AlertId -> Alert \union {Idle}]
    /\ engine \in [Engines -> Engine \union {Idle}]
    /\ turns \in 0..MaxTurns /\ moves \in 0..MaxMoves
    /\ moved \subseteq Subject /\ last \in Subject \union {Idle}

-----------------------------------------------------------------------------
(* Scores *)

Points(condition, n) == IF condition THEN n ELSE 0
Clamp(n)   == IF n > 100 THEN 100 ELSE n
Rounded(n) == (n + 50) \div 100

Sensitive(a) == a.class \in {"sensitive", "critical"}

\* The events an engine looks up
Related(ways) == [e \in AlertId |-> IF alert[e] # Idle /\ alert[e].by \in ways THEN alert[e]
                                   ELSE Idle]

\* Severe: open events of critical severity; false positives count as open.
OpenIn(alerts)     == {e \in AlertId : alerts[e] # Idle /\ alerts[e].status # "resolved"}
Severe(alerts)     == {e \in AlertId : alerts[e] # Idle /\ alerts[e].severity = "critical"}
OpenSevere(alerts) == Cardinality(OpenIn(alerts) \intersect Severe(alerts))
Kinds(alerts)      == {alerts[e].category : e \in {f \in AlertId : alerts[f] # Idle}}

\* calculateAssetRisk of lib/risk-engine.ts
BaseRisk(a, alerts) ==
    IF a.decoy THEN 18
    ELSE LET class == [public |-> 4, internal |-> 12, confidential |-> 26,
                       sensitive |-> 42, critical |-> 58]
         IN Clamp(class[a.class]
                  + Points(a.location = "public_cloud" /\ Sensitive(a), 14)
                  + Points(a.location = "saas" /\ a.scoped, 10)
                  + Points(~a.encrypted, 18) + Points(~a.kms, 10) + Points(a.scoped, 8)
                  + 3 * Cardinality(OpenIn(alerts)) + 6 * Cardinality(Severe(alerts)))

\* buildPolicyAdjustedRisk, with the weights a workspace starts with but for one
AssetRisk(a, alerts, w) ==
    Clamp(Rounded(100 * BaseRisk(a, alerts)
                  + Points(a.class = "critical", 24 * 14) + Points(~a.encrypted, 18 * 18)
                  + Points(~a.kms, 12 * 16)
                  + Points(a.location = "public_cloud" /\ Sensitive(a), 16 * 18)
                  + Points(a.scoped, 400) + 20 * w * OpenSevere(alerts)))

\* The engine and the inventory do not agree on the levels.
LevelAt(score, critical, high, medium) ==
    IF score >= critical THEN "critical"
    ELSE IF score >= high THEN "high" ELSE IF score >= medium THEN "medium" ELSE "low"
EngineLevel(score)    == LevelAt(score, 80, 60, 35)
InventoryLevel(score) == LevelAt(score, 75, 50, 25)

\* buildRiskFields, of lib/security-risk-scoring.ts: events are not counted
InventoryRisk(a) ==
    LET class    == [public |-> 4, internal |-> 10, confidential |-> 22, sensitive |-> 34,
                     critical |-> 46]
        exposure == [internal |-> 0, shared |-> 14, public |-> 24, unknown |-> 10]
    IN Clamp(class[a.class] + exposure[a.exposure] + Points(a.location = "public_cloud", 8)
             + Points(~a.encrypted, 14) + Points(~a.kms, 9) + Points(a.scoped, 5)
             + Points(a.decoy, 6))

HighImpact(s) == s.action \in {"export", "delete", "admin"}

\* evaluateZeroTrustRequest
TrustScore(s, a, p, kinds) ==
    LET class    == [public |-> 4, internal |-> 10, confidential |-> 18, sensitive |-> 28,
                     critical |-> 38]
        device   == [trusted |-> 0, managed |-> 0, unknown |-> 12, compromised |-> 26]
        location == [low |-> 0, medium |-> 8, high |-> 16]
        time     == [normal |-> 0, elevated |-> 6, off_hours |-> 12]
        noMfa    == ~s.mfa \/ ~p.mfa
        points   == class[a.class] + device[s.device] + location[s.location] + time[s.time]
                    + Points(noMfa, 18) + Points(HighImpact(s), 18)
                    + Points(noMfa /\ a.class = "critical", 20)
                    + Points(p.type = "third_party", 14)
                    + Points(p.type = "third_party" /\ Sensitive(a), 12)
                    + Points(p.type = "service", 8)
                    + Points(p.type = "service" /\ s.anomaly >= 72, 14)
                    + Points("impossible_travel" \in kinds, 14)
                    + Points("deception_triggered" \in kinds, 18)
                    + Points("privilege_escalation" \in kinds, 16)
    IN IF a.decoy THEN 99 ELSE Clamp(Rounded(100 * points + 35 * s.anomaly))

\* What evaluateAccessRequestWithEngine adds
AccessRisk(s, a, p, alerts, w) ==
    LET standing == [active |-> 0, watchlist |-> 8, suspicious |-> 18]
        each     == IF Rounded(18 * w) < 2 THEN 2 ELSE Rounded(18 * w)
    IN Clamp((IF p.status = "isolated" THEN 99
              ELSE TrustScore(s, a, p, Kinds(alerts)) + standing[p.status])
             + Points(a.score >= 60, 8) + Points(a.score >= 80, 6)
             + Points(a.scoped /\ HighImpact(s), 12)
             + Points(~p.mfa /\ a.class = "critical", 10)
             + each * OpenSevere(alerts)
             + Points(s.action = "export" /\ a.class = "critical", 10))

DecisionAt(score) ==
    IF score >= 92 THEN "isolate" ELSE IF score >= 76 THEN "deny"
    ELSE IF score >= 56 THEN "require_step_up_auth"
    ELSE IF score >= 34 THEN "limited_allow" ELSE "allow"

Verdict(s, a, p, alerts, w) ==
    IF a.decoy \/ p.status = "isolated" THEN "isolate"
    ELSE DecisionAt(AccessRisk(s, a, p, alerts, w))

-----------------------------------------------------------------------------
\* createDataAsset
Registered(class, exposure, location, decoy) ==
    LET a == [class |-> class, exposure |-> exposure, location |-> location,
              encrypted |-> exposure # "public", kms |-> class \in {"critical", "sensitive"},
              scoped |-> class \in {"critical", "sensitive"}, decoy |-> decoy,
              score |-> 0, level |-> "low"]
    IN [a EXCEPT !.score = InventoryRisk(a), !.level = InventoryLevel(InventoryRisk(a))]

AssetAlert(level) ==
    [severity |-> level, category |-> "other", of |-> Idle, by |-> "asset", status |-> "open"]

RiskInit ==
    /\ \E c \in Classes, x \in Exposures, l \in Locations, d \in BOOLEAN :
          asset = Registered(c, x, l, d)
    /\ profile \in {q \in Profile : q.status = "active"}
    /\ ask \in [Asks -> {[signals |-> s, decision |-> Idle] : s \in Signals}]
    /\ alert = [e \in AlertId |-> IF e = 1 /\ asset.level \in {"high", "critical"}
                                  THEN AssetAlert(asset.level) ELSE Idle]
    /\ weight \in Weights
    /\ engine = [g \in Engines |-> Idle]
    /\ turns = 0 /\ moves = 0
    /\ moved = Subject /\ last = Idle

-----------------------------------------------------------------------------
Working    == {g \in Engines : engine[g] # Idle}
Does(g, kind, stage) == g \in Working /\ engine[g].kind = kind /\ engine[g].stage = stage
Disturbed(all) == [g \in Engines |-> IF all[g] = Idle THEN Idle
                                     ELSE [all[g] EXCEPT !.alone = FALSE, !.again = FALSE]]

\* A request that begins disturbs those at work.
Start(g, kind, subject) ==
    /\ g \notin Working /\ turns < MaxTurns
    /\ turns' = turns + 1
    /\ engine' = [Disturbed(engine) EXCEPT ![g] =
         [kind |-> kind, subject |-> subject, stage |-> "events", saw |-> asset,
          who |-> profile, score |-> 0, decision |-> Idle, found |-> Idle,
          alone |-> Working = {}, again |-> Working = {} /\ last = subject]]
    /\ UNCHANGED <<moves, moved, last>>

ToStage(g, stage) == engine' = [engine EXCEPT ![g].stage = stage]

FinishAs(g, settled) ==
    /\ engine' = [engine EXCEPT ![g] = Idle]
    /\ last' = IF engine[g].alone /\ settled THEN engine[g].subject ELSE Idle
Finish(g) == FinishAs(g, TRUE)

\* What g scores is written: others' scores fall behind when it makes them fall.
Scored(g, others) ==
    moved' = (IF engine[g].alone THEN moved \ {engine[g].subject}
              ELSE moved \union {engine[g].subject}) \union others

FreeAlerts == {e \in AlertId : alert[e] = Idle}
Raise(row) == \E e \in FreeAlerts : /\ \A f \in FreeAlerts : e <= f
                                    /\ alert' = [alert EXCEPT ![e] = row]

-----------------------------------------------------------------------------
(* recalculateAssetRisk *)

Recalculate(g) ==
    Start(g, "recalculate", "asset") /\ UNCHANGED <<asset, profile, ask, alert, weight>>

RecalculateRead(g) ==
    /\ Does(g, "recalculate", "events")
    /\ engine' = [engine EXCEPT ![g].stage = "write",
                                ![g].score =
             AssetRisk(engine[g].saw, Related({"asset", "target"}), weight)]
    /\ UNCHANGED <<asset, profile, ask, alert, weight, bounds, moved, last>>

Alarming(level) == level \in {"high", "critical"}

RecalculateWrite(g) ==
    LET score == engine[g].score
    IN /\ Does(g, "recalculate", "write")
       /\ asset' = [asset EXCEPT !.score = score, !.level = EngineLevel(score)]
       /\ Scored(g, IF score < asset.score THEN Asks ELSE {})
       /\ IF Alarming(EngineLevel(score)) THEN ToStage(g, "event") /\ UNCHANGED last
          ELSE Finish(g)
       /\ UNCHANGED <<profile, ask, alert, weight, bounds>>

\* Also of an update of the inventory.
AlarmRaised(g) ==
    /\ Does(g, "recalculate", "event") \/ Does(g, "update", "event")
    /\ Raise(AssetAlert(IF engine[g].kind = "update" THEN InventoryLevel(engine[g].score)
                        ELSE EngineLevel(engine[g].score)))
    /\ Finish(g)
    /\ UNCHANGED <<asset, profile, ask, weight, bounds, moved>>

-----------------------------------------------------------------------------
(* evaluateAccessRequestWithEngine *)

Evaluation(g, k) ==
    /\ Start(g, "evaluate", k)
    /\ UNCHANGED <<asset, profile, ask, alert, weight>>

EvaluateRead(g) ==
    LET w == engine[g]
    IN /\ Does(g, "evaluate", "events")
       /\ engine' = [engine EXCEPT ![g].stage = "write",
             ![g].decision = Verdict(ask[w.subject].signals, w.saw, w.who,
                                     Related({"asset", "identity"}), weight)]
       /\ UNCHANGED <<asset, profile, ask, alert, weight, bounds, moved, last>>

EvaluateWrite(g) ==
    LET w == engine[g]
    IN /\ Does(g, "evaluate", "write")
       /\ ask' = [ask EXCEPT ![w.subject].decision = w.decision]
       /\ Scored(g, {})
       /\ IF Rank[w.decision] < 2 THEN Finish(g) ELSE ToStage(g, "find") /\ UNCHANGED last
       /\ UNCHANGED <<asset, profile, alert, weight, bounds>>

\* Mutation: the latest event is taken, whatever request it belongs to.
MutEventsFor(k) == {e \in AlertId : alert[e] # Idle}

EventsFor(k) == {e \in AlertId : alert[e] # Idle /\ alert[e].of = k}

EvaluateFind(g) ==
    LET found == EventsFor(engine[g].subject)
    IN /\ Does(g, "evaluate", "find")
       /\ engine' = [engine EXCEPT ![g].stage = "event",
             ![g].found = IF found = {} THEN Idle
                          ELSE CHOOSE e \in found : \A f \in found : f <= e]
       /\ UNCHANGED <<asset, profile, ask, alert, weight, bounds, moved, last>>

\* Mutation: a denied request counts as critical.
MutSeverityOf(decision) ==
    CASE decision \in {"isolate", "deny"} -> "critical"
      [] decision = "require_step_up_auth" -> "medium"

SeverityOf(decision) ==
    CASE decision = "isolate" -> "critical"
      [] decision = "deny"    -> "high"
      [] decision = "require_step_up_auth" -> "medium"

\* A milder decision takes back the severity of its own event, which it has counted
\* itself: the next evaluation may be milder still.
EvaluateEvent(g) ==
    LET w   == engine[g]
        row == [severity |-> SeverityOf(w.decision), of |-> w.subject, by |-> "asset",
                category |-> IF w.saw.decoy THEN "deception_triggered" ELSE "other",
                status |-> IF w.decision = "isolate" THEN "contained" ELSE "investigating"]
        takenBack == /\ w.found # Idle /\ alert[w.found].of = w.subject
                     /\ alert[w.found].severity = "critical" /\ row.severity # "critical"
    IN /\ Does(g, "evaluate", "event")
       /\ IF w.found = Idle THEN Raise(row) ELSE alert' = [alert EXCEPT ![w.found] = row]
       /\ moved' = IF takenBack THEN Subject ELSE moved
       /\ FinishAs(g, ~takenBack)
       /\ UNCHANGED <<asset, profile, ask, weight, bounds>>

-----------------------------------------------------------------------------
(* updateDataAsset *)

Update(g, class, exposure) ==
    LET a == [asset EXCEPT !.class = class, !.exposure = exposure]
    IN /\ g \notin Working /\ turns < MaxTurns
       /\ turns' = turns + 1
       /\ engine' = [Disturbed(engine) EXCEPT ![g] =
            [kind |-> "update", subject |-> "asset", stage |-> "write", saw |-> a,
             who |-> profile, score |-> InventoryRisk(a), decision |-> Idle, found |-> Idle,
             alone |-> FALSE, again |-> FALSE]]
       /\ UNCHANGED <<asset, profile, ask, alert, weight, moves, moved, last>>

UpdateWrite(g) ==
    LET w == engine[g]
    IN /\ Does(g, "update", "write")
       /\ asset' = [asset EXCEPT !.class = w.saw.class, !.exposure = w.saw.exposure,
                                 !.score = w.score, !.level = InventoryLevel(w.score)]
       /\ moved' = Subject
       /\ IF Alarming(InventoryLevel(w.score)) THEN ToStage(g, "event") /\ UNCHANGED last
          ELSE Finish(g)
       /\ UNCHANGED <<profile, ask, alert, weight, bounds>>

-----------------------------------------------------------------------------
(* Others *)

\* A change by an analyst, a playbook, an alarm, a simulation, or to the policy.
Change ==
    /\ moves < MaxMoves /\ moves' = moves + 1
    /\ engine' = Disturbed(engine)
    /\ moved' = Subject /\ last' = Idle
    /\ UNCHANGED <<asset, ask, turns>>

SetStanding(status) ==
    Change /\ profile' = [profile EXCEPT !.status = status] /\ UNCHANGED <<alert, weight>>

RequireMfa == Change /\ profile' = [profile EXCEPT !.mfa = TRUE] /\ UNCHANGED <<alert, weight>>

SetAlertStatus(e, status) ==
    /\ alert[e] # Idle /\ alert[e].status # status
    /\ alert' = [alert EXCEPT ![e].status = status]
    /\ Change /\ UNCHANGED <<profile, weight>>

\* An alarm of a deception asset about the identity; a finding of a security test about a target
\* with the asset's name.
OtherAlert(severity, category) ==
    /\ Raise([severity |-> severity, category |-> category, of |-> Idle, status |-> "open",
              by |-> IF category = "other" THEN "target" ELSE "identity"])
    /\ Change /\ UNCHANGED <<profile, weight>>

SetWeight(w) == Change /\ weight' = w /\ UNCHANGED <<profile, alert>>

\* A statement fails or the process dies.  A decision may be left without its event.
Halt(g) ==
    /\ g \in Working /\ moves < MaxMoves
    /\ moves' = moves + 1
    /\ engine' = [engine EXCEPT ![g] = Idle]
    /\ last' = Idle
    /\ UNCHANGED <<asset, profile, ask, alert, weight, turns, moved>>

RiskNext ==
    \/ \E g \in Engines :
          \/ Recalculate(g) \/ RecalculateRead(g) \/ RecalculateWrite(g) \/ AlarmRaised(g)
          \/ \E k \in Asks : Evaluation(g, k)
          \/ EvaluateRead(g) \/ EvaluateWrite(g) \/ EvaluateFind(g) \/ EvaluateEvent(g)
          \/ \E c \in Classes, x \in Exposures : Update(g, c, x)
          \/ UpdateWrite(g) \/ Halt(g)
    \/ \E s \in {"active", "suspicious", "isolated"} : SetStanding(s)
    \/ RequireMfa
    \/ \E e \in AlertId, s \in {"investigating", "resolved"} : SetAlertStatus(e, s)
    \/ \E s \in {"medium", "critical"}, c \in OtherKinds : OtherAlert(s, c)
    \/ \E w \in Weights : SetWeight(w)

RiskSpec == RiskInit /\ [][RiskNext]_riskVars

-----------------------------------------------------------------------------
(* Properties *)

\* The engines feed each other only upwards: however recalculations and evaluations
\* follow each other, the risk of the asset does not fall and no decision becomes milder
\* unless somebody else has changed something it is computed from, or requests overlap.
EnginesOnlyTighten ==
    [][/\ asset'.score < asset.score =>
            \/ "asset" \in moved
            \/ \E g \in Working : engine[g].subject = "asset" /\ ~engine[g].alone
       /\ \A k \in Asks :
            ask[k].decision # Idle /\ Rank[ask'[k].decision] < Rank[ask[k].decision] =>
               \/ k \in moved
               \/ \E g \in Working : engine[g].subject = k /\ ~engine[g].alone]_riskVars

\* Asking again changes nothing: an evaluation repeated with nothing in between decides
\* the same although it counts the event it has raised itself (unless it has just taken
\* back a critical event of its own), and a risk that raises no event stays as it is.
RepeatsAgree ==
    [][\A g \in Working : engine[g].again =>
          /\ engine[g].subject \in Asks =>
                ask'[engine[g].subject] = ask[engine[g].subject]
          /\ engine[g].subject = "asset" /\ ~Alarming(asset.level) =>
                asset'.score = asset.score]_riskVars
=============================================================================
