----------------------------- MODULE MCServices -----------------------------
(***************************************************************************)
(* Four parts of the server, each on its own small instance: the initial   *)
(* state says which of them runs.                                          *)
(***************************************************************************)
EXTENDS Response, Domains, RateLimit, RiskEngines

CONSTANTS i1, r1, h1, h2, n1, z1, z2, t1, t2, w1, q1, q2, k1, k2, g1, g2

VARIABLE part

servicesVars == <<part, responseVars, domainVars, rateVars, riskVars>>

\* Two access requests: an export on an otherwise calm day, and a doubtful reader.
Calm     == [mfa |-> TRUE, device |-> "trusted", action |-> "read", location |-> "low",
             time |-> "normal", anomaly |-> 60]
Export   == [Calm EXCEPT !.action = "export"]
Doubtful == [Calm EXCEPT !.mfa = FALSE, !.device = "compromised", !.location = "medium",
                         !.time = "elevated"]
MCSignals == {Export, Doubtful}

ServicesInit ==
    /\ part \in {"response", "domains", "rate", "risk"}
    /\ ResponseInit /\ DomainsInit /\ RateInit /\ RiskInit
    /\ part # "domains" => owned = {} /\ secured = {}
    /\ part # "rate" => production
    /\ ask[k1].signals = Export /\ ask[k2].signals = Doubtful /\ weight = 14
    /\ asset.decoy => asset.class = "internal"
    /\ part # "risk" => asset.class = "internal" /\ ~asset.decoy /\ profile.mfa

ServicesNext ==
    \/ part = "response" /\ ResponseNext /\ UNCHANGED <<part, domainVars, rateVars, riskVars>>
    \/ part = "domains" /\ DomainsNext /\ UNCHANGED <<part, responseVars, rateVars, riskVars>>
    \/ part = "rate" /\ RateNext /\ UNCHANGED <<part, responseVars, domainVars, riskVars>>
    \/ part = "risk" /\ RiskNext /\ UNCHANGED <<part, responseVars, domainVars, rateVars>>

ServicesSpec ==
    ServicesInit /\ [][ServicesNext]_servicesVars /\ (part = "rate" => RateFairness)

\* WindowsReopen, where the limits run: whoever keeps asking is let through again and
\* again by every window (rate-limit.ts).
RateWindowsReopen == part = "rate" => WindowsReopen
=============================================================================
