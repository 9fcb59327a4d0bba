---------------------------- MODULE ConsoleStore ----------------------------
(***************************************************************************)
(* The browser's store, src/store/security-console-store.ts, with an       *)
(* abstract server behind it: one tab, whose operations are asynchronous   *)
(* and overlap.  Between two awaits an operation runs alone; every await   *)
(* is a stage of it, and its request may be served, answered or lost.      *)
(*                                                                         *)
(* Data are the writes they contain: part p of the environment (assets,    *)
(* events, requests, ...) is where it comes from, whose it is, and the     *)
(* writes that it shows.  Toasts, notifications, the audit log, the        *)
(* settings, the steps of the demo and what the views have selected are    *)
(* left out; a failed getAuditLogs or getSettings does not fail a          *)
(* hydration either.                                                       *)
(***************************************************************************)
EXTENDS Naturals, FiniteSets

CONSTANTS
    Users,      \* accounts
    Custom,     \* demo accounts restored from the tab's storage
    Exempt,     \* users signed in without a second factor: the operator's admin
    Parts,      \* collections of an environment
    Optional,   \* those that a hydration may do without: the simulations and their runs
    Foundation, \* those that no hydration reads: policy rules, threats, controls, layers, ...
    Derived,    \* those that deriveEnvironment works out: the events in order, and the risks,
                \* evaluations, compliance and reports that follow from them
    Keys,       \* the writing operations, by the indicator that they switch on
    Ops,        \* operations under way
    None,
    MaxActs,    \* bound: operations started, pages loaded, cookies expired
    MaxWrites   \* bound: writes asked for

ASSUME StoreAssumption ==
    /\ Custom \subseteq Users /\ Exempt \subseteq Users \ Custom
    /\ Keys \subseteq {"accessRequest", "events", "settings", "simulation"}
    /\ Optional \subseteq Parts /\ Foundation \subseteq Parts \ Optional
    /\ Derived \subseteq Parts \ (Optional \union Foundation)
    /\ MaxActs \in Nat /\ MaxWrites \in Nat
    /\ None \notin Users \union Keys \union Parts

VARIABLES
    (* The server *)
    cookie,     \* the session of the browser: user and second factor, or None
    db,         \* db[u][p]: the writes to part p committed for u
    (* The tab *)
    allow,      \* ALLOW_LOCAL_AUTH_FALLBACK, fixed by the build
    env,        \* env[p]: part p of currentEnvironment
    auth,       \* currentMeta.auth
    stored,     \* the auth in sessionStorage, or None
    isApiMode, demoMode, isHydrating, apiError,
    loading,    \* operationLoading: the indicators that are on
    (* Operations and bounds *)
    op, acts, writes,
    (* History *)
    shown,      \* writes the user was told are saved
    tangled,    \* two hydrations have overlapped
    switched    \* a change of the session crossed a hydration or another change

serverVars == <<cookie, db>>
metaVars   == <<isApiMode, demoMode, isHydrating, apiError, loading>>
authVars   == <<auth, stored>>
history    == <<shown, tangled, switched>>
storeVars  == <<cookie, db, allow, env, auth, stored, isApiMode, demoMode, isHydrating,
                apiError, loading, op, acts, writes, shown, tangled, switched>>

-----------------------------------------------------------------------------
Write == 1..MaxWrites

Session == [user : Users, full : BOOLEAN]

\* full: is2FAVerified or twoFactorExempt; asks: requiresTwoFactor.
Auth == [hydrated : BOOLEAN, user : Users \union {None}, full : BOOLEAN, asks : BOOLEAN]
NoAuth == [hydrated |-> FALSE, user |-> None, full |-> FALSE, asks |-> FALSE]
SignedOut == [NoAuth EXCEPT !.hydrated = TRUE]

\* from: the sample data, the server, a local change that allowDemoFallback lets pass, or
\* one that does not ask ("unguarded").
Part == [from : {"mock", "server", "local", "unguarded"}, of : Users \union {None},
         has : SUBSET Write]
Sample(from) == [p \in Parts |-> [from |-> from, of |-> None, has |-> {}]]

Kind == {"boot", "login", "verify", "logout", "onboard", "refresh", "write"}

\* An operation: its stage, its answer from the server, and what it has read so far.
Op == [kind : Kind, stage : {"asked", "served", "reading"}, key : Keys \union {None},
       part : Parts \union {None}, write : Write \union {0}, user : Users \union {None},
       answer : Session \union {None}, stored : Auth \union {None},
       got : [Parts -> Part \union {None}]]

\* None stands for no operation, no session and nothing stored or read.
ASSUME NoneAssumption == None \notin Op \union Session \union Auth \union Part

Idle == [kind |-> "boot", stage |-> "asked", key |-> None, part |-> None, write |-> 0,
         user |-> None, answer |-> None, stored |-> None,
         got |-> [p \in Parts |-> None]]

StoreTypeOK ==
    /\ cookie \in Session \union {None} /\ db \in [Users -> [Parts -> SUBSET Write]]
    /\ allow \in BOOLEAN /\ env \in [Parts -> Part]
    /\ auth \in Auth /\ stored \in Auth \union {None}
    /\ isApiMode \in BOOLEAN /\ demoMode \in BOOLEAN
    /\ isHydrating \in BOOLEAN /\ apiError \in BOOLEAN
    /\ loading \subseteq Keys \union {"hydrate"}
    /\ op \in [Ops -> Op \union {None}]
    /\ acts \in 0..MaxActs /\ writes \in 0..MaxWrites
    /\ shown \subseteq Write
    /\ tangled \in BOOLEAN /\ switched \in BOOLEAN

\* A new tab; the browser may hold a session, of which the tab knows nothing.
StoreInit ==
    /\ cookie \in Session \union {None}
    /\ db = [u \in Users |-> [p \in Parts |-> {}]]
    /\ allow \in BOOLEAN
    /\ env = Sample("mock") /\ auth = NoAuth /\ stored = None
    /\ isApiMode = FALSE /\ demoMode = FALSE /\ isHydrating = FALSE /\ apiError = FALSE
    /\ loading = {}
    /\ op = [o \in Ops |-> None] /\ acts = 0 /\ writes = 0
    /\ shown = {} /\ tangled = FALSE /\ switched = FALSE

-----------------------------------------------------------------------------
\* The collections without which a hydration fails.
Required == Parts \ (Optional \union Foundation)

Running == {o \in Ops : op[o] # None}
Reading == {o \in Running : op[o].stage = "reading"}
At(o, stage) == o \in Running /\ op[o].stage = stage

\* Mutation: what the console says of its data is not asked.
MutDemoFallback == allow /\ demoMode

\* allowDemoFallback
DemoFallback == allow /\ demoMode /\ ~isApiMode

\* accessRequest stands for the operations that put the server's answer into the
\* environment if the hydration fails (access requests, the risk of an asset), events
\* for those that do not (events, playbooks, deception, all risks, reports, compliance,
\* notifications): both kinds have a local form for the demo.  settings (identities,
\* the settings) and simulation (runExecutiveDemo) do not.
Patches(key)      == key = "accessRequest"
HasLocalForm(key) == key \in {"accessRequest", "events"}

\* hydrateEnvironmentFromApi's guard, for the auth that is then current.
CanHydrate(a) == a.user # None /\ a.full

Indicators(o) == IF op[o].key = None THEN {} ELSE {op[o].key}

\* Every change of the meta is written to sessionStorage (persistAuthMeta).
SetAuth(a) == auth' = a /\ stored' = a
SameAuth == UNCHANGED auth /\ stored' = auth

\* What resolveAppShellRedirect lets the user see: the views, or the login page.
InViews   == auth.hydrated /\ auth.user # None /\ auth.full
AtLogin   == auth.hydrated /\ auth.user = None /\ ~auth.asks
AtVerify  == auth.hydrated /\ ~auth.full /\ (auth.user # None \/ auth.asks)

ChangesSession(kind) == kind \in {"boot", "login", "verify", "logout"}

\* Operations that a change of the session would cross.
Switching == {o \in Running : op[o].stage = "reading" \/ ChangesSession(op[o].kind)}

Act == acts < MaxActs /\ acts' = acts + 1

Ask(o, r) ==
    /\ o \notin Running /\ Act
    /\ op' = [op EXCEPT ![o] = r]
    /\ switched' = (switched \/ (ChangesSession(r.kind) /\ Switching # {}))
    /\ UNCHANGED <<shown, tangled>>

Ends(o) == op' = [op EXCEPT ![o] = None]

\* The operation goes on to hydrate, or does without; a is the auth it goes on with.
HydrateOrEnd(o, a) ==
    IF CanHydrate(a)
    THEN /\ op' = [op EXCEPT ![o].stage = "reading"]
         /\ isHydrating' = TRUE /\ apiError' = FALSE
         /\ loading' = loading \union {"hydrate"}
         /\ tangled' = (tangled \/ Reading # {})
         /\ switched' = (switched \/ \E q \in Running \ (Reading \union {o}) :
                                        ChangesSession(op[q].kind))
    ELSE /\ Ends(o)
         /\ loading' = loading \ Indicators(o)
         /\ UNCHANGED <<isHydrating, apiError, tangled, switched>>

-----------------------------------------------------------------------------
(* Hydration *)

\* One of the parallel reads is served; the answers come in any order.
ReadPart(o, p) ==
    /\ At(o, "reading") /\ op[o].got[p] = None /\ p \notin Foundation
    /\ cookie # None /\ cookie.full
    /\ op' = [op EXCEPT ![o].got[p] =
                 [from |-> "server", of |-> cookie.user, has |-> db[cookie.user][p]]]
    /\ UNCHANGED <<serverVars, allow, env, authVars, metaVars, acts, writes, history>>

\* getSimulations fails: its catch takes what the environment shows at that moment.
KeepPart(o, p) ==
    /\ At(o, "reading") /\ op[o].got[p] = None /\ p \in Optional
    /\ op' = [op EXCEPT ![o].got[p] = env[p]]
    /\ UNCHANGED <<serverVars, allow, env, authVars, metaVars, acts, writes, history>>

\* buildApiEnvironmentBundle: what was read, or kept, over the foundation.
Bundle(got) == [p \in Parts |-> IF p \in Foundation THEN Sample("mock")[p] ELSE got[p]]

\* What the operation still does after its hydration: runExecutiveDemo (key
\* "simulation") turns demo mode on; some put the server's answer into the
\* environment themselves if it was not read.
Afterwards(o, synced) ==
    LET r == op[o]
    IN /\ demoMode' = (demoMode \/ (r.kind = "write" /\ r.key = "simulation"))
       /\ env' = IF synced THEN Bundle(r.got)
                 ELSE IF r.kind = "write" /\ Patches(r.key) THEN [env EXCEPT ![r.part].has = @ \union {r.write}]
                 ELSE env

\* Mutation: the error path leaves isHydrating on.
MutHydrationFails(o) ==
    /\ At(o, "reading")
    /\ apiError' = TRUE
    /\ loading' = loading \ ({"hydrate"} \union Indicators(o))
    /\ Afterwards(o, FALSE)
    /\ SameAuth /\ Ends(o)
    /\ UNCHANGED <<serverVars, allow, isApiMode, isHydrating, acts, writes, history>>

\* Another read fails: Promise.all gives up on the rest.
HydrationFails(o) ==
    /\ At(o, "reading")
    /\ isHydrating' = FALSE /\ apiError' = TRUE
    /\ loading' = loading \ ({"hydrate"} \union Indicators(o))
    /\ Afterwards(o, FALSE)
    /\ SameAuth /\ Ends(o)
    /\ UNCHANGED <<serverVars, allow, isApiMode, acts, writes, history>>

\* Every read has been answered: the bundle replaces the environment, whatever it has become.
HydrationLands(o) ==
    /\ At(o, "reading") /\ \A p \in Parts \ Foundation : op[o].got[p] # None
    /\ isHydrating' = FALSE /\ apiError' = FALSE /\ isApiMode' = TRUE
    /\ loading' = loading \ ({"hydrate"} \union Indicators(o))
    /\ Afterwards(o, TRUE)
    /\ SameAuth /\ Ends(o)
    /\ UNCHANGED <<serverVars, allow, acts, writes, history>>

\* The refresh operations and hydrateFromApi.
Refresh(o, key) ==
    /\ o \notin Running /\ InViews /\ Act
    /\ op' = [op EXCEPT ![o] = [Idle EXCEPT !.kind = "refresh", !.key = key,
                                            !.stage = "reading"]]
    /\ isHydrating' = TRUE /\ apiError' = FALSE
    /\ loading' = loading \union {"hydrate"} \union (IF key = None THEN {} ELSE {key})
    /\ tangled' = (tangled \/ Reading # {})
    /\ switched' = (switched \/ \E q \in Running \ Reading : ChangesSession(op[q].kind))
    /\ SameAuth
    /\ UNCHANGED <<serverVars, allow, env, isApiMode, demoMode, writes, shown>>

-----------------------------------------------------------------------------
(* Operations that write: the server commits, the tab hydrates *)

WriteStart(o, key, p) ==
    /\ InViews /\ p \notin Foundation /\ writes < MaxWrites /\ writes' = writes + 1
    /\ Ask(o, [Idle EXCEPT !.kind = "write", !.key = key, !.part = p, !.write = writes + 1])
    /\ loading' = loading \union {key}
    /\ SameAuth
    /\ UNCHANGED <<serverVars, allow, env, isApiMode, demoMode, isHydrating, apiError>>

\* completeOnboarding has no indicator.
OnboardStart(o, p) ==
    /\ InViews /\ p \notin Foundation /\ writes < MaxWrites /\ writes' = writes + 1
    /\ Ask(o, [Idle EXCEPT !.kind = "onboard", !.part = p, !.write = writes + 1])
    /\ UNCHANGED <<serverVars, allow, env, authVars, metaVars>>

\* The server commits for whomever the cookie names.
ServeWrite(o) ==
    /\ At(o, "asked") /\ op[o].kind \in {"write", "onboard"}
    /\ cookie # None /\ cookie.full
    /\ db' = [db EXCEPT ![cookie.user][op[o].part] = @ \union {op[o].write}]
    /\ op' = [op EXCEPT ![o].stage = "served"]
    /\ UNCHANGED <<cookie, allow, env, authVars, metaVars, acts, writes, history>>

\* Mutation: the operation ends without a hydration.
MutWriteAnswered(o) ==
    /\ At(o, "served") /\ op[o].kind \in {"write", "onboard"}
    /\ Ends(o) /\ loading' = loading \ Indicators(o)
    /\ shown' = shown \union {op[o].write}
    /\ Afterwards(o, FALSE)
    /\ SameAuth
    /\ UNCHANGED <<serverVars, allow, isApiMode, isHydrating, apiError, acts, writes,
                   tangled, switched>>

WriteAnswered(o) ==
    /\ At(o, "served") /\ op[o].kind \in {"write", "onboard"}
    /\ HydrateOrEnd(o, auth)
    /\ shown' = shown \union {op[o].write}
    /\ IF CanHydrate(auth) THEN UNCHANGED <<env, demoMode>> ELSE Afterwards(o, FALSE)
    /\ SameAuth
    /\ UNCHANGED <<serverVars, allow, isApiMode, acts, writes>>

\* The environment after a local change of some parts (setEnvironment, "derived"): these
\* and what is worked out from the events no longer show what the server holds.
Changed(parts, from) ==
    [p \in Parts |-> IF p \in parts \union Derived
                      THEN [from |-> from, of |-> env[p].of, has |-> {}] ELSE env[p]]

\* The local form of an operation that writes.  That of completeOnboarding asks only for
\* the build, and starts from the sample data if it is told to seed them.
HasLocal(r) == IF r.kind = "onboard" THEN allow ELSE HasLocalForm(r.key) /\ DemoFallback
LocalForm(r) ==
    IF r.kind = "onboard"
    THEN env' \in {Sample("unguarded"), Changed({}, "unguarded")}
    ELSE env' = Changed({r.part}, "local")

\* The server refuses or cannot be reached, or its answer is lost.
WriteFails(o) ==
    LET r == op[o] IN
       /\ o \in Running /\ r.kind \in {"write", "onboard"} /\ r.stage \in {"asked", "served"}
       /\ IF HasLocal(r) THEN LocalForm(r) ELSE UNCHANGED env
       /\ loading' = loading \ Indicators(o)
       /\ SameAuth /\ Ends(o)
       /\ UNCHANGED <<serverVars, allow, isApiMode, demoMode, isHydrating, apiError,
                      acts, writes, shown, tangled, switched>>

-----------------------------------------------------------------------------
(* The session *)

\* applyServerAuthPayload; of a session that still waits for its second factor,
\* /api/auth/me tells only that it does.
FromServer(kind, session) ==
    IF session = None THEN SignedOut
    ELSE IF kind = "boot" /\ ~session.full THEN [SignedOut EXCEPT !.asks = TRUE]
    ELSE [hydrated |-> TRUE, user |-> session.user, full |-> session.full,
          asks |-> ~session.full]

\* authHydrationPromise
Booting == \E o \in Running : op[o].kind = "boot"

\* The session as read from the storage.
Restored(persisted) ==
    IF persisted = None THEN [auth EXCEPT !.hydrated = TRUE]
    ELSE [persisted EXCEPT !.hydrated = TRUE]

\* hydrateAuthSession reads the storage before it asks the server who is signed in;
\* a demo account is restored from there at once.
BootStart(o) ==
    /\ ~auth.hydrated /\ ~Booting
    /\ IF allow /\ stored # None /\ stored.full /\ stored.user \in Custom
       THEN /\ SetAuth(Restored(stored))
            /\ Act
            /\ UNCHANGED <<op, history>>
       ELSE /\ Ask(o, [Idle EXCEPT !.kind = "boot", !.stored = stored])
            /\ UNCHANGED authVars
    /\ UNCHANGED <<serverVars, allow, env, metaVars, writes>>

LoginStart(o, u) ==
    /\ AtLogin
    /\ Ask(o, [Idle EXCEPT !.kind = "login", !.user = u])
    /\ SameAuth      \* the attempt goes to the client's audit log
    /\ UNCHANGED <<serverVars, allow, env, metaVars, writes>>

VerifyStart(o) ==
    /\ AtVerify
    /\ Ask(o, [Idle EXCEPT !.kind = "verify"])
    /\ UNCHANGED <<serverVars, allow, env, authVars, metaVars, writes>>

LogoutStart(o) ==
    /\ InViews \/ AtVerify
    /\ Ask(o, [Idle EXCEPT !.kind = "logout"])
    /\ UNCHANGED <<serverVars, allow, env, authVars, metaVars, writes>>

\* What the server does, and what it will have answered.
Served(kind, u) ==
    CASE kind = "login"  -> [user |-> u, full |-> u \in Exempt]
      [] kind = "verify" -> [cookie EXCEPT !.full = TRUE]
      [] kind = "logout" -> None
      [] kind = "boot"   -> cookie

ServeSession(o) ==
    LET r == op[o]
        session == Served(r.kind, r.user)
    IN /\ At(o, "asked") /\ ChangesSession(r.kind)
       /\ r.kind = "verify" => cookie # None /\ ~cookie.full
       /\ cookie' = session
       /\ op' = [op EXCEPT ![o].stage = "served", ![o].answer = session]
       /\ UNCHANGED <<db, allow, env, authVars, metaVars, acts, writes, history>>

SessionAnswered(o) ==
    LET a == FromServer(op[o].kind, op[o].answer)
    IN /\ At(o, "served") /\ op[o].kind \in {"boot", "login", "verify"}
       /\ SetAuth(a)
       /\ HydrateOrEnd(o, a)
       /\ UNCHANGED <<serverVars, allow, env, isApiMode, demoMode, acts, writes,
                      shown>>

\* The server refuses a password or a code.
SessionRefused(o) ==
    /\ At(o, "asked") /\ op[o].kind \in {"login", "verify"}
    /\ Ends(o)
    /\ SameAuth
    /\ UNCHANGED <<serverVars, allow, env, metaVars, acts, writes, history>>

\* The server cannot be reached, or its answer is lost: hydrateAuthSession restores
\* what it had read from the storage, login and verify2FA have a local form.
SessionFails(o) ==
    LET r == op[o]
        local == CASE r.kind = "boot" -> Restored(r.stored)
                   [] r.kind = "login" ->
                        IF allow THEN [hydrated |-> TRUE, user |-> r.user, full |-> FALSE,
                                       asks |-> TRUE]
                        ELSE auth
                   [] r.kind = "verify" ->
                        IF auth.user # None THEN [auth EXCEPT !.hydrated = TRUE, !.full = TRUE,
                                                        !.asks = FALSE]
                        ELSE auth
    IN /\ o \in Running /\ r.stage \in {"asked", "served"}
       /\ r.kind \in {"boot", "login", "verify"}
       /\ SetAuth(local)
       /\ Ends(o)
       /\ UNCHANGED <<serverVars, allow, env, metaVars, acts, writes, history>>

\* Mutation: the environment of the user who leaves is kept.
MutLogoutEnds(o) ==
    /\ o \in Running /\ op[o].kind = "logout" /\ op[o].stage \in {"asked", "served"}
    /\ SetAuth(SignedOut)
    /\ isApiMode' = FALSE /\ apiError' = FALSE
    /\ Ends(o)
    /\ UNCHANGED <<serverVars, allow, env, demoMode, isHydrating, loading, acts, writes, history>>

\* logout clears the tab whether the server heard of it or not, but no hydration
\* that is under way.
LogoutEnds(o) ==
    /\ o \in Running /\ op[o].kind = "logout" /\ op[o].stage \in {"asked", "served"}
    /\ SetAuth(SignedOut)
    /\ isApiMode' = FALSE /\ apiError' = FALSE
    /\ env' = Sample("mock")
    /\ Ends(o)
    /\ UNCHANGED <<serverVars, allow, demoMode, isHydrating, loading, acts, writes, history>>

-----------------------------------------------------------------------------
(* The demo, and the page *)

\* startDemoScenario
StartDemo ==
    /\ InViews /\ allow /\ ~isApiMode /\ Act
    /\ env' = Sample("mock") /\ demoMode' = TRUE
    /\ SameAuth
    /\ UNCHANGED <<serverVars, allow, isApiMode, isHydrating, apiError, loading, op,
                   writes, history>>

\* runSimulation, updateAccessRequestDecision, the policy rules and the demo steps.
LocalChange(p) ==
    /\ InViews /\ DemoFallback /\ Act
    /\ env' = Changed({p}, "local")
    /\ SameAuth
    /\ UNCHANGED <<serverVars, allow, metaVars, op, writes, history>>

\* createEvent asks neither for the demo nor for API mode.
CreateEvent ==
    /\ InViews /\ Act
    /\ env' = Changed({}, "unguarded")
    /\ SameAuth
    /\ UNCHANGED <<serverVars, allow, metaVars, op, writes, history>>

\* resetDemoData and seedDemoData: a new meta, and the sample environment.
ResetDemoData ==
    /\ InViews /\ Act
    /\ SetAuth(NoAuth)
    /\ env' = Sample("mock")
    /\ isApiMode' = FALSE /\ demoMode' = FALSE /\ isHydrating' = FALSE /\ apiError' = FALSE
    /\ loading' = {}
    /\ switched' = (switched \/ Reading # {})
    /\ UNCHANGED <<serverVars, allow, op, writes, shown, tangled>>

\* The page is loaded again: only the storage survives.  What the server was asked it
\* may still do; what it has not done is dropped here.
Reload ==
    /\ Act
    /\ env' = Sample("mock") /\ auth' = NoAuth
    /\ isApiMode' = FALSE /\ demoMode' = FALSE /\ isHydrating' = FALSE /\ apiError' = FALSE
    /\ loading' = {}
    /\ op' = [o \in Ops |-> None]
    /\ switched' = (switched \/ \E o \in Running : ChangesSession(op[o].kind))
    /\ UNCHANGED <<serverVars, allow, stored, writes, shown, tangled>>

\* The session expires, or is revoked on the server.
CookieEnds ==
    /\ cookie # None /\ Act
    /\ cookie' = None
    /\ UNCHANGED <<db, allow, env, authVars, metaVars, op, writes, history>>

\* The verify page confirms the setup of 2FA on its own (2fa/confirm); the store learns
\* of it by a hydrateAuthSession that does nothing once the tab is hydrated.
SetupConfirmed ==
    /\ AtVerify /\ cookie # None /\ ~cookie.full /\ Act
    /\ cookie' = [cookie EXCEPT !.full = TRUE]
    /\ UNCHANGED <<db, allow, env, authVars, metaVars, op, writes, history>>

-----------------------------------------------------------------------------
Starts(o) ==
    \/ \E key \in Keys \union {None} : Refresh(o, key)
    \/ \E key \in Keys, p \in Parts : WriteStart(o, key, p)
    \/ \E p \in Parts : OnboardStart(o, p)
    \/ BootStart(o) \/ VerifyStart(o) \/ LogoutStart(o)
    \/ \E u \in Users : LoginStart(o, u)

GoesOn(o) ==
    \/ \E p \in Parts : ReadPart(o, p) \/ KeepPart(o, p)
    \/ HydrationFails(o) \/ HydrationLands(o)
    \/ ServeWrite(o) \/ WriteAnswered(o) \/ WriteFails(o)
    \/ ServeSession(o) \/ SessionAnswered(o) \/ SessionRefused(o) \/ SessionFails(o)
    \/ LogoutEnds(o)

StoreNext ==
    \/ \E o \in Ops : Starts(o) \/ GoesOn(o)
    \/ StartDemo \/ (\E p \in Parts : LocalChange(p)) \/ CreateEvent
    \/ ResetDemoData \/ Reload \/ CookieEnds \/ SetupConfirmed

StoreSpec == StoreInit /\ [][StoreNext]_storeVars

-----------------------------------------------------------------------------
(* Properties *)

\* An indicator is on only while an operation that shows it is under way, whatever
\* fails: no view waits for ever (the finally blocks; hydrate's isHydrating).
IndicatorsEnd ==
    /\ loading \subseteq (UNION {Indicators(o) : o \in Running})
                          \union (IF Reading = {} THEN {} ELSE {"hydrate"})
    /\ isHydrating => Reading # {}

\* While the console says it shows the server's data, of the collections it cannot do
\* without none is a sample, and none has been changed by an operation that asks
\* allowDemoFallback ("yerel veri basari olarak gosterilmedi"), although such an operation
\* may be under way while a hydration lands.  Those that do not ask (createEvent, and
\* onboarding completed offline in a demo build) are excepted by where the part is from;
\* simulations and runs by being Optional, for a hydration lands also without them; and
\* the foundation is always a sample.
ApiModeShowsServerData ==
    isApiMode => \A p \in Required : env[p].from \in {"server", "unguarded"}

\* In a production build nothing that was read for one user is shown to another, nor kept
\* after signing out, be it changed here meanwhile or kept by a hydration that failed to
\* read it: unless the session was changed while data were being read, or twice at the
\* same time.
DataBelongToUser ==
    ~allow /\ ~switched => \A p \in Parts : env[p].of \in {None, auth.user}

\* What the user was told is saved is shown once the console is quiet and without error,
\* in the collections that a hydration cannot do without and that nothing here has
\* changed since: unless two hydrations overlapped, the older of which may have landed
\* last, or a demo build, in which one can sign in without the server, shows another's
\* data.  Of a new run nothing is promised: a failed getSimulations is no error.
SavedIsShown ==
    (~tangled /\ ~switched /\ ~apiError /\ isApiMode /\ Running = {})
      => \A p \in Required :
            auth.user # None /\ env[p].of = auth.user /\ env[p].from = "server" =>
               shown \intersect db[auth.user][p] \subseteq env[p].has
=============================================================================
