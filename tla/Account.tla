------------------------------- MODULE Account -------------------------------
(***************************************************************************)
(* The account of one user, and the requests that sign it in and out:      *)
(* src/server/auth and the routes under src/app/api/auth.  Every request   *)
(* is a sequence of database statements and transactions, one action each, *)
(* and the requests of a user overlap: two tabs, two devices, an admin.    *)
(*                                                                         *)
(* The user has one workspace.  Cookies, mails, rate limits and the audit  *)
(* log are left out: a request that is rate limited changes nothing here.  *)
(***************************************************************************)
EXTENDS Naturals, FiniteSets

CONSTANTS
    Sessions,      \* session rows
    Codes,         \* recovery codes
    CodesPerSet,   \* codes issued at a time
    Links,         \* password reset tokens
    Handlers,      \* requests in flight
    Configured,    \* the operator lets the user, while an admin, in without 2FA
    None,
    MaxNow,        \* bound: the clock, in TOTP time steps
    MaxOver,       \* bound: sessions and links whose time is over
    MaxPassword,   \* bound: password changes
    MaxRequests,   \* bound: requests
    MaxFaults      \* bound: requests that crash or fail

Row == [status : {"pending", "active", "revoked", "expired"},
        verified : BOOLEAN, password : 0..MaxPassword]

ASSUME AccountAssumption ==
    /\ IsFiniteSet(Codes) /\ CodesPerSet \in Nat \ {0}
    /\ Codes \intersect Links = {}
    /\ Configured \in BOOLEAN
    /\ MaxNow \in Nat \ {0} /\ MaxPassword \in Nat /\ MaxOver \in Nat
    /\ MaxRequests \in Nat /\ MaxFaults \in Nat
    /\ None \notin Sessions \union Codes \union Links \union Nat \union Row

VARIABLES
    (* The database *)
    user,       \* status "active", membership, platform role ADMIN, password
    secret,     \* the TOTP secret: its state, and the last step it was verified for
    session,    \* session[s]: its row, or None
    code,       \* code[c]: "unborn", "ready", "used" or "gone"
    link,       \* link[t]: the same
    (* Time *)
    now,        \* the current TOTP step
    over,       \* sessions and links whose expiresAt has passed
    (* The requests *)
    pc,         \* pc[h]: the statement request h comes to next, or "idle"
    req,        \* req[h]: what h was asked and what it has read
    requests, faults,
    (* History *)
    passes,     \* passes[t]: requests that a code or a link let pass
    accepted,   \* accepted[k]: times the code of step k was accepted
    overlapped, \* two requests that check a code of the user have overlapped
    raced       \* sessions were closed while a request could still open one

dbVars   == <<user, secret, session, code, link>>
timeVars == <<now, over>>
runVars  == <<requests, faults>>
history  == <<passes, accepted, overlapped, raced>>
accountVars == <<user, secret, session, code, link, now, over, pc, req,
                 requests, faults, passes, accepted, overlapped, raced>>

-----------------------------------------------------------------------------
Step == 0 .. MaxNow + 1

Secret == [state : {"none", "set", "enrolled"}, last : Step \union {None}]

UserRow == [active : BOOLEAN, member : BOOLEAN, admin : BOOLEAN,
            password : 0..MaxPassword]

Op == {"verify", "recover", "setup", "confirm", "regenerate", "logout",
       "login", "forgot", "reset", "status"}

Request == [op : Op, session : Sessions \union {None},
            arg : Step \union Codes \union Links \union {None},
            row : Row \union {None}, secret : Secret \union {None},
            active : BOOLEAN, exempt : BOOLEAN]

NoRequest == [op |-> "logout", session |-> None, arg |-> None, row |-> None,
              secret |-> None, active |-> FALSE, exempt |-> FALSE]

Stage == {"idle", "member", "expire", "revoke", "persist", "find", "claim",
          "createSecret", "count", "wipe", "issue", "regenerate", "logout",
          "open", "drop", "create", "change", "set", "close"}

TokenState == {"unborn", "ready", "used", "gone"}

AccountTypeOK ==
    /\ user \in UserRow /\ secret \in Secret
    /\ session \in [Sessions -> Row \union {None}]
    /\ code \in [Codes -> TokenState] /\ link \in [Links -> TokenState]
    /\ now \in 1..MaxNow /\ over \subseteq Sessions \union Links
    /\ pc \in [Handlers -> Stage] /\ req \in [Handlers -> Request]
    /\ requests \in 0..MaxRequests /\ faults \in 0..MaxFaults
    /\ passes \in [Codes \union Links -> Nat]
    /\ accepted \in [Step -> Nat]
    /\ overlapped \in BOOLEAN /\ raced \in BOOLEAN
    /\ \A h \in Handlers :
        /\ pc[h] = "idle" <=> req[h] = NoRequest
        /\ pc[h] \in {"member", "expire", "revoke", "persist", "logout"}
              => req[h].session \in Sessions /\ session[req[h].session] # None
        /\ pc[h] = "open" => req[h].row \in Row

Live(row) == row # None /\ row.status \in {"pending", "active"}

\* isPasswordOnlyAdmin, of an active user.
Exempt == Configured /\ user.admin

\* A new account, or one that is enrolled and has a set of codes; signed in or not.
AccountInit ==
    /\ user \in [active : {TRUE}, member : {TRUE}, admin : BOOLEAN, password : {0}]
    /\ \/ /\ secret = [state |-> "none", last |-> None]
          /\ code = [c \in Codes |-> "unborn"]
       \/ /\ secret = [state |-> "enrolled", last |-> None]
          /\ \E N \in SUBSET Codes :
                /\ Cardinality(N) = CodesPerSet
                /\ code = [c \in Codes |-> IF c \in N THEN "ready" ELSE "unborn"]
    /\ session \in [Sessions -> {None, [status |-> "pending", verified |-> FALSE,
                                        password |-> 0]}]
    /\ link = [t \in Links |-> "unborn"]
    /\ now = 1 /\ over = {}
    /\ pc = [h \in Handlers |-> "idle"] /\ req = [h \in Handlers |-> NoRequest]
    /\ requests = 0 /\ faults = 0
    /\ passes = [t \in Codes \union Links |-> 0]
    /\ accepted = [k \in Step |-> 0]
    /\ overlapped = FALSE /\ raced = FALSE

-----------------------------------------------------------------------------
At(h, stage) == pc[h] = stage

Goto(h, stage) == pc' = [pc EXCEPT ![h] = stage]

\* h goes on, or it answers and is over.
Continue(h, stage) == Goto(h, stage) /\ UNCHANGED req
End(h) == Goto(h, "idle") /\ req' = [req EXCEPT ![h] = NoRequest]
Go(h, stage) == IF stage = "idle" THEN End(h) ELSE Continue(h, stage)

Count == requests < MaxRequests /\ requests' = requests + 1

Ask(h, r, stage) ==
    /\ At(h, "idle") /\ Count
    /\ Goto(h, stage)
    /\ req' = [req EXCEPT ![h] = r]
    /\ UNCHANGED faults

ChecksCode(op) == op \in {"verify", "recover", "confirm"}

\* Requests that can still make a session live.
Opening == {h \in Handlers : pc[h] # "idle" /\ (ChecksCode(req[h].op) \/ req[h].op = "login")}

Close(statuses) ==
    [s \in Sessions |-> IF session[s] # None /\ session[s].status \in statuses
                        THEN [session[s] EXCEPT !.status = "revoked"] ELSE session[s]]

SetStatus(s, status) == session' = [session EXCEPT ![s].status = status]

-----------------------------------------------------------------------------
(* getSessionContext: who asks *)

\* The session and its user are read; an ended session is refused.
ReadSession(h, op, s, arg) ==
    /\ session[s] # None
    /\ Ask(h, [op |-> op, session |-> s, arg |-> arg, row |-> session[s],
               secret |-> secret, active |-> user.active, exempt |-> Exempt],
           IF s \in over THEN "expire" ELSE "member")
    /\ Live(session[s])
    /\ overlapped' = (overlapped \/ (ChecksCode(op) /\ \E g \in Handlers : ChecksCode(req[g].op)))
    /\ UNCHANGED <<dbVars, timeVars, passes, accepted, raced>>

MarkExpired(h) ==
    /\ At(h, "expire")
    /\ SetStatus(req[h].session, "expired")
    /\ End(h)
    /\ UNCHANGED <<user, secret, code, link, timeVars, runVars, history>>

\* The code of a time step is accepted one step early or late (verifyTwoFactorCode).
Matches(k) == k \in {now - 1, now, now + 1}

\* Mutation: the last verified step itself passes.
MutReplayed(k, last) == last # None /\ k < last

Replayed(k, last) == last # None /\ k <= last

Accepts(k, last) == Matches(k) /\ ~Replayed(k, last)

\* What a request comes to once getSessionContext has let it pass; "idle": it is refused.
Endpoint(r) ==
    CASE r.op = "verify" ->
            IF /\ r.row.status = "pending" /\ ~r.row.verified
               /\ r.secret.state = "enrolled" /\ Accepts(r.arg, r.secret.last)
            THEN "persist" ELSE "idle"
      [] r.op = "recover" ->
            IF /\ r.row.status = "pending" /\ ~r.row.verified
               /\ r.secret.state = "enrolled"
            THEN "find" ELSE "idle"
      [] r.op = "confirm" ->
            IF r.secret.state = "set" /\ Accepts(r.arg, r.secret.last)
            THEN "persist" ELSE "idle"
      [] r.op = "setup" -> IF r.secret.state = "none" THEN "createSecret" ELSE "idle"
      [] r.op = "regenerate" -> IF r.row.verified THEN "regenerate" ELSE "idle"
      [] r.op = "logout" -> "logout"

\* The membership is read; a session that lost its user, its workspace or its
\* exemption from 2FA is revoked, with a statement of its own.
ReadMembership(h) ==
    LET r == req[h]
        exempt == r.row.status = "active" /\ ~r.row.verified /\ r.exempt
        lost == \/ ~r.active \/ ~user.member
                \/ r.row.status = "active" /\ ~r.row.verified /\ ~exempt
    IN /\ At(h, "member")
       /\ Go(h, IF lost THEN "revoke" ELSE Endpoint(r))
       /\ UNCHANGED <<dbVars, timeVars, runVars, history>>

RevokeSession(h) ==
    /\ At(h, "revoke") \/ At(h, "logout")
    /\ SetStatus(req[h].session, "revoked")
    /\ End(h)
    /\ UNCHANGED <<user, secret, code, link, timeVars, runVars, history>>

-----------------------------------------------------------------------------
(* Two-factor authentication *)

\* persistSuccessfulTwoFactorVerification: one transaction, rolled back if the user
\* has been suspended or has left the workspace.  It writes the session whatever
\* has become of it.
Persist(h) ==
    LET r == req[h]
        enrolls == r.op = "confirm"
    IN /\ At(h, "persist")
       /\ IF user.active /\ user.member
          THEN /\ secret' = [state |-> IF enrolls THEN "enrolled" ELSE secret.state,
                             last |-> IF r.op = "recover" THEN secret.last ELSE r.arg]
               /\ session' = [session EXCEPT ![r.session].status = "active",
                                             ![r.session].verified = TRUE]
               /\ accepted' = IF r.op = "recover" THEN accepted
                              ELSE [accepted EXCEPT ![r.arg] = @ + 1]
               /\ Go(h, IF enrolls THEN "count" ELSE "idle")
          ELSE /\ End(h)
               /\ UNCHANGED <<secret, session, accepted>>
       /\ UNCHANGED <<user, code, link, timeVars, runVars, passes, overlapped, raced>>

\* consumeRecoveryCode: the unused codes are read, and the one that matches is claimed.
FindCode(h) ==
    /\ At(h, "find")
    /\ Go(h, IF code[req[h].arg] = "ready" THEN "claim" ELSE "idle")
    /\ UNCHANGED <<dbVars, timeVars, runVars, history>>

\* Mutation: the update that claims a code does not ask that it is still unused.
MutClaimCode(h) ==
    LET c == req[h].arg
    IN /\ At(h, "claim")
       /\ IF code[c] \in {"ready", "used"}
          THEN /\ code' = [code EXCEPT ![c] = "used"]
               /\ passes' = [passes EXCEPT ![c] = @ + 1]
               /\ Continue(h, "persist")
          ELSE End(h) /\ UNCHANGED <<code, passes>>
       /\ UNCHANGED <<user, secret, session, link, timeVars, runVars,
                      accepted, overlapped, raced>>

ClaimCode(h) ==
    LET c == req[h].arg
    IN /\ At(h, "claim")
       /\ IF code[c] = "ready"
          THEN /\ code' = [code EXCEPT ![c] = "used"]
               /\ passes' = [passes EXCEPT ![c] = @ + 1]
               /\ Continue(h, "persist")
          ELSE End(h) /\ UNCHANGED <<code, passes>>
       /\ UNCHANGED <<user, secret, session, link, timeVars, runVars,
                      accepted, overlapped, raced>>

\* The row's user is unique: the second of two creations fails.
CreateSecret(h) ==
    /\ At(h, "createSecret")
    /\ secret' = IF secret.state = "none" THEN [state |-> "set", last |-> None] ELSE secret
    /\ End(h)
    /\ UNCHANGED <<user, session, code, link, timeVars, runVars, history>>

Rows == {c \in Codes : code[c] \in {"ready", "used"}}

FreshSets == {N \in SUBSET Codes : /\ Cardinality(N) = CodesPerSet
                                   /\ \A c \in N : code[c] = "unborn"}

\* The set of codes D deleted and the set N created.
NewCodes(D, N) == [c \in Codes |-> IF c \in D THEN "gone"
                                   ELSE IF c \in N THEN "ready" ELSE code[c]]

\* ensureRecoveryCodesForUser counts, deletes and creates in separate statements.
CountCodes(h) ==
    /\ At(h, "count")
    /\ Go(h, IF Rows # {} THEN "idle" ELSE "wipe")
    /\ UNCHANGED <<dbVars, timeVars, runVars, history>>

WipeCodes(h) ==
    /\ At(h, "wipe")
    /\ code' = NewCodes(Rows, {})
    /\ Continue(h, "issue")
    /\ UNCHANGED <<user, secret, session, link, timeVars, runVars, history>>

IssueCodes(h) ==
    /\ At(h, "issue")
    /\ \E N \in FreshSets : code' = NewCodes({}, N)
    /\ End(h)
    /\ UNCHANGED <<user, secret, session, link, timeVars, runVars, history>>

\* replaceRecoveryCodesForUser of the regenerate route: one transaction.
Regenerate(h) ==
    /\ At(h, "regenerate")
    /\ \E N \in FreshSets : code' = NewCodes(Rows, N)
    /\ End(h)
    /\ UNCHANGED <<user, secret, session, link, timeVars, runVars, history>>

-----------------------------------------------------------------------------
(* The password *)

\* The user is read with the password checked against it; the session comes later.
Login(h) ==
    /\ user.active /\ user.member
    /\ Ask(h, [NoRequest EXCEPT !.op = "login",
                 !.row = [status |-> IF Exempt THEN "active" ELSE "pending",
                          verified |-> FALSE, password |-> user.password]], "open")
    /\ UNCHANGED <<dbVars, timeVars, history>>

CreateSession(h) ==
    /\ At(h, "open")
    /\ \E s \in Sessions :
        /\ session[s] = None
        /\ session' = [session EXCEPT ![s] = req[h].row]
    /\ End(h)
    /\ UNCHANGED <<user, secret, code, link, timeVars, runVars, history>>

\* createPasswordResetRequest: the account is found, its other links are deleted,
\* and then one is created; the user need not be active.
ForgotPassword(h) ==
    /\ user.member
    /\ Ask(h, [NoRequest EXCEPT !.op = "forgot"], "drop")
    /\ UNCHANGED <<dbVars, timeVars, history>>

DropLinks(h) ==
    /\ At(h, "drop")
    /\ link' = [t \in Links |->
                  IF link[t] = "ready" \/ (link[t] = "used" /\ t \in over)
                  THEN "gone" ELSE link[t]]
    /\ Continue(h, "create")
    /\ UNCHANGED <<user, secret, session, code, timeVars, runVars, history>>

CreateLink(h) ==
    /\ At(h, "create")
    /\ \E t \in Links :
        /\ link[t] = "unborn"
        /\ link' = [link EXCEPT ![t] = "ready"]
    /\ End(h)
    /\ UNCHANGED <<user, secret, session, code, timeVars, runVars, history>>

\* resetPasswordWithToken: the link is read, then one transaction claims it, changes
\* the password, revokes the sessions and deletes the other links.
ReadLink(h, t) ==
    /\ link[t] = "ready" /\ t \notin over /\ user.active
    /\ Ask(h, [NoRequest EXCEPT !.op = "reset", !.arg = t], "change")
    /\ UNCHANGED <<dbVars, timeVars, history>>

\* Mutation: sessions that wait for the second factor are not revoked.
MutChangePassword(h) ==
    LET t == req[h].arg
    IN /\ At(h, "change")
       /\ IF link[t] = "ready" /\ t \notin over /\ user.active
          THEN /\ user.password < MaxPassword
               /\ link' = [u \in Links |-> IF u = t THEN "used"
                                           ELSE IF link[u] \in {"ready", "used"} THEN "gone"
                                           ELSE link[u]]
               /\ user' = [user EXCEPT !.password = @ + 1]
               /\ session' = Close({"active"})
               /\ passes' = [passes EXCEPT ![t] = @ + 1]
               /\ raced' = (raced \/ Opening # {})
          ELSE UNCHANGED <<link, user, session, passes, raced>>
       /\ End(h)
       /\ UNCHANGED <<secret, code, timeVars, runVars, accepted, overlapped>>

ChangePassword(h) ==
    LET t == req[h].arg
    IN /\ At(h, "change")
       /\ IF link[t] = "ready" /\ t \notin over /\ user.active
          THEN /\ user.password < MaxPassword
               /\ link' = [u \in Links |-> IF u = t THEN "used"
                                           ELSE IF link[u] \in {"ready", "used"} THEN "gone"
                                           ELSE link[u]]
               /\ user' = [user EXCEPT !.password = @ + 1]
               /\ session' = Close({"pending", "active"})
               /\ passes' = [passes EXCEPT ![t] = @ + 1]
               /\ raced' = (raced \/ Opening # {})
          ELSE UNCHANGED <<link, user, session, passes, raced>>
       /\ End(h)
       /\ UNCHANGED <<secret, code, timeVars, runVars, accepted, overlapped>>

-----------------------------------------------------------------------------
(* The administration *)

\* updateAdminUserStatus: the status, and then, in a statement of its own, the sessions.
ChangeStatus(h, active) ==
    /\ Ask(h, [NoRequest EXCEPT !.op = "status", !.active = active], "set")
    /\ UNCHANGED <<dbVars, timeVars, history>>

WriteStatus(h) ==
    /\ At(h, "set")
    /\ user' = [user EXCEPT !.active = req[h].active]
    /\ Go(h, IF req[h].active THEN "idle" ELSE "close")
    /\ UNCHANGED <<secret, session, code, link, timeVars, runVars, history>>

\* Mutation: only the sessions that passed the second factor are revoked.
MutCloseSessions(h) ==
    /\ At(h, "close")
    /\ session' = Close({"active"})
    /\ raced' = (raced \/ Opening # {})
    /\ End(h)
    /\ UNCHANGED <<user, secret, code, link, timeVars, runVars, passes, accepted, overlapped>>

CloseSessions(h) ==
    /\ At(h, "close")
    /\ session' = Close({"pending", "active"})
    /\ raced' = (raced \/ Opening # {})
    /\ End(h)
    /\ UNCHANGED <<user, secret, code, link, timeVars, runVars, passes, accepted, overlapped>>

\* updateAdminUserPlatformRole: the admin becomes an ordinary user.
LoseAdminRole ==
    /\ user.admin /\ Count
    /\ user' = [user EXCEPT !.admin = FALSE]
    /\ UNCHANGED <<secret, session, code, link, timeVars, pc, req, faults, history>>

\* removeTeamMember, whose last statement suspends a user with no workspace left.
LeaveWorkspace ==
    /\ user.member /\ Count
    /\ user' = [user EXCEPT !.member = FALSE, !.active = FALSE]
    /\ session' = Close({"pending", "active"})
    /\ raced' = (raced \/ Opening # {})
    /\ UNCHANGED <<secret, code, link, timeVars, pc, req, faults, passes, accepted, overlapped>>

-----------------------------------------------------------------------------
(* Time and faults *)

Tick ==
    /\ now < MaxNow
    /\ now' = now + 1
    /\ UNCHANGED <<dbVars, over, pc, req, runVars, history>>

TimeOver(x) ==
    /\ \/ x \in Sessions /\ session[x] # None
       \/ x \in Links /\ link[x] \in {"ready", "used"}
    /\ x \notin over /\ Cardinality(over) < MaxOver
    /\ over' = over \union {x}
    /\ UNCHANGED <<dbVars, now, pc, req, runVars, history>>

\* A statement fails, or the server stops: what is committed stays.
Fault(h) ==
    /\ pc[h] # "idle" /\ faults < MaxFaults
    /\ faults' = faults + 1
    /\ End(h)
    /\ UNCHANGED <<dbVars, timeVars, requests, history>>

-----------------------------------------------------------------------------
Arrives(h) ==
    \/ \E s \in Sessions :
        \/ \E k \in Step, op \in {"verify", "confirm"} : ReadSession(h, op, s, k)
        \/ \E c \in Codes : code[c] # "unborn" /\ ReadSession(h, "recover", s, c)
        \/ \E op \in {"setup", "regenerate", "logout"} : ReadSession(h, op, s, None)
    \/ Login(h) \/ ForgotPassword(h)
    \/ \E t \in Links : ReadLink(h, t)
    \/ \E active \in BOOLEAN : ChangeStatus(h, active)

GoesOn(h) ==
    \/ MarkExpired(h) \/ ReadMembership(h) \/ RevokeSession(h)
    \/ Persist(h) \/ FindCode(h) \/ ClaimCode(h) \/ CreateSecret(h)
    \/ CountCodes(h) \/ WipeCodes(h) \/ IssueCodes(h) \/ Regenerate(h)
    \/ CreateSession(h) \/ DropLinks(h) \/ CreateLink(h) \/ ChangePassword(h)
    \/ WriteStatus(h) \/ CloseSessions(h)

AccountNext ==
    \/ \E h \in Handlers : Arrives(h) \/ GoesOn(h) \/ Fault(h)
    \/ LoseAdminRole \/ LeaveWorkspace \/ Tick
    \/ \E x \in Sessions \union Links : TimeOver(x)

AccountSpec == AccountInit /\ [][AccountNext]_accountVars

-----------------------------------------------------------------------------
(* Properties *)

\* Recovery codes and password links let at most one request pass, however requests
\* overlap and whenever a set is replaced (account.ts:470, recovery-codes.ts:178).
OneShotTokens == INSTANCE OneShot WITH
    Tokens <- Codes \union Links,
    state  <- [t \in Codes \union Links |-> IF t \in Codes THEN code[t] ELSE link[t]],
    passes <- passes

CodesAndLinksPassOnce == OneShotTokens!OneShotSpec

\* A code of the authenticator is accepted once, whatever sessions it is sent to and
\* whatever else happens, as long as no two requests that check codes overlap
\* (isReplayProtectedStep compares with a step read before the update).
CodeAcceptedOnce == ~overlapped => \A k \in Step : accepted[k] <= 1

\* A password change ends every session opened with the old password, also those it
\* had not verified, for good: unless one was just being opened.
OldPasswordOpensNothing ==
    ~raced => \A s \in Sessions : Live(session[s]) => session[s].password = user.password

\* Once the request that suspends an account has ended without a fault, no session of
\* it is live: unless one was just being opened.
SuspendedAccountIsClosed ==
    /\ ~user.active /\ ~raced /\ faults = 0
    /\ \A h \in Handlers : req[h].op # "status"
    => \A s \in Sessions : ~Live(session[s])
=============================================================================
