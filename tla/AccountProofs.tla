---------------------------- MODULE AccountProofs ----------------------------
(***************************************************************************)
(* What an account keeps for any sets of sessions, codes, links and        *)
(* overlapping requests, and any number of faults.                         *)
(***************************************************************************)
EXTENDS Account, TLAPS

-----------------------------------------------------------------------------
(* What every request may rely on *)

DataOK ==
    /\ user \in UserRow /\ secret \in Secret
    /\ session \in [Sessions -> Row \union {None}]
    /\ code \in [Codes -> TokenState] /\ link \in [Links -> TokenState]
    /\ now \in 1..MaxNow /\ over \subseteq Sessions \union Links
    /\ requests \in 0..MaxRequests /\ faults \in 0..MaxFaults
    /\ passes \in [Codes \union Links -> Nat]
    /\ accepted \in [Step -> Nat]
    /\ overlapped \in BOOLEAN /\ raced \in BOOLEAN

SessionOp == {"verify", "recover", "setup", "confirm", "regenerate", "logout"}

InSession == {"member", "expire", "revoke", "persist", "logout", "find", "claim"}

\* A request r that is at a stage was asked for what the stage is about.
Fits(stage, r) ==
    /\ stage \in Stage /\ r \in Request
    /\ stage = "idle" <=> r = NoRequest
    /\ stage \in InSession => r.session \in Sessions /\ r.op \in SessionOp
    /\ stage = "member" => r.row \in Row /\ r.secret \in Secret
    /\ stage = "persist" => ChecksCode(r.op)
    /\ stage \in {"find", "claim"} => r.op = "recover"
    /\ stage = "open" => r.op = "login" /\ r.row \in Row
    /\ stage = "change" => r.arg \in Links
    /\ stage \in {"set", "close"} => r.op = "status"
    /\ stage # "idle" /\ r.op = "logout" => r.session \in Sessions
    /\ r.op \in {"verify", "confirm"} => r.arg \in Step
    /\ r.op = "recover" => r.arg \in Codes

\* The row of the session a request is about is never deleted.
SessionThere(h) == pc[h] \in InSession => session[req[h].session] # None

RequestsFit ==
    /\ pc \in [Handlers -> Stage] /\ req \in [Handlers -> Request]
    /\ \A h \in Handlers : Fits(pc[h], req[h]) /\ SessionThere(h)

AccountInv == DataOK /\ RequestsFit

SessionsLast == \A s \in Sessions : session[s] # None => session'[s] # None

LEMMA NoRequestFits == Fits("idle", NoRequest)
  BY AccountAssumption DEF Fits, NoRequest, Request, Stage, Op, InSession, AccountAssumption

LEMMA InvGivesType == AccountInv => AccountTypeOK
  BY DEF AccountInv, DataOK, RequestsFit, Fits, SessionThere, InSession, AccountTypeOK

\* A request that moves to a stage that fits leaves the others as they are.
LEMMA Moves ==
    ASSUME RequestsFit, NEW h \in Handlers, NEW stage, NEW r, Fits(stage, r),
           pc' = [pc EXCEPT ![h] = stage], req' = [req EXCEPT ![h] = r],
           SessionsLast, stage \in InSession => session'[r.session] # None
    PROVE  RequestsFit'
  <1>1. pc' \in [Handlers -> Stage] /\ req' \in [Handlers -> Request]
    BY DEF RequestsFit, Fits
  <1>2. ASSUME NEW g \in Handlers
        PROVE  Fits(pc'[g], req'[g]) /\ SessionThere(g)'
    <2>1. CASE g = h
      <3>1. pc'[g] = stage /\ req'[g] = r
        BY <2>1 DEF RequestsFit
      <3> QED  BY <3>1 DEF SessionThere
    <2>2. CASE g # h
      <3>1. pc'[g] = pc[g] /\ req'[g] = req[g]
        BY <2>2 DEF RequestsFit
      <3>2. Fits(pc[g], req[g]) /\ SessionThere(g)
        BY DEF RequestsFit
      <3> QED  BY <3>1, <3>2 DEF SessionThere, SessionsLast, Fits
    <2> QED  BY <2>1, <2>2
  <1> QED  BY <1>1, <1>2 DEF RequestsFit, Fits

LEMMA Ends ==
    ASSUME RequestsFit, NEW h \in Handlers, End(h), SessionsLast
    PROVE  RequestsFit'
  BY NoRequestFits, Moves DEF End, Goto, InSession

LEMMA Continues ==
    ASSUME RequestsFit, NEW h \in Handlers, NEW stage, Continue(h, stage), SessionsLast,
           Fits(stage, req[h]), stage \in InSession => pc[h] \in InSession
    PROVE  RequestsFit'
  <1>1. req' = [req EXCEPT ![h] = req[h]]
    BY DEF RequestsFit, Continue
  <1>2. stage \in InSession => session'[req[h].session] # None
    BY DEF RequestsFit, SessionThere, SessionsLast, Fits
  <1> QED  BY <1>1, <1>2, Moves DEF Continue, Goto

LEMMA GoesTo ==
    ASSUME RequestsFit, NEW h \in Handlers, NEW stage, Go(h, stage), SessionsLast,
           stage # "idle" => Fits(stage, req[h]) /\ (stage \in InSession => pc[h] \in InSession)
    PROVE  RequestsFit'
  BY Ends, Continues DEF Go

LEMMA Stays ==
    ASSUME RequestsFit, UNCHANGED <<pc, req>>, SessionsLast
    PROVE  RequestsFit'
  BY DEF RequestsFit, SessionThere, SessionsLast, Fits

-----------------------------------------------------------------------------
(* One lemma per operation *)

LEMMA StatusType ==
    ASSUME DataOK, NEW s \in Sessions, session[s] # None,
           NEW status \in {"pending", "active", "revoked", "expired"}, SetStatus(s, status)
    PROVE  session' \in [Sessions -> Row \union {None}] /\ SessionsLast
  <1>1. session[s] \in Row
    BY DEF DataOK
  <1>2. [session[s] EXCEPT !.status = status] \in Row
    BY <1>1 DEF Row
  <1> QED  BY <1>2, AccountAssumption DEF DataOK, SetStatus, SessionsLast, AccountAssumption

LEMMA CloseType ==
    ASSUME DataOK, NEW statuses, session' = Close(statuses)
    PROVE  session' \in [Sessions -> Row \union {None}] /\ SessionsLast
  <1>1. ASSUME NEW s \in Sessions, session[s] # None
        PROVE  [session[s] EXCEPT !.status = "revoked"] \in Row
    BY <1>1 DEF DataOK, Row
  <1> QED  BY <1>1, AccountAssumption DEF DataOK, Close, SessionsLast, AccountAssumption

LEMMA SameSessions ==
    ASSUME UNCHANGED session
    PROVE  SessionsLast
  BY DEF SessionsLast

LEMMA CountType ==
    ASSUME DataOK, Count
    PROVE  requests' \in 0..MaxRequests
  BY AccountAssumption DEF DataOK, Count, AccountAssumption

LEMMA ReadSessionInv ==
    ASSUME AccountInv, NEW h \in Handlers, NEW s \in Sessions, NEW op \in SessionOp,
           NEW arg \in Step \union Codes \union Links \union {None},
           op \in {"verify", "confirm"} => arg \in Step,
           op = "recover" => arg \in Codes, ReadSession(h, op, s, arg)
    PROVE  AccountInv'
  <1> DEFINE r == [op |-> op, session |-> s, arg |-> arg, row |-> session[s],
                   secret |-> secret, active |-> user.active, exempt |-> Exempt]
             stage == IF s \in over THEN "expire" ELSE "member"
  <1>1. session[s] \in Row /\ secret \in Secret
    BY DEF AccountInv, DataOK, ReadSession
  <1>2. r \in Request
    BY <1>1, AccountAssumption
    DEF AccountInv, DataOK, Request, Op, SessionOp, UserRow, Exempt, AccountAssumption
  <1>3. r # NoRequest /\ r.session = s
    BY AccountAssumption DEF NoRequest, AccountAssumption
  <1>4. Fits(stage, r)
    BY <1>1, <1>2, <1>3 DEF Fits, Stage, InSession
  <1>5. RequestsFit'
    BY <1>4, Moves, SameSessions DEF AccountInv, ReadSession, Ask, Goto, dbVars
  <1>6. DataOK'
    BY CountType DEF AccountInv, DataOK, ReadSession, Ask, dbVars, timeVars
  <1> QED  BY <1>5, <1>6 DEF AccountInv

LEMMA MarkExpiredInv ==
    ASSUME AccountInv, NEW h \in Handlers, MarkExpired(h)
    PROVE  AccountInv'
  <1>1. req[h].session \in Sessions /\ session[req[h].session] # None
    BY DEF AccountInv, RequestsFit, Fits, SessionThere, MarkExpired, At, InSession
  <1>2. session' \in [Sessions -> Row \union {None}] /\ SessionsLast
    BY <1>1, StatusType DEF AccountInv, MarkExpired
  <1> QED  BY <1>2, Ends DEF AccountInv, DataOK, MarkExpired, timeVars, runVars, history

LEMMA RevokeSessionInv ==
    ASSUME AccountInv, NEW h \in Handlers, RevokeSession(h)
    PROVE  AccountInv'
  <1>1. req[h].session \in Sessions /\ session[req[h].session] # None
    BY DEF AccountInv, RequestsFit, Fits, SessionThere, RevokeSession, At, InSession
  <1>2. session' \in [Sessions -> Row \union {None}] /\ SessionsLast
    BY <1>1, StatusType DEF AccountInv, RevokeSession
  <1> QED  BY <1>2, Ends DEF AccountInv, DataOK, RevokeSession, timeVars, runVars, history

\* The endpoint is asked for what it can do.
LEMMA EndpointFits ==
    ASSUME NEW r, Fits("member", r), Endpoint(r) # "idle"
    PROVE  Fits(Endpoint(r), r)
  <1>1. r.op \in SessionOp
    BY DEF Fits, InSession
  <1>2. Endpoint(r) \in {"persist", "find", "createSecret", "regenerate", "logout"}
    BY <1>1 DEF Endpoint, SessionOp
  <1>3. Endpoint(r) = "persist" => r.op \in {"verify", "confirm"}
    BY <1>1 DEF Endpoint, SessionOp
  <1>4. Endpoint(r) = "find" => r.op = "recover"
    BY <1>1 DEF Endpoint, SessionOp
  <1>5. r \in Request /\ r # NoRequest /\ r.session \in Sessions
    BY DEF Fits, InSession
  <1>6. /\ r.op \in {"verify", "confirm"} => r.arg \in Step
        /\ r.op = "recover" => r.arg \in Codes
    BY DEF Fits
  <1> QED  BY <1>1, <1>2, <1>3, <1>4, <1>5, <1>6 DEF Fits, Stage, InSession, ChecksCode

LEMMA ReadMembershipInv ==
    ASSUME AccountInv, NEW h \in Handlers, ReadMembership(h)
    PROVE  AccountInv'
  <1>1. Fits("member", req[h]) /\ pc[h] = "member"
    BY DEF AccountInv, RequestsFit, ReadMembership, At
  <1>2. Fits("revoke", req[h])
    BY <1>1 DEF Fits, InSession, Stage
  <1>3. PICK stage \in {"revoke", Endpoint(req[h])} : Go(h, stage)
    BY DEF ReadMembership
  <1>4. stage # "idle" => Fits(stage, req[h])
    BY <1>1, <1>2, <1>3, EndpointFits
  <1>5. RequestsFit'
    BY <1>1, <1>3, <1>4, GoesTo, SameSessions DEF AccountInv, ReadMembership, dbVars, InSession
  <1> QED  BY <1>5 DEF AccountInv, DataOK, ReadMembership, dbVars, timeVars, runVars, history

LEMMA PersistInv ==
    ASSUME AccountInv, NEW h \in Handlers, Persist(h)
    PROVE  AccountInv'
  <1> DEFINE r == req[h]
  <1>1. /\ Fits("persist", r) /\ pc[h] = "persist" /\ r.session \in Sessions
        /\ session[r.session] \in Row
    BY DEF AccountInv, DataOK, RequestsFit, Fits, SessionThere, Persist, At, InSession
  <1>2. CASE user.active /\ user.member
    <2>1. r.op \in {"verify", "recover", "confirm"} /\ (r.op # "recover" => r.arg \in Step)
      BY <1>1 DEF Fits, ChecksCode
    <2>2. secret' \in Secret
      BY <1>2, <2>1 DEF AccountInv, DataOK, Persist, Secret
    <2>3. [session[r.session] EXCEPT !.status = "active", !.verified = TRUE] \in Row
      BY <1>1 DEF Row
    <2>4. session' = [session EXCEPT ![r.session] =
                        [session[r.session] EXCEPT !.status = "active", !.verified = TRUE]]
      BY <1>1, <1>2 DEF AccountInv, DataOK, Persist, Row
    <2>5. session' \in [Sessions -> Row \union {None}] /\ SessionsLast
      BY <2>3, <2>4, AccountAssumption DEF AccountInv, DataOK, SessionsLast, AccountAssumption
    <2>6. accepted' \in [Step -> Nat]
      BY <1>2, <2>1 DEF AccountInv, DataOK, Persist
    <2>7. r.op = "confirm" => Fits("count", r)
      BY <1>1 DEF Fits, Stage, InSession
    <2>8. RequestsFit'
      BY <1>1, <1>2, <2>5, <2>7, GoesTo DEF AccountInv, Persist, InSession
    <2> QED  BY <1>2, <2>2, <2>5, <2>6, <2>8
             DEF AccountInv, DataOK, Persist, timeVars, runVars
  <1>3. CASE ~(user.active /\ user.member)
    BY <1>3, Ends, SameSessions DEF AccountInv, DataOK, Persist, timeVars, runVars
  <1> QED  BY <1>2, <1>3

LEMMA FindCodeInv ==
    ASSUME AccountInv, NEW h \in Handlers, FindCode(h)
    PROVE  AccountInv'
  <1>1. Fits("find", req[h]) /\ pc[h] = "find"
    BY DEF AccountInv, RequestsFit, FindCode, At
  <1>2. Fits("claim", req[h])
    BY <1>1 DEF Fits, InSession, Stage
  <1>3. RequestsFit'
    BY <1>1, <1>2, GoesTo, SameSessions DEF AccountInv, FindCode, dbVars, InSession
  <1> QED  BY <1>3 DEF AccountInv, DataOK, FindCode, dbVars, timeVars, runVars, history

LEMMA ClaimCodeInv ==
    ASSUME AccountInv, NEW h \in Handlers, ClaimCode(h)
    PROVE  AccountInv'
  <1>1. Fits("claim", req[h]) /\ pc[h] = "claim"
    BY DEF AccountInv, RequestsFit, ClaimCode, At
  <1>2. Fits("persist", req[h]) /\ req[h].arg \in Codes
    BY <1>1 DEF Fits, InSession, Stage, ChecksCode
  <1>3. code' \in [Codes -> TokenState] /\ passes' \in [Codes \union Links -> Nat]
    BY <1>2 DEF AccountInv, DataOK, ClaimCode, TokenState
  <1>4. RequestsFit'
    BY <1>1, <1>2, Ends, Continues, SameSessions DEF AccountInv, ClaimCode, InSession
  <1> QED  BY <1>3, <1>4 DEF AccountInv, DataOK, ClaimCode, timeVars, runVars

LEMMA CreateSecretInv ==
    ASSUME AccountInv, NEW h \in Handlers, CreateSecret(h)
    PROVE  AccountInv'
  <1>1. secret' \in Secret
    BY DEF AccountInv, DataOK, CreateSecret, Secret
  <1> QED  BY <1>1, Ends, SameSessions
           DEF AccountInv, DataOK, CreateSecret, timeVars, runVars, history

LEMMA CountCodesInv ==
    ASSUME AccountInv, NEW h \in Handlers, CountCodes(h)
    PROVE  AccountInv'
  <1>1. Fits("count", req[h]) /\ pc[h] = "count"
    BY DEF AccountInv, RequestsFit, CountCodes, At
  <1>2. Fits("wipe", req[h])
    BY <1>1 DEF Fits, InSession, Stage
  <1>3. RequestsFit'
    BY <1>2, GoesTo, SameSessions DEF AccountInv, CountCodes, dbVars, InSession
  <1> QED  BY <1>3 DEF AccountInv, DataOK, CountCodes, dbVars, timeVars, runVars, history

LEMMA NewCodesType ==
    ASSUME DataOK, NEW D, NEW N
    PROVE  NewCodes(D, N) \in [Codes -> TokenState]
  BY DEF DataOK, NewCodes, TokenState

LEMMA WipeCodesInv ==
    ASSUME AccountInv, NEW h \in Handlers, WipeCodes(h)
    PROVE  AccountInv'
  <1>1. Fits("wipe", req[h]) /\ pc[h] = "wipe"
    BY DEF AccountInv, RequestsFit, WipeCodes, At
  <1>2. Fits("issue", req[h])
    BY <1>1 DEF Fits, InSession, Stage
  <1>3. RequestsFit'
    BY <1>2, Continues, SameSessions DEF AccountInv, WipeCodes, InSession
  <1> QED  BY <1>3, NewCodesType DEF AccountInv, DataOK, WipeCodes, timeVars, runVars, history

LEMMA IssueCodesInv ==
    ASSUME AccountInv, NEW h \in Handlers, IssueCodes(h)
    PROVE  AccountInv'
  BY Ends, SameSessions, NewCodesType
  DEF AccountInv, DataOK, IssueCodes, timeVars, runVars, history

LEMMA RegenerateInv ==
    ASSUME AccountInv, NEW h \in Handlers, Regenerate(h)
    PROVE  AccountInv'
  BY Ends, SameSessions, NewCodesType
  DEF AccountInv, DataOK, Regenerate, timeVars, runVars, history

LEMMA LoginInv ==
    ASSUME AccountInv, NEW h \in Handlers, Login(h)
    PROVE  AccountInv'
  <1> DEFINE row == [status |-> IF Exempt THEN "active" ELSE "pending",
                     verified |-> FALSE, password |-> user.password]
             r == [NoRequest EXCEPT !.op = "login", !.row = row]
  <1>1. row \in Row
    BY DEF AccountInv, DataOK, UserRow, Row
  <1>2. r.op = "login" /\ r.row = row /\ r \in Request
    BY <1>1, NoRequestFits DEF NoRequest, Fits, Request, Op
  <1>3. Fits("open", r)
    BY <1>1, <1>2 DEF Fits, Stage, InSession, NoRequest
  <1>4. RequestsFit'
    BY <1>3, Moves, SameSessions DEF AccountInv, Login, Ask, Goto, dbVars, InSession
  <1>5. DataOK'
    BY CountType DEF AccountInv, DataOK, Login, Ask, dbVars, timeVars, history
  <1> QED  BY <1>4, <1>5 DEF AccountInv

LEMMA CreateSessionInv ==
    ASSUME AccountInv, NEW h \in Handlers, CreateSession(h)
    PROVE  AccountInv'
  <1>1. req[h].row \in Row
    BY DEF AccountInv, RequestsFit, Fits, CreateSession, At
  <1>2. session' \in [Sessions -> Row \union {None}] /\ SessionsLast
    BY <1>1, AccountAssumption
    DEF AccountInv, DataOK, CreateSession, SessionsLast, AccountAssumption
  <1> QED  BY <1>2, Ends DEF AccountInv, DataOK, CreateSession, timeVars, runVars, history

LEMMA PlainRequest ==
    ASSUME NEW r \in Request, r.op \in {"forgot", "reset", "status"},
           r.op = "reset" => r.arg \in Links, NEW stage \in {"drop", "change", "set"},
           stage = "change" => r.op = "reset", stage = "set" => r.op = "status"
    PROVE  Fits(stage, r)
  <1>1. r # NoRequest
    BY DEF NoRequest
  <1> QED  BY <1>1 DEF Fits, Stage, InSession

LEMMA ForgotPasswordInv ==
    ASSUME AccountInv, NEW h \in Handlers, ForgotPassword(h)
    PROVE  AccountInv'
  <1> DEFINE r == [NoRequest EXCEPT !.op = "forgot"]
  <1>1. r \in Request /\ r.op = "forgot" /\ r.arg = None
    BY DEF NoRequest, Request, Op
  <1>2. Fits("drop", r)
    BY <1>1, PlainRequest
  <1>3. RequestsFit'
    BY <1>2, Moves, SameSessions DEF AccountInv, ForgotPassword, Ask, Goto, dbVars, InSession
  <1>4. DataOK'
    BY CountType DEF AccountInv, DataOK, ForgotPassword, Ask, dbVars, timeVars, history
  <1> QED  BY <1>3, <1>4 DEF AccountInv

LEMMA DropLinksInv ==
    ASSUME AccountInv, NEW h \in Handlers, DropLinks(h)
    PROVE  AccountInv'
  <1>1. Fits("drop", req[h]) /\ pc[h] = "drop"
    BY DEF AccountInv, RequestsFit, DropLinks, At
  <1>2. Fits("create", req[h])
    BY <1>1 DEF Fits, InSession, Stage
  <1>3. RequestsFit'
    BY <1>2, Continues, SameSessions DEF AccountInv, DropLinks, InSession
  <1>4. link' \in [Links -> TokenState]
    BY DEF AccountInv, DataOK, DropLinks, TokenState
  <1> QED  BY <1>3, <1>4 DEF AccountInv, DataOK, DropLinks, timeVars, runVars, history

LEMMA CreateLinkInv ==
    ASSUME AccountInv, NEW h \in Handlers, CreateLink(h)
    PROVE  AccountInv'
  <1>1. link' \in [Links -> TokenState]
    BY DEF AccountInv, DataOK, CreateLink, TokenState
  <1> QED  BY <1>1, Ends, SameSessions
           DEF AccountInv, DataOK, CreateLink, timeVars, runVars, history

LEMMA ReadLinkInv ==
    ASSUME AccountInv, NEW h \in Handlers, NEW t \in Links, ReadLink(h, t)
    PROVE  AccountInv'
  <1> DEFINE r == [NoRequest EXCEPT !.op = "reset", !.arg = t]
  <1>1. r \in Request /\ r.op = "reset" /\ r.arg = t
    BY DEF NoRequest, Request, Op
  <1>2. Fits("change", r)
    BY <1>1, PlainRequest
  <1>3. RequestsFit'
    BY <1>2, Moves, SameSessions DEF AccountInv, ReadLink, Ask, Goto, dbVars, InSession
  <1>4. DataOK'
    BY CountType DEF AccountInv, DataOK, ReadLink, Ask, dbVars, timeVars, history
  <1> QED  BY <1>3, <1>4 DEF AccountInv

LEMMA ChangePasswordInv ==
    ASSUME AccountInv, NEW h \in Handlers, ChangePassword(h)
    PROVE  AccountInv'
  <1> DEFINE t == req[h].arg
  <1>1. t \in Links
    BY DEF AccountInv, RequestsFit, Fits, ChangePassword, At
  <1>2. CASE link[t] = "ready" /\ t \notin over /\ user.active
    <2>1. link' \in [Links -> TokenState]
      BY <1>2 DEF AccountInv, DataOK, ChangePassword, TokenState
    <2>2. user' \in UserRow
      BY <1>2, AccountAssumption
      DEF AccountInv, DataOK, ChangePassword, UserRow, AccountAssumption
    <2>3. session' \in [Sessions -> Row \union {None}] /\ SessionsLast
      BY <1>2, CloseType DEF AccountInv, ChangePassword
    <2>4. passes' \in [Codes \union Links -> Nat] /\ raced' \in BOOLEAN
      BY <1>1, <1>2 DEF AccountInv, DataOK, ChangePassword
    <2> QED  BY <2>1, <2>2, <2>3, <2>4, Ends
             DEF AccountInv, DataOK, ChangePassword, timeVars, runVars
  <1>3. CASE ~(link[t] = "ready" /\ t \notin over /\ user.active)
    BY <1>3, Ends, SameSessions DEF AccountInv, DataOK, ChangePassword, timeVars, runVars
  <1> QED  BY <1>2, <1>3

LEMMA ChangeStatusInv ==
    ASSUME AccountInv, NEW h \in Handlers, NEW active \in BOOLEAN, ChangeStatus(h, active)
    PROVE  AccountInv'
  <1> DEFINE r == [NoRequest EXCEPT !.op = "status", !.active = active]
  <1>1. r \in Request /\ r.op = "status" /\ r.arg = None
    BY DEF NoRequest, Request, Op
  <1>2. Fits("set", r)
    BY <1>1, PlainRequest
  <1>3. RequestsFit'
    BY <1>2, Moves, SameSessions DEF AccountInv, ChangeStatus, Ask, Goto, dbVars, InSession
  <1>4. DataOK'
    BY CountType DEF AccountInv, DataOK, ChangeStatus, Ask, dbVars, timeVars, history
  <1> QED  BY <1>3, <1>4 DEF AccountInv

LEMMA WriteStatusInv ==
    ASSUME AccountInv, NEW h \in Handlers, WriteStatus(h)
    PROVE  AccountInv'
  <1>1. Fits("set", req[h]) /\ pc[h] = "set"
    BY DEF AccountInv, RequestsFit, WriteStatus, At
  <1>2. Fits("close", req[h]) /\ req[h].active \in BOOLEAN
    BY <1>1 DEF Fits, InSession, Stage, Request
  <1>3. RequestsFit'
    BY <1>2, GoesTo, SameSessions DEF AccountInv, WriteStatus, InSession
  <1>4. user' \in UserRow
    BY <1>2 DEF AccountInv, DataOK, WriteStatus, UserRow
  <1> QED  BY <1>3, <1>4 DEF AccountInv, DataOK, WriteStatus, timeVars, runVars, history

LEMMA CloseSessionsInv ==
    ASSUME AccountInv, NEW h \in Handlers, CloseSessions(h)
    PROVE  AccountInv'
  <1>1. session' \in [Sessions -> Row \union {None}] /\ SessionsLast
    BY CloseType DEF AccountInv, CloseSessions
  <1>2. raced' \in BOOLEAN
    BY DEF AccountInv, DataOK, CloseSessions
  <1> QED  BY <1>1, <1>2, Ends DEF AccountInv, DataOK, CloseSessions, timeVars, runVars

LEMMA LoseAdminRoleInv ==
    ASSUME AccountInv, LoseAdminRole
    PROVE  AccountInv'
  <1>1. user' \in UserRow
    BY DEF AccountInv, DataOK, LoseAdminRole, UserRow
  <1> QED  BY <1>1, CountType, Stays, SameSessions
           DEF AccountInv, DataOK, LoseAdminRole, timeVars, history

LEMMA LeaveWorkspaceInv ==
    ASSUME AccountInv, LeaveWorkspace
    PROVE  AccountInv'
  <1>1. user' \in UserRow
    BY DEF AccountInv, DataOK, LeaveWorkspace, UserRow
  <1>2. session' \in [Sessions -> Row \union {None}] /\ SessionsLast
    BY CloseType DEF AccountInv, LeaveWorkspace
  <1>3. raced' \in BOOLEAN
    BY DEF AccountInv, DataOK, LeaveWorkspace
  <1> QED  BY <1>1, <1>2, <1>3, CountType, Stays
           DEF AccountInv, DataOK, LeaveWorkspace, timeVars

LEMMA TickInv ==
    ASSUME AccountInv, Tick
    PROVE  AccountInv'
  <1>1. now' \in 1..MaxNow
    BY AccountAssumption DEF AccountInv, DataOK, Tick, AccountAssumption
  <1> QED  BY <1>1, Stays, SameSessions DEF AccountInv, DataOK, Tick, dbVars, runVars, history

LEMMA TimeOverInv ==
    ASSUME AccountInv, NEW x \in Sessions \union Links, TimeOver(x)
    PROVE  AccountInv'
  BY Stays, SameSessions DEF AccountInv, DataOK, TimeOver, dbVars, runVars, history

LEMMA FaultInv ==
    ASSUME AccountInv, NEW h \in Handlers, Fault(h)
    PROVE  AccountInv'
  <1>1. faults' \in 0..MaxFaults
    BY AccountAssumption DEF AccountInv, DataOK, Fault, AccountAssumption
  <1> QED  BY <1>1, Ends, SameSessions DEF AccountInv, DataOK, Fault, dbVars, timeVars, history

-----------------------------------------------------------------------------
(* The invariant *)

LEMMA InitInv == AccountInit => AccountInv
  <1> SUFFICES ASSUME AccountInit
               PROVE  AccountInv
    OBVIOUS
  <1>1. [status |-> "pending", verified |-> FALSE, password |-> 0] \in Row
    BY AccountAssumption DEF Row, AccountAssumption
  <1>2. session \in [Sessions -> Row \union {None}]
    BY <1>1 DEF AccountInit
  <1>3. secret \in Secret /\ code \in [Codes -> TokenState]
    BY DEF AccountInit, Secret, TokenState
  <1>4. user \in UserRow
    <2>1. user \in [active : {TRUE}, member : {TRUE}, admin : BOOLEAN, password : {0}]
      BY DEF AccountInit
    <2>2. 0 \in 0..MaxPassword
      BY AccountAssumption DEF AccountAssumption
    <2> QED  BY <2>1, <2>2 DEF UserRow
  <1>5. link \in [Links -> TokenState] /\ passes \in [Codes \union Links -> Nat]
    BY DEF AccountInit, TokenState
  <1>6. now \in 1..MaxNow /\ requests \in 0..MaxRequests /\ faults \in 0..MaxFaults
    BY AccountAssumption DEF AccountInit, AccountAssumption
  <1>7. DataOK
    BY <1>2, <1>3, <1>4, <1>5, <1>6 DEF AccountInit, DataOK
  <1>8. RequestsFit
    BY NoRequestFits DEF AccountInit, RequestsFit, Fits, SessionThere, InSession
  <1> QED  BY <1>7, <1>8 DEF AccountInv

LEMMA ArrivesInv ==
    ASSUME AccountInv, NEW h \in Handlers, Arrives(h)
    PROVE  AccountInv'
  <1>1. ASSUME NEW s \in Sessions, NEW k \in Step, NEW op \in {"verify", "confirm"},
               ReadSession(h, op, s, k)
        PROVE  AccountInv'
    BY <1>1, ReadSessionInv DEF SessionOp
  <1>2. ASSUME NEW s \in Sessions, NEW c \in Codes, ReadSession(h, "recover", s, c)
        PROVE  AccountInv'
    BY <1>2, ReadSessionInv DEF SessionOp
  <1>3. ASSUME NEW s \in Sessions, NEW op \in {"setup", "regenerate", "logout"},
               ReadSession(h, op, s, None)
        PROVE  AccountInv'
    BY <1>3, ReadSessionInv DEF SessionOp
  <1> QED  BY <1>1, <1>2, <1>3, LoginInv, ForgotPasswordInv, ReadLinkInv, ChangeStatusInv
           DEF Arrives

LEMMA GoesOnInv ==
    ASSUME AccountInv, NEW h \in Handlers, GoesOn(h)
    PROVE  AccountInv'
  BY MarkExpiredInv, ReadMembershipInv, RevokeSessionInv, PersistInv, FindCodeInv,
     ClaimCodeInv, CreateSecretInv, CountCodesInv, WipeCodesInv, IssueCodesInv,
     RegenerateInv, CreateSessionInv, DropLinksInv, CreateLinkInv, ChangePasswordInv,
     WriteStatusInv, CloseSessionsInv
  DEF GoesOn

LEMMA NextInv == AccountInv /\ [AccountNext]_accountVars => AccountInv'
  <1> SUFFICES ASSUME AccountInv, [AccountNext]_accountVars
               PROVE  AccountInv'
    OBVIOUS
  <1>1. CASE UNCHANGED accountVars
    BY <1>1, Stays, SameSessions DEF AccountInv, DataOK, accountVars
  <1>2. CASE AccountNext
    BY <1>2, ArrivesInv, GoesOnInv, FaultInv, LoseAdminRoleInv, LeaveWorkspaceInv,
       TickInv, TimeOverInv
    DEF AccountNext
  <1> QED  BY <1>1, <1>2

LEMMA Invariant == AccountSpec => []AccountInv
  BY InitInv, NextInv, PTL DEF AccountSpec

\* Rows, requests in flight and history keep their types: a request at a stage has
\* what the stage needs, and the session it is about is there.
THEOREM AccountTypeCorrect == AccountSpec => []AccountTypeOK
  BY Invariant, InvGivesType, PTL

-----------------------------------------------------------------------------
(* Codes and links implement OneShot *)

Promise == OneShotTokens!OneShotNext

Tokens == Codes \union Links

State == [t \in Tokens |-> IF t \in Codes THEN code[t] ELSE link[t]]

Withdrawn(t) == State[t] \in {"ready", "used"} /\ State'[t] = "gone"

Issued(t) == State[t] = "unborn" /\ State'[t] = "ready"

\* The abstract steps, token by token.
LEMMA ReplaceStep ==
    ASSUME \A t \in Tokens : State'[t] = State[t] \/ Withdrawn(t) \/ Issued(t),
           UNCHANGED passes
    PROVE  Promise
  <1>1. PICK W \in SUBSET Tokens : W = {t \in Tokens : Withdrawn(t)}
    OBVIOUS
  <1>2. PICK N \in SUBSET Tokens : N = {t \in Tokens : Issued(t)}
    OBVIOUS
  <1>3. State' = OneShotTokens!Marked(W, N)
    BY <1>1, <1>2 DEF State, Tokens, OneShotTokens!Marked, Withdrawn, Issued
  <1>4. OneShotTokens!Replace(W, N)
    BY <1>1, <1>2, <1>3
    DEF State, Tokens, OneShotTokens!Replace, OneShotTokens!In, Withdrawn, Issued
  <1> QED  BY <1>4 DEF Promise, OneShotTokens!OneShotNext, Tokens

LEMMA PassStep ==
    ASSUME NEW t \in Tokens, State[t] = "ready", State'[t] = "used",
           \A u \in Tokens \ {t} : State'[u] = State[u] \/ Withdrawn(u),
           passes' = [passes EXCEPT ![t] = @ + 1]
    PROVE  Promise
  <1>1. PICK W \in SUBSET Tokens : W = {u \in Tokens : Withdrawn(u)}
    OBVIOUS
  <1>2. State' = [OneShotTokens!Marked(W, {}) EXCEPT ![t] = "used"]
    BY <1>1 DEF State, Tokens, OneShotTokens!Marked, Withdrawn
  <1>3. OneShotTokens!Pass(t, W)
    BY <1>1, <1>2 DEF State, Tokens, OneShotTokens!Pass, OneShotTokens!In, Withdrawn
  <1> QED  BY <1>3 DEF Promise, OneShotTokens!OneShotNext, Tokens

LEMMA ClaimCodeStep ==
    ASSUME AccountInv, NEW h \in Handlers, ClaimCode(h)
    PROVE  Promise \/ UNCHANGED <<code, link, passes>>
  <1> DEFINE c == req[h].arg
  <1>1. c \in Codes
    BY DEF AccountInv, RequestsFit, Fits, ClaimCode, At
  <1>2. CASE code[c] = "ready"
    <2>1. code' = [code EXCEPT ![c] = "used"] /\ UNCHANGED link
          /\ passes' = [passes EXCEPT ![c] = @ + 1]
      BY <1>2 DEF ClaimCode
    <2>2. c \in Tokens /\ State[c] = "ready" /\ State'[c] = "used"
      BY <1>1, <1>2, <2>1 DEF AccountInv, DataOK, State, Tokens
    <2>3. \A u \in Tokens \ {c} : State'[u] = State[u]
      BY <1>1, <2>1 DEF AccountInv, DataOK, State, Tokens
    <2> QED  BY <2>1, <2>2, <2>3, PassStep
  <1>3. CASE code[c] # "ready"
    BY <1>3 DEF ClaimCode
  <1> QED  BY <1>2, <1>3

\* The codes D, which are rows, are deleted, and the codes N are created.
LEMMA NewCodesStep ==
    ASSUME AccountInv, NEW D \in SUBSET Rows, NEW N \in SUBSET Codes,
           \A c \in N : code[c] = "unborn", code' = NewCodes(D, N), UNCHANGED <<link, passes>>
    PROVE  Promise
  <1>1. \A t \in Tokens : State'[t] = State[t] \/ Withdrawn(t) \/ Issued(t)
    BY DEF NewCodes, State, Tokens, Withdrawn, Issued, Rows
  <1> QED  BY <1>1, ReplaceStep

LEMMA DropLinksStep ==
    ASSUME AccountInv, NEW h \in Handlers, DropLinks(h)
    PROVE  Promise
  <1>1. \A t \in Links : t \notin Codes
    BY AccountAssumption DEF AccountAssumption
  <1>2. UNCHANGED <<code, passes>>
    BY DEF DropLinks, history
  <1>3. \A t \in Tokens : State'[t] = State[t] \/ Withdrawn(t)
    BY <1>1, <1>2 DEF DropLinks, State, Tokens, Withdrawn
  <1> QED  BY <1>2, <1>3, ReplaceStep

LEMMA CreateLinkStep ==
    ASSUME AccountInv, NEW h \in Handlers, CreateLink(h)
    PROVE  Promise
  <1>1. PICK t \in Links : link[t] = "unborn" /\ link' = [link EXCEPT ![t] = "ready"]
    BY DEF CreateLink
  <1>2. t \notin Codes
    BY AccountAssumption DEF AccountAssumption
  <1>3. UNCHANGED <<code, passes>>
    BY DEF CreateLink, history
  <1>4. \A u \in Tokens : State'[u] = State[u] \/ Issued(u)
    BY <1>1, <1>2, <1>3 DEF AccountInv, DataOK, State, Tokens, Issued
  <1> QED  BY <1>3, <1>4, ReplaceStep

LEMMA ChangePasswordStep ==
    ASSUME AccountInv, NEW h \in Handlers, ChangePassword(h)
    PROVE  Promise \/ UNCHANGED <<code, link, passes>>
  <1> DEFINE t == req[h].arg
  <1>1. t \in Links /\ \A u \in Links : u \notin Codes
    BY AccountAssumption
    DEF AccountInv, RequestsFit, Fits, ChangePassword, At, AccountAssumption
  <1>2. CASE link[t] = "ready" /\ t \notin over /\ user.active
    <2>1. UNCHANGED code /\ passes' = [passes EXCEPT ![t] = @ + 1]
      BY <1>2 DEF ChangePassword
    <2>2. link' = [u \in Links |-> IF u = t THEN "used"
                                   ELSE IF link[u] \in {"ready", "used"} THEN "gone"
                                   ELSE link[u]]
      BY <1>2 DEF ChangePassword
    <2>3. t \in Tokens /\ State[t] = "ready" /\ State'[t] = "used"
      BY <1>1, <1>2, <2>2 DEF State, Tokens
    <2>4. \A u \in Tokens \ {t} : State'[u] = State[u] \/ Withdrawn(u)
      BY <1>1, <2>1, <2>2 DEF State, Tokens, Withdrawn
    <2> QED  BY <2>1, <2>3, <2>4, PassStep
  <1>3. CASE ~(link[t] = "ready" /\ t \notin over /\ user.active)
    BY <1>3 DEF ChangePassword
  <1> QED  BY <1>2, <1>3

LEMMA RequestStep ==
    ASSUME AccountInv, NEW h \in Handlers, Arrives(h) \/ GoesOn(h) \/ Fault(h)
    PROVE  Promise \/ UNCHANGED <<code, link, passes>>
  <1>1. ASSUME Arrives(h) \/ Fault(h)
        PROVE  UNCHANGED <<code, link, passes>>
    BY <1>1 DEF Arrives, Fault, ReadSession, Login, ForgotPassword, ReadLink, ChangeStatus,
                dbVars, history
  <1>2. CASE WipeCodes(h)
    BY <1>2, NewCodesStep DEF WipeCodes, history
  <1>3. CASE IssueCodes(h)
    BY <1>3, NewCodesStep DEF IssueCodes, FreshSets, history
  <1>4. CASE Regenerate(h)
    BY <1>4, NewCodesStep DEF Regenerate, FreshSets, history
  <1>5. ASSUME MarkExpired(h) \/ ReadMembership(h) \/ RevokeSession(h) \/ FindCode(h)
               \/ CreateSecret(h) \/ CountCodes(h) \/ CreateSession(h) \/ WriteStatus(h)
               \/ CloseSessions(h) \/ Persist(h)
        PROVE  UNCHANGED <<code, link, passes>>
    BY <1>5 DEF MarkExpired, ReadMembership, RevokeSession, FindCode, CreateSecret,
                CountCodes, CreateSession, WriteStatus, CloseSessions, Persist, dbVars, history
  <1> QED  BY <1>1, <1>2, <1>3, <1>4, <1>5, ClaimCodeStep, DropLinksStep, CreateLinkStep,
              ChangePasswordStep DEF GoesOn

LEMMA AccountStep ==
    AccountInv /\ [AccountNext]_accountVars =>
        [OneShotTokens!OneShotNext]_(OneShotTokens!oneShotVars)
  <1> SUFFICES ASSUME AccountInv, [AccountNext]_accountVars
               PROVE  Promise \/ UNCHANGED <<code, link, passes>>
    BY DEF Promise, OneShotTokens!oneShotVars
  <1>1. ASSUME \/ LoseAdminRole \/ LeaveWorkspace \/ Tick
               \/ \E x \in Sessions \union Links : TimeOver(x)
        PROVE  UNCHANGED <<code, link, passes>>
    BY <1>1 DEF LoseAdminRole, LeaveWorkspace, Tick, TimeOver, dbVars, history
  <1>2. CASE UNCHANGED accountVars
    BY <1>2 DEF accountVars
  <1> QED  BY <1>1, <1>2, RequestStep DEF AccountNext

\* An account implements OneShot: whatever requests overlap or fail, every step of the
\* two tables issues, withdraws or uses up codes and links as OneShot allows.
THEOREM AccountImplementsOneShot == AccountSpec => CodesAndLinksPassOnce
  <1>1. AccountInit => OneShotTokens!OneShotInit
    <2> SUFFICES ASSUME AccountInit
                 PROVE  OneShotTokens!OneShotInit
      OBVIOUS
    <2>1. State \in [Tokens -> {"unborn", "ready"}]
      BY DEF AccountInit, State, Tokens
    <2> QED  BY <2>1 DEF AccountInit, State, Tokens, OneShotTokens!OneShotInit
  <1> QED  BY <1>1, Invariant, AccountStep, PTL
           DEF AccountSpec, CodesAndLinksPassOnce, OneShotTokens!OneShotSpec

\* What OneShot promises of its own states and steps.
LEMMA ReplaceKeeps ==
    ASSUME OneShotTokens!OneShotInv, NEW W \in SUBSET Tokens, NEW N \in SUBSET Tokens,
           OneShotTokens!Replace(W, N)
    PROVE  OneShotTokens!OneShotInv'
  <1>1. State \in [Tokens -> TokenState] /\ State' = OneShotTokens!Marked(W, N)
    BY DEF OneShotTokens!OneShotInv, OneShotTokens!Replace, State, Tokens, TokenState
  <1>2. State' = [t \in Tokens |-> IF t \in W THEN "gone"
                                   ELSE IF t \in N THEN "ready" ELSE State[t]]
    BY <1>1 DEF OneShotTokens!Marked, State, Tokens
  <1>3. State' \in [Tokens -> TokenState]
    BY <1>1, <1>2 DEF TokenState
  <1>4. ASSUME NEW t \in Tokens, passes[t] = 1
        PROVE  State'[t] \in {"used", "gone"}
    <2>1. State[t] \in {"used", "gone"}
      BY <1>4 DEF OneShotTokens!OneShotInv, State, Tokens
    <2>2. t \notin N
      BY <2>1 DEF OneShotTokens!Replace, OneShotTokens!In, State, Tokens
    <2> QED  BY <1>2, <2>1, <2>2
  <1>5. UNCHANGED passes /\ passes \in [Tokens -> {0, 1}]
    BY DEF OneShotTokens!OneShotInv, OneShotTokens!Replace, Tokens
  <1> QED  BY <1>3, <1>4, <1>5 DEF OneShotTokens!OneShotInv, State, Tokens, TokenState

LEMMA PassKeeps ==
    ASSUME OneShotTokens!OneShotInv, NEW W \in SUBSET Tokens, NEW t \in Tokens,
           OneShotTokens!Pass(t, W)
    PROVE  OneShotTokens!OneShotInv'
  <1>1. /\ State \in [Tokens -> TokenState] /\ passes \in [Tokens -> {0, 1}]
        /\ \A u \in Tokens : passes[u] = 1 => State[u] \in {"used", "gone"}
    BY DEF OneShotTokens!OneShotInv, State, Tokens, TokenState
  <1>2. /\ State[t] = "ready" /\ passes' = [passes EXCEPT ![t] = @ + 1]
        /\ State' = [[u \in Tokens |-> IF u \in W THEN "gone" ELSE State[u]]
                         EXCEPT ![t] = "used"]
    BY DEF OneShotTokens!Pass, OneShotTokens!Marked, State, Tokens
  <1>3. passes[t] = 0
    BY <1>1, <1>2
  <1>4. State' \in [Tokens -> TokenState] /\ passes' \in [Tokens -> {0, 1}]
    BY <1>1, <1>2, <1>3 DEF TokenState
  <1>5. ASSUME NEW u \in Tokens, passes'[u] = 1
        PROVE  State'[u] \in {"used", "gone"}
    BY <1>1, <1>2, <1>5
  <1> QED  BY <1>4, <1>5 DEF OneShotTokens!OneShotInv, State, Tokens, TokenState

\* Every recovery code and every password link of an account lets at most one request
\* pass, and one that has is used or withdrawn: what OneShot promises, and thus what an
\* account, which implements it, keeps.
THEOREM TokensPassOnce == AccountSpec => []OneShotTokens!OneShotInv
  <1>1. OneShotTokens!OneShotInit => OneShotTokens!OneShotInv
    BY DEF OneShotTokens!OneShotInit, OneShotTokens!OneShotInv
  <1>2. OneShotTokens!OneShotInv
        /\ [OneShotTokens!OneShotNext]_(OneShotTokens!oneShotVars)
            => OneShotTokens!OneShotInv'
    <2> SUFFICES ASSUME OneShotTokens!OneShotInv,
                        [OneShotTokens!OneShotNext]_(OneShotTokens!oneShotVars)
                 PROVE  OneShotTokens!OneShotInv'
      OBVIOUS
    <2>1. CASE UNCHANGED OneShotTokens!oneShotVars
      BY <2>1 DEF OneShotTokens!OneShotInv, OneShotTokens!oneShotVars
    <2>2. CASE OneShotTokens!OneShotNext
      BY <2>2, ReplaceKeeps, PassKeeps DEF OneShotTokens!OneShotNext, Tokens
    <2> QED  BY <2>1, <2>2
  <1> QED  BY <1>1, <1>2, AccountImplementsOneShot, PTL
           DEF CodesAndLinksPassOnce, OneShotTokens!OneShotSpec

-----------------------------------------------------------------------------
(* What closes the sessions of an account *)

\* No session is opened: what is live was live, and rows keep their password.
OpensNone ==
    \A s \in Sessions :
        /\ Live(session'[s]) => Live(session[s])
        /\ session[s] # None => session'[s] # None /\ session'[s].password = session[s].password

LEMMA StatusOpensNone ==
    ASSUME DataOK, NEW s \in Sessions, session[s] # None,
           NEW status \in {"revoked", "expired"}, SetStatus(s, status)
    PROVE  OpensNone
  <1>1. session[s] \in Row
    BY DEF DataOK
  <1>2. /\ [session[s] EXCEPT !.status = status].status = status
        /\ [session[s] EXCEPT !.status = status].password = session[s].password
        /\ [session[s] EXCEPT !.status = status] \in Row
    BY <1>1 DEF Row
  <1> QED  BY <1>2, AccountAssumption DEF DataOK, SetStatus, OpensNone, Live, AccountAssumption

LEMMA CloseOpensNone ==
    ASSUME DataOK, session' = Close({"pending", "active"})
    PROVE  OpensNone /\ \A s \in Sessions : ~Live(session'[s])
  <1>1. ASSUME NEW s \in Sessions, session[s] # None
        PROVE  /\ [session[s] EXCEPT !.status = "revoked"] \in Row
               /\ [session[s] EXCEPT !.status = "revoked"].status = "revoked"
               /\ [session[s] EXCEPT !.status = "revoked"].password = session[s].password
    BY <1>1 DEF DataOK, Row
  <1> QED  BY <1>1, AccountAssumption DEF DataOK, Close, OpensNone, Live, AccountAssumption

LEMMA SameOpensNone ==
    ASSUME UNCHANGED session
    PROVE  OpensNone
  BY DEF OpensNone

\* What a step that opens no session does to request g: nothing; it ends it, though not
\* before it has closed what it is to close; it takes it on with what it has; or it
\* begins another that cannot open a session.
Steady(g) ==
    \/ pc'[g] = pc[g] /\ req'[g] = req[g]
    \/ pc'[g] = "idle" /\ req'[g] = NoRequest /\ (pc[g] = "close" => faults' > 0)
    \/ /\ pc[g] \notin {"idle", "close"} /\ req'[g] = req[g]
       /\ pc'[g] \in InSession => pc[g] \in InSession
       /\ pc'[g] # "open"
    \/ /\ pc'[g] \notin InSession \union {"open"} /\ pc[g] # "close"
       /\ ~ChecksCode(req'[g].op) /\ req'[g].op # "login"

Calm ==
    /\ OpensNone /\ raced' = raced /\ faults' >= faults
    /\ user'.active = user.active /\ user'.password = user.password
    /\ \A g \in Handlers : Steady(g)

LEMMA EndCalm ==
    ASSUME RequestsFit, NEW h \in Handlers, End(h), pc[h] = "close" => faults' > 0
    PROVE  \A g \in Handlers : Steady(g)
  BY DEF RequestsFit, End, Goto, Steady

LEMMA ContinueCalm ==
    ASSUME RequestsFit, NEW h \in Handlers, pc[h] \notin {"idle", "close"},
           NEW stage, stage # "open", stage \in InSession => pc[h] \in InSession,
           Continue(h, stage)
    PROVE  \A g \in Handlers : Steady(g)
  BY DEF RequestsFit, Continue, Goto, Steady

LEMMA GoCalm ==
    ASSUME RequestsFit, NEW h \in Handlers, pc[h] \notin {"idle", "close"},
           NEW stage, stage # "open", stage \in InSession => pc[h] \in InSession,
           Go(h, stage)
    PROVE  \A g \in Handlers : Steady(g)
  BY EndCalm, ContinueCalm DEF Go

LEMMA AskCalm ==
    ASSUME RequestsFit, NEW h \in Handlers, NEW r, NEW stage, Ask(h, r, stage),
           stage \notin InSession \union {"open"}, ~ChecksCode(r.op), r.op # "login"
    PROVE  \A g \in Handlers : Steady(g)
  BY DEF RequestsFit, Ask, Goto, At, Steady

LEMMA PlainAsk ==
    ASSUME NEW h \in Handlers,
           \/ ForgotPassword(h)
           \/ \E t \in Links : ReadLink(h, t)
           \/ \E active \in BOOLEAN : ChangeStatus(h, active)
    PROVE  \E r, stage : /\ Ask(h, r, stage) /\ r.op \in {"forgot", "reset", "status"}
                         /\ stage \in {"drop", "change", "set"}
  BY DEF ForgotPassword, ReadLink, ChangeStatus, NoRequest

\* The requests and steps that open no session and close none.
LEMMA CalmSteps ==
    ASSUME AccountInv, NEW h \in Handlers,
           \/ MarkExpired(h) \/ ReadMembership(h) \/ RevokeSession(h) \/ FindCode(h)
           \/ ClaimCode(h) \/ CreateSecret(h) \/ CountCodes(h) \/ WipeCodes(h)
           \/ IssueCodes(h) \/ Regenerate(h) \/ DropLinks(h) \/ CreateLink(h)
           \/ Fault(h) \/ ForgotPassword(h)
           \/ \E t \in Links : ReadLink(h, t)
           \/ \E active \in BOOLEAN : ChangeStatus(h, active)
    PROVE  Calm
  <1> USE DEF AccountInv, At
  <1>1. ASSUME MarkExpired(h)
        PROVE  Calm
    <2>1. req[h].session \in Sessions /\ session[req[h].session] # None
      BY <1>1 DEF RequestsFit, Fits, SessionThere, MarkExpired, InSession
    <2> QED  BY <1>1, <2>1, StatusOpensNone, EndCalm
             DEF MarkExpired, Calm, DataOK, runVars, history
  <1>2. ASSUME RevokeSession(h)
        PROVE  Calm
    <2>1. req[h].session \in Sessions /\ session[req[h].session] # None
      BY <1>2 DEF RequestsFit, Fits, SessionThere, RevokeSession, InSession
    <2> QED  BY <1>2, <2>1, StatusOpensNone, EndCalm
             DEF RevokeSession, Calm, DataOK, runVars, history
  <1>3. ASSUME ReadMembership(h)
        PROVE  Calm
    <2>1. Fits("member", req[h]) /\ pc[h] = "member"
      BY <1>3 DEF RequestsFit, ReadMembership
    <2>2. PICK stage \in {"revoke", Endpoint(req[h])} : Go(h, stage)
      BY <1>3 DEF ReadMembership
    <2>3. stage # "open"
      BY <2>1, <2>2 DEF Endpoint, Fits, InSession, SessionOp
    <2> QED  BY <1>3, <2>1, <2>2, <2>3, GoCalm, SameOpensNone
             DEF ReadMembership, Calm, DataOK, InSession, dbVars, runVars, history
  <1>4. ASSUME FindCode(h) \/ CountCodes(h)
        PROVE  Calm
    BY <1>4, GoCalm, SameOpensNone
    DEF FindCode, CountCodes, Calm, DataOK, InSession, dbVars, runVars, history
  <1>5. ASSUME ClaimCode(h) \/ WipeCodes(h) \/ DropLinks(h)
        PROVE  Calm
    BY <1>5, ContinueCalm, EndCalm, SameOpensNone
    DEF ClaimCode, WipeCodes, DropLinks, Calm, DataOK, InSession, runVars, history
  <1>6. ASSUME CreateSecret(h) \/ IssueCodes(h) \/ Regenerate(h) \/ CreateLink(h)
        PROVE  Calm
    BY <1>6, EndCalm, SameOpensNone
    DEF CreateSecret, IssueCodes, Regenerate, CreateLink, Calm, DataOK, runVars, history
  <1>7. ASSUME Fault(h)
        PROVE  Calm
    BY <1>7, EndCalm, SameOpensNone DEF Fault, Calm, DataOK, dbVars, history
  <1>8. ASSUME ForgotPassword(h) \/ (\E t \in Links : ReadLink(h, t))
               \/ \E active \in BOOLEAN : ChangeStatus(h, active)
        PROVE  Calm
    <2>1. PICK r, stage : /\ Ask(h, r, stage) /\ r.op \in {"forgot", "reset", "status"}
                          /\ stage \in {"drop", "change", "set"}
      BY <1>8, PlainAsk
    <2>2. \A g \in Handlers : Steady(g)
      BY <2>1, AskCalm DEF InSession, ChecksCode
    <2>3. UNCHANGED <<session, user, raced, faults>>
      BY <1>8 DEF ForgotPassword, ReadLink, ChangeStatus, Ask, dbVars, history
    <2> QED  BY <2>2, <2>3, SameOpensNone DEF Calm, DataOK
  <1> QED  BY <1>1, <1>2, <1>3, <1>4, <1>5, <1>6, <1>7, <1>8

LEMMA StillCalm ==
    ASSUME AccountInv,
           \/ UNCHANGED accountVars \/ LoseAdminRole \/ Tick
           \/ \E x \in Sessions \union Links : TimeOver(x)
    PROVE  Calm
  BY SameOpensNone
  DEF AccountInv, DataOK, UserRow, LoseAdminRole, Tick, TimeOver, Calm, Steady, accountVars,
      dbVars, runVars, history

\* The password a request may open a session with.
PasswordFits(h) ==
    /\ pc[h] \in InSession /\ ChecksCode(req[h].op) =>
           session[req[h].session].password = user.password
    /\ pc[h] = "open" => req[h].row.password = user.password

PasswordInv ==
    ~raced => /\ \A s \in Sessions : Live(session[s]) => session[s].password = user.password
              /\ \A h \in Handlers : PasswordFits(h)

\* Nothing opens a session after an account was closed: the suspending request has still
\* to close the sessions, or none is live and no request can make one live.
SuspendedInv ==
    ~user.active /\ ~raced /\ faults = 0 =>
        \/ \E h \in Handlers : pc[h] = "close"
        \/ Opening = {} /\ \A s \in Sessions : ~Live(session[s])

ClosingInv == PasswordInv /\ SuspendedInv

LEMMA CalmPassword ==
    ASSUME AccountInv, PasswordInv, Calm
    PROVE  PasswordInv'
  <1> SUFFICES ASSUME ~raced
               PROVE  /\ \A s \in Sessions :
                               Live(session'[s]) => session'[s].password = user'.password
                      /\ \A h \in Handlers : PasswordFits(h)'
    BY DEF PasswordInv, Calm
  <1>1. ASSUME NEW s \in Sessions, Live(session'[s])
        PROVE  session'[s].password = user'.password
    BY <1>1 DEF Calm, OpensNone, PasswordInv, Live
  <1>2. ASSUME NEW h \in Handlers
        PROVE  PasswordFits(h)'
    <2>1. PasswordFits(h) /\ Fits(pc[h], req[h]) /\ SessionThere(h) /\ Steady(h)
      BY DEF PasswordInv, AccountInv, RequestsFit, Calm
    <2>2. pc[h] \in InSession =>
             session'[req[h].session].password = session[req[h].session].password
      BY <2>1 DEF Fits, SessionThere, Calm, OpensNone
    <2> QED  BY <2>1, <2>2 DEF PasswordFits, Steady, InSession, Calm, ChecksCode
  <1> QED  BY <1>1, <1>2

LEMMA CalmSuspended ==
    ASSUME AccountInv, SuspendedInv, Calm
    PROVE  SuspendedInv'
  <1> SUFFICES ASSUME ~user.active, ~raced, faults' = 0
               PROVE  \/ \E h \in Handlers : pc'[h] = "close"
                      \/ Opening' = {} /\ \A s \in Sessions : ~Live(session'[s])
    BY DEF SuspendedInv, Calm
  <1>1. faults = 0
    BY AccountAssumption DEF AccountInv, DataOK, Calm, AccountAssumption
  <1>2. ASSUME NEW h \in Handlers, pc[h] = "close"
        PROVE  pc'[h] = "close"
    BY <1>2 DEF Calm, Steady
  <1>3. ASSUME Opening = {}
        PROVE  Opening' = {}
    <2>1. ASSUME NEW h \in Handlers, h \notin Opening
          PROVE  h \notin Opening'
      BY <2>1 DEF Calm, Steady, Opening
    <2> QED  BY <1>3, <2>1 DEF Opening
  <1>4. \A s \in Sessions : Live(session'[s]) => Live(session[s])
    BY DEF Calm, OpensNone
  <1> QED  BY <1>1, <1>2, <1>3, <1>4 DEF SuspendedInv

\* The steps that are not calm, for the password and for the suspension.
LEMMA ReadSessionCloses ==
    ASSUME AccountInv, ClosingInv, NEW h \in Handlers, NEW s \in Sessions, NEW op, NEW arg,
           ReadSession(h, op, s, arg)
    PROVE  ClosingInv'
  <1>1. Live(session[s]) /\ UNCHANGED <<session, user, raced, faults>> /\ pc[h] = "idle"
    BY DEF ReadSession, Ask, At, dbVars
  <1>2. /\ pc' = [pc EXCEPT ![h] = IF s \in over THEN "expire" ELSE "member"]
        /\ \A g \in Handlers \ {h} : req'[g] = req[g]
        /\ req'[h].session = s
    BY DEF ReadSession, Ask, Goto, AccountInv, RequestsFit
  <1>3. PasswordInv'
    BY <1>1, <1>2
    DEF ClosingInv, PasswordInv, PasswordFits, AccountInv, RequestsFit
  <1>4. SuspendedInv'
    BY <1>1, <1>2 DEF ClosingInv, SuspendedInv, AccountInv, RequestsFit
  <1> QED  BY <1>3, <1>4 DEF ClosingInv

LEMMA LoginCloses ==
    ASSUME AccountInv, ClosingInv, NEW h \in Handlers, Login(h)
    PROVE  ClosingInv'
  <1>1. user.active /\ UNCHANGED <<session, user, raced, faults>>
    BY DEF Login, Ask, dbVars, history
  <1>2. /\ pc' = [pc EXCEPT ![h] = "open"]
        /\ \A g \in Handlers \ {h} : req'[g] = req[g]
        /\ req'[h].row.password = user.password
    BY DEF Login, Ask, Goto, AccountInv, RequestsFit, NoRequest
  <1>3. PasswordInv'
    BY <1>1, <1>2
    DEF ClosingInv, PasswordInv, PasswordFits, AccountInv, RequestsFit, InSession
  <1> QED  BY <1>1, <1>3 DEF ClosingInv, SuspendedInv

LEMMA PersistCloses ==
    ASSUME AccountInv, ClosingInv, NEW h \in Handlers, Persist(h)
    PROVE  ClosingInv'
  <1> DEFINE s == req[h].session
  <1>1. /\ Fits("persist", req[h]) /\ pc[h] = "persist" /\ s \in Sessions /\ session[s] \in Row
        /\ ChecksCode(req[h].op)
    BY DEF AccountInv, DataOK, RequestsFit, Fits, SessionThere, Persist, At, InSession
  <1>2. UNCHANGED <<user, raced, faults>>
    BY DEF Persist, runVars
  <1>3. \A g \in Handlers : Steady(g)
    <2>1. req[h].op = "confirm" => "count" \notin InSession
      BY DEF InSession
    <2> QED  BY <1>1, <2>1, GoCalm, EndCalm DEF AccountInv, Persist, InSession
  <1>4. /\ \A t \in Sessions \ {s} : session'[t] = session[t]
        /\ session'[s].password = session[s].password
        /\ session'[s] # None
    BY <1>1, AccountAssumption DEF AccountInv, DataOK, Persist, Row, AccountAssumption
  <1>5. PasswordInv'
    <2> SUFFICES ASSUME ~raced
                 PROVE  /\ \A t \in Sessions :
                                 Live(session'[t]) => session'[t].password = user.password
                        /\ \A g \in Handlers : PasswordFits(g)'
      BY <1>2 DEF PasswordInv
    <2>1. session[s].password = user.password
      BY <1>1 DEF ClosingInv, PasswordInv, PasswordFits, InSession
    <2>2. ASSUME NEW g \in Handlers
          PROVE  PasswordFits(g)'
      <3>1. PasswordFits(g) /\ Fits(pc[g], req[g]) /\ Steady(g)
        BY <1>3 DEF ClosingInv, PasswordInv, AccountInv, RequestsFit
      <3>2. pc[g] \in InSession =>
               session'[req[g].session].password = session[req[g].session].password
        BY <1>4, <3>1 DEF Fits
      <3> QED  BY <1>2, <3>1, <3>2 DEF PasswordFits, Steady, InSession, ChecksCode
    <2> QED  BY <1>4, <2>1, <2>2 DEF ClosingInv, PasswordInv
  <1>6. SuspendedInv'
    <2>1. h \in Opening
      BY <1>1 DEF Opening
    <2>2. \A g \in Handlers : pc[g] = "close" /\ faults = 0 => pc'[g] = "close"
      BY <1>2, <1>3 DEF Steady
    <2> QED  BY <1>2, <2>1, <2>2 DEF ClosingInv, SuspendedInv
  <1> QED  BY <1>5, <1>6 DEF ClosingInv

LEMMA CreateSessionCloses ==
    ASSUME AccountInv, ClosingInv, NEW h \in Handlers, CreateSession(h)
    PROVE  ClosingInv'
  <1>1. /\ Fits("open", req[h]) /\ pc[h] = "open" /\ req[h].op = "login"
        /\ req[h].row \in Row
    BY DEF AccountInv, RequestsFit, Fits, CreateSession, At
  <1>2. UNCHANGED <<user, raced, faults>>
    BY DEF CreateSession, runVars, history
  <1>3. \A g \in Handlers : Steady(g)
    BY <1>1, EndCalm DEF AccountInv, CreateSession
  <1>4. PICK s \in Sessions : session[s] = None /\ session' = [session EXCEPT ![s] = req[h].row]
    BY DEF CreateSession
  <1>5. PasswordInv'
    <2> SUFFICES ASSUME ~raced
                 PROVE  /\ \A t \in Sessions :
                                 Live(session'[t]) => session'[t].password = user.password
                        /\ \A g \in Handlers : PasswordFits(g)'
      BY <1>2 DEF PasswordInv
    <2>1. req[h].row.password = user.password
      BY <1>1 DEF ClosingInv, PasswordInv, PasswordFits
    <2>2. \A t \in Sessions : Live(session'[t]) => session'[t].password = user.password
      BY <1>4, <2>1 DEF ClosingInv, PasswordInv, AccountInv, DataOK
    <2>3. ASSUME NEW g \in Handlers
          PROVE  PasswordFits(g)'
      <3>1. PasswordFits(g) /\ Fits(pc[g], req[g]) /\ SessionThere(g) /\ Steady(g)
        BY <1>3 DEF ClosingInv, PasswordInv, AccountInv, RequestsFit
      <3>2. pc[g] \in InSession => session'[req[g].session] = session[req[g].session]
        BY <1>4, <3>1 DEF Fits, SessionThere, AccountInv, DataOK
      <3> QED  BY <1>2, <3>1, <3>2 DEF PasswordFits, Steady, InSession, ChecksCode
    <2> QED  BY <2>2, <2>3
  <1>6. SuspendedInv'
    <2>1. h \in Opening
      BY <1>1 DEF Opening
    <2>2. \A g \in Handlers : pc[g] = "close" /\ faults = 0 => pc'[g] = "close"
      BY <1>2, <1>3 DEF Steady
    <2> QED  BY <1>2, <2>1, <2>2 DEF ClosingInv, SuspendedInv
  <1> QED  BY <1>5, <1>6 DEF ClosingInv

\* All sessions are closed: what could still open one is recorded as a race.
LEMMA ClosesAll ==
    ASSUME AccountInv', \A s \in Sessions : ~Live(session'[s]), Opening' \subseteq Opening,
           raced' = (raced \/ Opening # {})
    PROVE  ClosingInv'
  <1>1. ~raced' => Opening' = {}
    OBVIOUS
  <1>2. SuspendedInv'
    BY <1>1 DEF SuspendedInv
  <1>3. ASSUME NEW h \in Handlers, Opening' = {}
        PROVE  PasswordFits(h)'
    <2>1. Fits(pc'[h], req'[h])
      BY DEF AccountInv, RequestsFit
    <2>2. pc'[h] # "open"
      BY <1>3, <2>1 DEF Opening, Fits
    <2>3. ~(pc'[h] \in InSession /\ ChecksCode(req'[h].op))
      BY <1>3 DEF Opening, InSession
    <2> QED  BY <2>2, <2>3 DEF PasswordFits
  <1>4. PasswordInv'
    BY <1>1, <1>3 DEF PasswordInv
  <1> QED  BY <1>2, <1>4 DEF ClosingInv

LEMMA EndsOpening ==
    ASSUME RequestsFit, NEW h \in Handlers, End(h)
    PROVE  Opening' \subseteq Opening
  BY DEF RequestsFit, End, Goto, Opening

LEMMA ChangePasswordCloses ==
    ASSUME AccountInv, AccountInv', ClosingInv, NEW h \in Handlers, ChangePassword(h)
    PROVE  ClosingInv'
  <1> DEFINE t == req[h].arg
             claims == link[t] = "ready" /\ t \notin over /\ user.active
  <1>1. End(h) /\ UNCHANGED faults /\ pc[h] = "change"
    BY DEF ChangePassword, runVars, At
  <1>2. CASE claims
    <2>1. session' = Close({"pending", "active"}) /\ raced' = (raced \/ Opening # {})
      BY <1>2 DEF ChangePassword
    <2> QED  BY <1>1, <2>1, CloseOpensNone, EndsOpening, ClosesAll DEF AccountInv
  <1>3. CASE ~claims
    <2>1. UNCHANGED <<user, session, raced>>
      BY <1>3 DEF ChangePassword
    <2>2. Calm
      BY <1>1, <2>1, EndCalm, SameOpensNone DEF Calm, AccountInv, DataOK
    <2> QED  BY <2>2, CalmPassword, CalmSuspended DEF ClosingInv
  <1> QED  BY <1>2, <1>3

LEMMA CloseSessionsCloses ==
    ASSUME AccountInv, AccountInv', NEW h \in Handlers, CloseSessions(h)
    PROVE  ClosingInv'
  BY CloseOpensNone, EndsOpening, ClosesAll DEF AccountInv, CloseSessions

LEMMA LeaveWorkspaceCloses ==
    ASSUME AccountInv, AccountInv', LeaveWorkspace
    PROVE  ClosingInv'
  <1>1. Opening' = Opening
    BY DEF LeaveWorkspace, Opening
  <1> QED  BY <1>1, CloseOpensNone, ClosesAll DEF AccountInv, LeaveWorkspace

LEMMA WriteStatusCloses ==
    ASSUME AccountInv, ClosingInv, NEW h \in Handlers, WriteStatus(h)
    PROVE  ClosingInv'
  <1>1. /\ pc[h] = "set" /\ user' = [user EXCEPT !.active = req[h].active]
        /\ UNCHANGED <<session, raced, faults>>
    BY DEF WriteStatus, At, runVars, history
  <1>2. PICK stage \in {"idle", "close"} : /\ Go(h, stage)
                                           /\ ~req[h].active => stage = "close"
    BY DEF WriteStatus
  <1>3. \A g \in Handlers : Steady(g)
    BY <1>1, <1>2, GoCalm DEF AccountInv, InSession
  <1>4. user'.password = user.password /\ user'.active = req[h].active
    BY <1>1 DEF AccountInv, DataOK, UserRow
  <1>5. PasswordInv'
    <2> SUFFICES ASSUME ~raced
                 PROVE  PasswordInv'
      BY <1>1 DEF PasswordInv
    <2>1. ASSUME NEW g \in Handlers
          PROVE  PasswordFits(g)'
      <3>1. PasswordFits(g) /\ Steady(g)
        BY <1>3 DEF ClosingInv, PasswordInv
      <3> QED  BY <1>1, <1>4, <3>1 DEF PasswordFits, Steady, InSession, ChecksCode
    <2> QED  BY <1>1, <1>4, <2>1 DEF ClosingInv, PasswordInv
  <1>6. SuspendedInv'
    <2>1. CASE req[h].active
      BY <1>4, <2>1 DEF SuspendedInv
    <2>2. CASE ~req[h].active
      <3>1. pc'[h] = "close"
        BY <1>2, <2>2 DEF AccountInv, RequestsFit, Go, Continue, Goto
      <3> QED  BY <3>1 DEF SuspendedInv
    <2> QED  BY <2>1, <2>2
  <1> QED  BY <1>5, <1>6 DEF ClosingInv

LEMMA ClosingStep ==
    AccountInv /\ AccountInv' /\ ClosingInv /\ [AccountNext]_accountVars => ClosingInv'
  <1> SUFFICES ASSUME AccountInv, AccountInv', ClosingInv, [AccountNext]_accountVars
               PROVE  ClosingInv'
    OBVIOUS
  <1>1. CASE Calm
    BY <1>1, CalmPassword, CalmSuspended DEF ClosingInv
  <1>2. ASSUME NEW h \in Handlers, Arrives(h)
        PROVE  ClosingInv'
    BY <1>1, <1>2, CalmSteps, ReadSessionCloses, LoginCloses DEF Arrives
  <1>3. ASSUME NEW h \in Handlers, GoesOn(h)
        PROVE  ClosingInv'
    BY <1>1, <1>3, CalmSteps, PersistCloses, CreateSessionCloses, ChangePasswordCloses,
       CloseSessionsCloses, WriteStatusCloses
    DEF GoesOn
  <1>4. ASSUME NEW h \in Handlers, Fault(h)
        PROVE  ClosingInv'
    BY <1>1, <1>4, CalmSteps
  <1>5. CASE LeaveWorkspace
    BY <1>5, LeaveWorkspaceCloses
  <1> QED  BY <1>1, <1>2, <1>3, <1>4, <1>5, StillCalm DEF AccountNext

LEMMA ClosingInit == AccountInit => ClosingInv
  <1> SUFFICES ASSUME AccountInit
               PROVE  ClosingInv
    OBVIOUS
  <1>1. \A s \in Sessions : session[s] # None => session[s].password = user.password
    BY DEF AccountInit
  <1> QED  BY <1>1 DEF AccountInit, ClosingInv, PasswordInv, PasswordFits, SuspendedInv,
                       InSession, Live

LEMMA Closing == AccountSpec => []ClosingInv
  BY ClosingInit, ClosingStep, Invariant, PTL DEF AccountSpec

\* After a password change, no session that was opened with another password is live,
\* whatever requests overlap, unless one could have been opened at that very moment.
THEOREM OldPasswordIsShutOut == AccountSpec => []OldPasswordOpensNothing
  <1>1. ClosingInv => OldPasswordOpensNothing
    BY DEF ClosingInv, PasswordInv, OldPasswordOpensNothing
  <1> QED  BY <1>1, Closing, PTL

\* Nothing opens a session of a suspended account again, once the request that suspended
\* it is over.
THEOREM SuspensionHolds == AccountSpec => []SuspendedAccountIsClosed
  <1>1. AccountInv /\ ClosingInv => SuspendedAccountIsClosed
    BY DEF AccountInv, RequestsFit, Fits, ClosingInv, SuspendedInv, SuspendedAccountIsClosed
  <1> QED  BY <1>1, Closing, Invariant, PTL

-----------------------------------------------------------------------------
(* The authenticator's codes *)

ChecksStep(h) == pc[h] \in {"member", "persist"} /\ req[h].op \in {"verify", "confirm"}

\* A request that checks a code has read a secret, which is never deleted, and has
\* compared the code with the step it has read.
SecretFits(h) ==
    ChecksStep(h) =>
        /\ req[h].secret.state # "none" => secret.state # "none"
        /\ pc[h] = "persist" => /\ req[h].secret.state # "none"
                                /\ ~Replayed(req[h].arg, req[h].secret.last)

\* What it has read is what is stored, as long as no two such requests overlap.
ReadFits(h) == ChecksStep(h) => req[h].secret.last = secret.last

CodeInv ==
    /\ secret.state = "none" => secret.last = None
    /\ \A h \in Handlers : SecretFits(h)
    /\ ~overlapped =>
          /\ \A k \in Step : accepted[k] <= 1
          /\ \A k \in Step : accepted[k] > 0 => secret.last # None /\ k <= secret.last
          /\ \A g, h \in Handlers : ChecksCode(req[g].op) /\ ChecksCode(req[h].op) => g = h
          /\ \A h \in Handlers : ReadFits(h)

\* Steps that leave the secret alone and take no code check further.
KeepsCodes(g) ==
    \/ pc'[g] = pc[g] /\ req'[g] = req[g]
    \/ pc'[g] = "idle" /\ req'[g] = NoRequest
    \/ req'[g] = req[g] /\ (req[g].op \in {"verify", "confirm"} =>
                               pc'[g] \notin {"member", "persist"})
    \/ ~ChecksCode(req'[g].op)

LEMMA KeepsCodesStep ==
    ASSUME AccountInv, CodeInv, UNCHANGED <<secret, accepted, overlapped>>,
           \A g \in Handlers : KeepsCodes(g)
    PROVE  CodeInv'
  <1>1. ASSUME NEW g \in Handlers, ChecksCode(req'[g].op)
        PROVE  ChecksCode(req[g].op)
    BY <1>1 DEF KeepsCodes, ChecksCode, NoRequest
  <1>2. ASSUME NEW h \in Handlers
        PROVE  SecretFits(h)' /\ (~overlapped => ReadFits(h)')
    <2>1. SecretFits(h) /\ (~overlapped => ReadFits(h)) /\ KeepsCodes(h)
      BY DEF CodeInv
    <2> QED  BY <2>1 DEF SecretFits, ReadFits, ChecksStep, KeepsCodes, ChecksCode
  <1> QED  BY <1>1, <1>2 DEF CodeInv

LEMMA EndKeeps ==
    ASSUME RequestsFit, NEW h \in Handlers, End(h)
    PROVE  \A g \in Handlers : KeepsCodes(g)
  BY DEF RequestsFit, End, Goto, KeepsCodes

LEMMA ContinueKeeps ==
    ASSUME RequestsFit, NEW h \in Handlers, NEW stage, Continue(h, stage),
           req[h].op \in {"verify", "confirm"} => stage \notin {"member", "persist"}
    PROVE  \A g \in Handlers : KeepsCodes(g)
  BY DEF RequestsFit, Continue, Goto, KeepsCodes

LEMMA GoKeeps ==
    ASSUME RequestsFit, NEW h \in Handlers, NEW stage, Go(h, stage),
           req[h].op \in {"verify", "confirm"} => stage \notin {"member", "persist"}
    PROVE  \A g \in Handlers : KeepsCodes(g)
  BY EndKeeps, ContinueKeeps DEF Go

LEMMA AskKeeps ==
    ASSUME RequestsFit, NEW h \in Handlers, NEW r, NEW stage, Ask(h, r, stage),
           ~ChecksCode(r.op)
    PROVE  \A g \in Handlers : KeepsCodes(g)
  BY DEF RequestsFit, Ask, Goto, KeepsCodes

LEMMA OtherStepsKeep ==
    ASSUME AccountInv, NEW h \in Handlers,
           \/ MarkExpired(h) \/ RevokeSession(h) \/ FindCode(h)
           \/ ClaimCode(h) \/ CountCodes(h) \/ WipeCodes(h) \/ IssueCodes(h)
           \/ Regenerate(h) \/ CreateSession(h) \/ DropLinks(h) \/ CreateLink(h)
           \/ ChangePassword(h) \/ WriteStatus(h) \/ CloseSessions(h) \/ Fault(h)
           \/ Login(h) \/ ForgotPassword(h)
           \/ \E t \in Links : ReadLink(h, t)
           \/ \E active \in BOOLEAN : ChangeStatus(h, active)
    PROVE  UNCHANGED <<secret, accepted, overlapped>> /\ \A g \in Handlers : KeepsCodes(g)
  <1> USE DEF AccountInv, history, dbVars
  <1>1. ASSUME \/ MarkExpired(h) \/ RevokeSession(h) \/ IssueCodes(h)
               \/ Regenerate(h) \/ CreateSession(h) \/ CreateLink(h)
        PROVE  UNCHANGED <<secret, accepted, overlapped>> /\ \A g \in Handlers : KeepsCodes(g)
    BY <1>1, EndKeeps DEF MarkExpired, RevokeSession, IssueCodes,
                          Regenerate, CreateSession, CreateLink
  <1>2. ASSUME ChangePassword(h) \/ CloseSessions(h) \/ Fault(h)
        PROVE  UNCHANGED <<secret, accepted, overlapped>> /\ \A g \in Handlers : KeepsCodes(g)
    BY <1>2, EndKeeps DEF ChangePassword, CloseSessions, Fault
  <1>3. ASSUME FindCode(h) \/ CountCodes(h) \/ WriteStatus(h)
        PROVE  UNCHANGED <<secret, accepted, overlapped>> /\ \A g \in Handlers : KeepsCodes(g)
    BY <1>3, GoKeeps DEF FindCode, CountCodes, WriteStatus
  <1>4. ASSUME WipeCodes(h) \/ DropLinks(h)
        PROVE  UNCHANGED <<secret, accepted, overlapped>> /\ \A g \in Handlers : KeepsCodes(g)
    BY <1>4, ContinueKeeps DEF WipeCodes, DropLinks
  <1>5. ASSUME ClaimCode(h)
        PROVE  UNCHANGED <<secret, accepted, overlapped>> /\ \A g \in Handlers : KeepsCodes(g)
    <2>1. req[h].op = "recover"
      BY <1>5 DEF RequestsFit, Fits, ClaimCode, At
    <2> QED  BY <1>5, <2>1, EndKeeps, ContinueKeeps DEF ClaimCode
  <1>6. ASSUME ForgotPassword(h) \/ (\E t \in Links : ReadLink(h, t))
               \/ \E active \in BOOLEAN : ChangeStatus(h, active)
        PROVE  UNCHANGED <<secret, accepted, overlapped>> /\ \A g \in Handlers : KeepsCodes(g)
    <2>1. PICK r, stage : Ask(h, r, stage) /\ r.op \in {"forgot", "reset", "status"}
      BY <1>6, PlainAsk
    <2>2. UNCHANGED <<secret, accepted, overlapped>>
      BY <1>6 DEF ForgotPassword, ReadLink, ChangeStatus
    <2> QED  BY <2>1, <2>2, AskKeeps DEF ChecksCode
  <1>7. ASSUME Login(h)
        PROVE  UNCHANGED <<secret, accepted, overlapped>> /\ \A g \in Handlers : KeepsCodes(g)
    <2> DEFINE r == [NoRequest EXCEPT !.op = "login",
                       !.row = [status |-> IF Exempt THEN "active" ELSE "pending",
                                verified |-> FALSE, password |-> user.password]]
    <2>1. r.op = "login"
      BY DEF NoRequest
    <2>2. Ask(h, r, "open") /\ UNCHANGED <<secret, accepted, overlapped>>
      BY <1>7 DEF Login
    <2> HIDE DEF r
    <2> QED  BY <2>1, <2>2, AskKeeps DEF ChecksCode
  <1> QED  BY <1>1, <1>2, <1>3, <1>4, <1>5, <1>6, <1>7

LEMMA ReadMembershipCodes ==
    ASSUME AccountInv, CodeInv, NEW h \in Handlers, ReadMembership(h)
    PROVE  CodeInv'
  <1>1. Fits("member", req[h]) /\ pc[h] = "member"
    BY DEF AccountInv, RequestsFit, ReadMembership, At
  <1>2. UNCHANGED <<secret, accepted, overlapped>>
    BY DEF ReadMembership, dbVars, history
  <1>3. PICK stage \in {"revoke", Endpoint(req[h])} : Go(h, stage)
    BY DEF ReadMembership
  <1>4. CASE stage = "persist"
    <2>1. Endpoint(req[h]) = "persist"
      BY <1>3, <1>4
    <2>2. req[h].op \in {"verify", "confirm"} =>
             req[h].secret.state # "none" /\ ~Replayed(req[h].arg, req[h].secret.last)
      BY <2>1 DEF Endpoint, Accepts
    <2>3. pc' = [pc EXCEPT ![h] = "persist"] /\ req' = req
      BY <1>3, <1>4 DEF Go, Continue, Goto
    <2>4. ASSUME NEW g \in Handlers
          PROVE  SecretFits(g)' /\ (~overlapped => ReadFits(g)')
      <3>1. SecretFits(g) /\ SecretFits(h) /\ (~overlapped => ReadFits(g) /\ ReadFits(h))
        BY DEF CodeInv
      <3> QED  BY <1>1, <1>2, <2>2, <2>3, <3>1
               DEF SecretFits, ReadFits, ChecksStep, AccountInv, RequestsFit
    <2> QED  BY <1>2, <2>3, <2>4 DEF CodeInv
  <1>5. CASE stage # "persist"
    <2>1. stage # "member"
      BY <1>1, <1>3 DEF Endpoint, Fits, InSession, SessionOp
    <2> QED  BY <1>2, <1>3, <1>5, <2>1, GoKeeps, KeepsCodesStep DEF AccountInv
  <1> QED  BY <1>4, <1>5

LEMMA ReadSessionCodes ==
    ASSUME AccountInv, CodeInv, NEW h \in Handlers, NEW s \in Sessions, NEW op, NEW arg,
           ReadSession(h, op, s, arg)
    PROVE  CodeInv'
  <1>1. /\ UNCHANGED <<secret, accepted>>
        /\ ~overlapped' => ~overlapped
        /\ ~overlapped' /\ ChecksCode(op) => \A g \in Handlers : ~ChecksCode(req[g].op)
    BY DEF ReadSession, dbVars
  <1>2. /\ pc' = [pc EXCEPT ![h] = IF s \in over THEN "expire" ELSE "member"]
        /\ \A g \in Handlers \ {h} : req'[g] = req[g]
        /\ req'[h].op = op /\ req'[h].secret = secret
    BY DEF ReadSession, Ask, Goto, AccountInv, RequestsFit
  <1>3. ASSUME NEW g \in Handlers
        PROVE  SecretFits(g)' /\ (~overlapped' => ReadFits(g)')
    <2>1. SecretFits(g) /\ (~overlapped => ReadFits(g))
      BY DEF CodeInv
    <2> QED  BY <1>1, <1>2, <2>1 DEF SecretFits, ReadFits, ChecksStep, AccountInv, RequestsFit
  <1>4. ~overlapped' => \A g, i \in Handlers :
            ChecksCode(req'[g].op) /\ ChecksCode(req'[i].op) => g = i
    BY <1>1, <1>2 DEF CodeInv
  <1> QED  BY <1>1, <1>3, <1>4 DEF CodeInv

LEMMA CreateSecretCodes ==
    ASSUME AccountInv, CodeInv, NEW h \in Handlers, CreateSecret(h)
    PROVE  CodeInv'
  <1>1. UNCHANGED <<accepted, overlapped>> /\ End(h)
    BY DEF CreateSecret, history
  <1>2. secret'.last = secret.last /\ secret'.state # "none"
    BY DEF CodeInv, CreateSecret
  <1>3. \A g \in Handlers : KeepsCodes(g)
    BY <1>1, EndKeeps DEF AccountInv
  <1>4. ASSUME NEW g \in Handlers
        PROVE  SecretFits(g)' /\ (~overlapped => ReadFits(g)')
    <2>1. SecretFits(g) /\ (~overlapped => ReadFits(g)) /\ KeepsCodes(g)
      BY <1>3 DEF CodeInv
    <2> QED  BY <1>2, <2>1 DEF SecretFits, ReadFits, ChecksStep, KeepsCodes, ChecksCode
  <1>5. ASSUME NEW g \in Handlers, ChecksCode(req'[g].op)
        PROVE  ChecksCode(req[g].op)
    BY <1>3, <1>5 DEF KeepsCodes, ChecksCode, NoRequest
  <1> QED  BY <1>1, <1>2, <1>4, <1>5 DEF CodeInv

LEMMA PersistCodes ==
    ASSUME AccountInv, CodeInv, NEW h \in Handlers, Persist(h)
    PROVE  CodeInv'
  <1> DEFINE k == req[h].arg
             checks == req[h].op \in {"verify", "confirm"}
  <1>1. /\ Fits("persist", req[h]) /\ pc[h] = "persist" /\ ChecksCode(req[h].op)
        /\ checks => k \in Step
    BY DEF AccountInv, RequestsFit, Fits, Persist, At
  <1>2. UNCHANGED overlapped
    BY DEF Persist
  <1>3. /\ \A g \in Handlers \ {h} : pc'[g] = pc[g] /\ req'[g] = req[g]
        /\ pc'[h] \in {"idle", "count"} /\ req'[h] \in {req[h], NoRequest}
    BY DEF AccountInv, RequestsFit, Persist, Go, End, Continue, Goto
  <1>4. ASSUME NEW g \in Handlers, ChecksCode(req'[g].op)
        PROVE  ChecksCode(req[g].op)
    BY <1>3, <1>4 DEF ChecksCode, NoRequest
  <1>5. CASE secret'.last = secret.last /\ secret'.state = secret.state /\ UNCHANGED accepted
    <2>1. ASSUME NEW g \in Handlers
          PROVE  SecretFits(g)' /\ (~overlapped => ReadFits(g)')
      BY <1>3, <1>5 DEF CodeInv, SecretFits, ReadFits, ChecksStep
    <2> QED  BY <1>2, <1>4, <1>5, <2>1 DEF CodeInv
  <1>6. CASE user.active /\ user.member /\ checks
    <2>1. /\ secret'.last = k /\ secret'.state \in {"enrolled", secret.state}
          /\ accepted' = [accepted EXCEPT ![k] = @ + 1]
      BY <1>6 DEF Persist
    <2>2. k \in Step /\ k \in Nat /\ k # None
      BY <1>1, <1>6, AccountAssumption DEF Step, AccountAssumption
    <2>3. secret.state # "none" /\ ~Replayed(k, req[h].secret.last)
      BY <1>1, <1>6 DEF CodeInv, SecretFits, ChecksStep
    <2>4. secret'.state # "none"
      BY <2>1, <2>3
    <2>5. ASSUME ~overlapped
          PROVE  secret.last = None \/ (secret.last \in Nat /\ secret.last < k)
      <3>1. req[h].secret.last = secret.last
        BY <1>1, <1>6, <2>5 DEF CodeInv, ReadFits, ChecksStep
      <3>2. secret.last \in Step \union {None}
        BY DEF AccountInv, DataOK, Secret
      <3>3. secret.last # None => secret.last \in Nat
        BY <3>2, AccountAssumption DEF Step, AccountAssumption
      <3> QED  BY <2>2, <2>3, <3>1, <3>3 DEF Replayed
    <2>6. ASSUME ~overlapped, NEW j \in Step
          PROVE  accepted'[j] <= 1 /\ (accepted'[j] > 0 => j <= k)
      <3>1. accepted[j] \in Nat /\ accepted \in [Step -> Nat] /\ j \in Nat
        BY AccountAssumption DEF AccountInv, DataOK, Step, AccountAssumption
      <3>2. accepted[j] > 0 => accepted[j] <= 1 /\ secret.last # None /\ j <= secret.last
        BY <2>6 DEF CodeInv
      <3> QED  BY <2>1, <2>2, <2>5, <2>6, <3>1, <3>2
    <2>7. ASSUME NEW g \in Handlers
          PROVE  SecretFits(g)' /\ (~overlapped => ReadFits(g)')
      <3>1. CASE g = h
        BY <1>3, <3>1 DEF SecretFits, ReadFits, ChecksStep
      <3>2. CASE g # h
        <4>1. ~overlapped => ~ChecksCode(req[g].op)
          BY <1>1, <3>2 DEF CodeInv
        <4> QED  BY <1>3, <2>4, <3>2, <4>1
                 DEF CodeInv, SecretFits, ReadFits, ChecksStep, ChecksCode
      <3> QED  BY <3>1, <3>2
    <2> QED  BY <1>2, <1>4, <2>1, <2>2, <2>4, <2>6, <2>7 DEF CodeInv
  <1>7. CASE user.active /\ user.member /\ ~checks
    <2>1. req[h].op = "recover"
      BY <1>1, <1>7 DEF ChecksCode
    <2> QED  BY <1>5, <1>7, <2>1 DEF Persist
  <1> QED  BY <1>5, <1>6, <1>7 DEF Persist

LEMMA CodeStep == AccountInv /\ CodeInv /\ [AccountNext]_accountVars => CodeInv'
  <1> SUFFICES ASSUME AccountInv, CodeInv, [AccountNext]_accountVars
               PROVE  CodeInv'
    OBVIOUS
  <1>1. ASSUME NEW h \in Handlers, Arrives(h)
        PROVE  CodeInv'
    BY <1>1, ReadSessionCodes, OtherStepsKeep, KeepsCodesStep DEF Arrives
  <1>2. ASSUME NEW h \in Handlers, GoesOn(h) \/ Fault(h)
        PROVE  CodeInv'
    BY <1>2, ReadMembershipCodes, PersistCodes, CreateSecretCodes, OtherStepsKeep,
       KeepsCodesStep
    DEF GoesOn
  <1>3. ASSUME \/ UNCHANGED accountVars \/ LoseAdminRole \/ LeaveWorkspace \/ Tick
               \/ \E x \in Sessions \union Links : TimeOver(x)
        PROVE  CodeInv'
    <2>1. UNCHANGED <<secret, accepted, overlapped, pc, req>>
      BY <1>3 DEF LoseAdminRole, LeaveWorkspace, Tick, TimeOver, accountVars, dbVars, history
    <2> QED  BY <2>1, KeepsCodesStep DEF KeepsCodes
  <1> QED  BY <1>1, <1>2, <1>3 DEF AccountNext

\* A code of the authenticator is accepted once, as long as requests that check codes do
\* not overlap: whatever sessions they are about, and whatever fails.
THEOREM CodesAcceptedOnce == AccountSpec => []CodeAcceptedOnce
  <1>1. AccountInit => CodeInv
    BY DEF AccountInit, CodeInv, SecretFits, ReadFits, ChecksStep, ChecksCode, NoRequest
  <1>2. CodeInv => CodeAcceptedOnce
    BY DEF CodeInv, CodeAcceptedOnce
  <1> QED  BY <1>1, <1>2, CodeStep, Invariant, PTL DEF AccountSpec
=============================================================================
