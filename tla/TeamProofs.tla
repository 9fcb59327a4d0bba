------------------------------ MODULE TeamProofs ------------------------------
(***************************************************************************)
(* A workspace keeps an administrator however role changes, removals and   *)
(* invites overlap, and what a request can rely on when it is alone.       *)
(***************************************************************************)
EXTENDS Team, FiniteSetTheorems, TLAPS

Stage == {"idle", "count", "lock", "recheck", "write", "expire", "replace", "create",
          "find", "revoke", "join", "accept"}

\* The stages of the transaction that holds the advisory lock.
Locked == {"recheck", "write"}

DataOK ==
    /\ member \in [Users -> Role \union {"none"}] /\ joins \in [Users -> Nat]
    /\ active \in [Users -> BOOLEAN]
    /\ invite \in [Invites -> InviteRow] /\ late \subseteq Invites
    /\ \A i \in Invites : invite[i].status # "unborn" => invite[i].to \in Users
    /\ requests \in 0..MaxRequests /\ faults \in 0..MaxFaults
    /\ alone \in [Handlers -> BOOLEAN] /\ crossed \in BOOLEAN
    /\ used \in [Invites -> Nat]

\* A request at a stage is of a kind that gets there, and names what it works on.
Fits(r, stage) ==
    /\ stage = "idle" <=> r = NoRequest
    /\ stage \in {"count", "lock"} \union Locked =>
          r.op \in {"role", "remove"} /\ r.user \in Users
    /\ stage \in {"expire", "replace", "create", "find", "revoke", "join", "accept"} =>
          AboutInvites(r.op)
    /\ stage \in {"replace", "create"} => r.op = "invite"
    /\ stage \in {"find", "revoke", "join", "accept"} => r.op \in {"revoke", "accept"}
    /\ stage \in {"join", "accept"} => r.op = "accept"
    /\ stage # "idle" /\ r.op = "invite" => r.user \in Users
    /\ stage # "idle" /\ r.op \in {"revoke", "accept"} => r.invite \in Invites

Born(r, stage) ==
    stage # "idle" /\ r.op \in {"revoke", "accept"} => invite[r.invite].status # "unborn"

PositionOK ==
    /\ pc \in [Handlers -> Stage] /\ req \in [Handlers -> Request]
    /\ lock \in Handlers \union {None}
    /\ \A h \in Handlers : Fits(req[h], pc[h]) /\ Born(req[h], pc[h])
    /\ \A h \in Handlers : lock = h <=> pc[h] \in Locked

\* What the recount has seen stays true until the write: nobody else can take a role
\* away while the lock is held.
WriteSafe ==
    \A h \in Handlers : At(h, "write") =>
        LET u == req[h].user
        IN /\ member[u] # "none"
           /\ TakesAdmin(req[h], member[u]) =>
                 \E v \in Users \ {u} : member[v] = "security_admin"

TeamInv == DataOK /\ PositionOK /\ WriteSafe /\ SomeAdminRemains

USE TeamAssumption

-----------------------------------------------------------------------------
(* How a request moves *)

LEMMA NoRequestFits == NoRequest \in Request /\ \A stage : Fits(NoRequest, stage) => stage = "idle"
  BY DEF NoRequest, Request, Role, Fits

\* Request h takes a step: it is at another stage with the request r, and the lock is
\* touched for h only.
LEMMA Moved ==
    ASSUME TeamInv, NEW h \in Handlers, NEW stage \in Stage, NEW r \in Request,
           Fits(r, stage), Born(r, stage),
           pc' = [pc EXCEPT ![h] = stage], req' = [req EXCEPT ![h] = r],
           lock' \in Handlers \union {None},
           lock' = h <=> stage \in Locked,
           \A g \in Handlers \ {h} : lock' = g <=> lock = g,
           \A i \in Invites : invite[i].status # "unborn" => invite'[i].status # "unborn"
    PROVE  PositionOK'
  <1>1. /\ pc \in [Handlers -> Stage] /\ req \in [Handlers -> Request]
        /\ \A g \in Handlers : Fits(req[g], pc[g]) /\ Born(req[g], pc[g])
        /\ \A g \in Handlers : lock = g <=> pc[g] \in Locked
    BY DEF TeamInv, PositionOK
  <1>2. /\ pc' \in [Handlers -> Stage] /\ req' \in [Handlers -> Request]
        /\ pc'[h] = stage /\ req'[h] = r
        /\ \A g \in Handlers \ {h} : pc'[g] = pc[g] /\ req'[g] = req[g]
    BY <1>1
  <1>3. ASSUME NEW g \in Handlers
        PROVE  /\ Fits(req'[g], pc'[g])
               /\ pc'[g] # "idle" /\ req'[g].op \in {"revoke", "accept"} =>
                     invite'[req'[g].invite].status # "unborn"
    <2>1. Fits(req'[g], pc'[g])
      BY <1>1, <1>2
    <2>2. pc'[g] # "idle" /\ req'[g].op \in {"revoke", "accept"} =>
              invite[req'[g].invite].status # "unborn"
      BY <1>1, <1>2 DEF Born
    <2> QED
      BY <2>1, <2>2 DEF Fits
  <1>4. \A g \in Handlers : lock' = g <=> pc'[g] \in Locked
    BY <1>1, <1>2
  <1>5. \A g \in Handlers : Fits(req[g], pc[g])' /\ Born(req[g], pc[g])'
    BY <1>3 DEF Fits, Born
  <1> QED
    BY <1>2, <1>4, <1>5 DEF PositionOK

\* The ends of a step that goes on or ends.
LEMMA Went ==
    ASSUME TeamInv, NEW h \in Handlers, NEW stage \in Stage, Go(h, stage)
    PROVE  /\ pc' = [pc EXCEPT ![h] = stage]
           /\ req' = [req EXCEPT ![h] = IF stage = "idle" THEN NoRequest ELSE req[h]]
           /\ UNCHANGED <<requests, faults>>
  BY DEF Go, End, Continue, TeamInv, PositionOK

\* A step that touches neither the lock nor the stages that hold it.
LEMMA WentUnlocked ==
    ASSUME TeamInv, NEW h \in Handlers, NEW stage \in Stage \ Locked, Go(h, stage),
           pc[h] # "idle", pc[h] \notin Locked, UNCHANGED lock,
           stage = "idle" \/ Fits(req[h], stage),
           \A i \in Invites : invite[i].status # "unborn" => invite'[i].status # "unborn"
    PROVE  PositionOK'
  <1>1. PICK r : r = IF stage = "idle" THEN NoRequest ELSE req[h]
    OBVIOUS
  <1>2. r \in Request /\ Fits(r, stage)
    BY <1>1, NoRequestFits DEF TeamInv, PositionOK, Fits, NoRequest, Locked, Stage
  <1>3. Born(r, stage)
    BY <1>1 DEF TeamInv, PositionOK, Born
  <1>4. pc' = [pc EXCEPT ![h] = stage] /\ req' = [req EXCEPT ![h] = r]
    BY <1>1, Went
  <1>5. lock' \in Handlers \union {None} /\ lock # h /\ lock' = lock
    BY DEF TeamInv, PositionOK
  <1> QED
    BY <1>2, <1>3, <1>4, <1>5, Moved

\* A request arrives.
LEMMA Asked ==
    ASSUME TeamInv, NEW h \in Handlers, NEW stage \in Stage \ Locked, NEW r \in Request,
           Ask(h, r, stage), Fits(r, stage), Born(r, stage), UNCHANGED <<lock, invite>>
    PROVE  PositionOK'
  <1>1. /\ pc' = [pc EXCEPT ![h] = stage] /\ req' = [req EXCEPT ![h] = r]
        /\ pc[h] = "idle" /\ lock' = lock /\ lock \in Handlers \union {None} /\ lock # h
    BY DEF Ask, At, TeamInv, PositionOK, Locked
  <1> QED
    BY <1>1, Moved

\* Whoever has a role keeps it: the roles counted for a write are still there.
LEMMA MembersKept ==
    ASSUME TeamInv,
           \A u \in Users : member[u] # "none" => member'[u] = member[u],
           \A g \in Handlers : pc'[g] = "write" => pc[g] = "write" /\ req'[g] = req[g]
    PROVE  WriteSafe' /\ SomeAdminRemains'
  <1>1. SomeAdminRemains'
    BY DEF TeamInv, SomeAdminRemains, Admins
  <1>2. ASSUME NEW g \in Handlers, pc'[g] = "write"
        PROVE  /\ member'[req[g].user] # "none"
               /\ TakesAdmin(req[g], member'[req[g].user]) =>
                     \E v \in Users \ {req[g].user} : member'[v] = "security_admin"
    BY <1>2 DEF TeamInv, PositionOK, Fits, Locked, WriteSafe, At
  <1>3. WriteSafe'
    BY <1>2 DEF WriteSafe, At, TakesAdmin
  <1> QED
    BY <1>1, <1>3

-----------------------------------------------------------------------------
(* The data *)

\* Nothing but the stages and requests moves, and perhaps who is alone.
LEMMA DataKept ==
    ASSUME TeamInv, UNCHANGED <<member, joins, active, invite, used, late>>,
           alone' \in [Handlers -> BOOLEAN], crossed' \in BOOLEAN,
           requests' \in 0..MaxRequests, faults' \in 0..MaxFaults
    PROVE  DataOK'
  BY DEF TeamInv, DataOK

LEMMA TeamStarts == TeamInit => TeamInv
  <1> SUFFICES ASSUME TeamInit PROVE TeamInv
    OBVIOUS
  <1>1. /\ member \in [Users -> Role \union {"none"}] /\ joins \in [Users -> Nat]
        /\ active \in [Users -> BOOLEAN] /\ late \subseteq Invites
        /\ requests \in 0..MaxRequests /\ faults \in 0..MaxFaults
        /\ used \in [Invites -> Nat]
    BY DEF TeamInit
  <1>2. alone \in [Handlers -> BOOLEAN] /\ crossed \in BOOLEAN
    BY DEF TeamInit
  <1>3. /\ invite \in [Invites -> InviteRow]
        /\ \A i \in Invites : invite[i].status # "unborn" => invite[i].to \in Users
    <2>1. Unborn \in InviteRow
      BY DEF Unborn, InviteRow, Role
    <2>2. CASE invite = [i \in Invites |-> Unborn]
      BY <2>1, <2>2 DEF Unborn
    <2>3. CASE \E i \in Invites, u \in Users, role \in Role :
                  invite = [j \in Invites |->
                     IF j = i THEN [status |-> "pending", to |-> u, role |-> role] ELSE Unborn]
      BY <2>1, <2>3 DEF Unborn, InviteRow
    <2> QED
      BY <2>2, <2>3 DEF TeamInit
  <1>4. PositionOK
    <2>1. ASSUME NEW h \in Handlers PROVE Fits(req[h], pc[h]) /\ Born(req[h], pc[h])
      BY DEF TeamInit, Fits, Born, Locked
    <2>2. pc \in [Handlers -> Stage] /\ req \in [Handlers -> Request]
      BY NoRequestFits DEF TeamInit, Stage
    <2>3. lock \in Handlers \union {None} /\ \A h \in Handlers : lock = h <=> pc[h] \in Locked
      BY DEF TeamInit, Locked
    <2> QED
      BY <2>1, <2>2, <2>3 DEF PositionOK
  <1>5. WriteSafe /\ SomeAdminRemains
    BY DEF TeamInit, WriteSafe, SomeAdminRemains, Admins, At
  <1> QED
    BY <1>1, <1>2, <1>3, <1>4, <1>5 DEF TeamInv, DataOK

-----------------------------------------------------------------------------
(* Roles and removals *)

LEMMA ReadMemberSafe ==
    ASSUME TeamInv, NEW h \in Handlers, NEW op \in {"role", "remove"}, NEW u \in Users,
           NEW role \in Role, ReadMember(h, op, u, role)
    PROVE  TeamInv'
  <1>1. PICK r : r = [NoRequest EXCEPT !.op = op, !.user = u, !.role = role,
                                       !.was = member[u], !.joins = joins[u]]
    OBVIOUS
  <1>2. r = [op |-> op, user |-> u, invite |-> None, role |-> role,
             was |-> member[u], joins |-> joins[u]]
    BY <1>1 DEF NoRequest
  <1>3. r \in Request /\ r.op = op /\ r.user = u
    BY <1>2 DEF Request, TeamInv, DataOK
  <1>4. r # NoRequest
    BY <1>3 DEF NoRequest
  <1>5. Fits(r, "count") /\ Born(r, "count")
    BY <1>3, <1>4 DEF Fits, Born, Locked
  <1>6. /\ Ask(h, r, "count") /\ UNCHANGED <<member, joins, active, lock, inviteVars>>
        /\ alone' = [alone EXCEPT ![h] = TRUE]
    BY <1>1 DEF ReadMember
  <1>7. PositionOK'
    BY <1>5, <1>6, <1>3, Asked DEF Stage, Locked, inviteVars
  <1>8. DataOK'
    <2>1. requests' \in 0..MaxRequests /\ faults' \in 0..MaxFaults
      BY <1>6 DEF Ask, TeamInv, DataOK
    <2>2. alone' \in [Handlers -> BOOLEAN] /\ crossed' \in BOOLEAN
      BY <1>6 DEF inviteVars, TeamInv, DataOK
    <2> QED
      BY <2>1, <2>2, <1>6, DataKept DEF inviteVars
  <1>9. \A g \in Handlers : pc'[g] = "write" => pc[g] = "write" /\ req'[g] = req[g]
    BY <1>6 DEF Ask, TeamInv, PositionOK
  <1> QED
    BY <1>6, <1>7, <1>8, <1>9, MembersKept DEF TeamInv

\* A step that changes stages only, and does not come to the write.
LEMMA QuietStep ==
    ASSUME TeamInv, PositionOK',
           UNCHANGED <<member, joins, active, alone, inviteVars>>,
           requests' \in 0..MaxRequests, faults' \in 0..MaxFaults,
           \A g \in Handlers : pc'[g] = "write" => pc[g] = "write" /\ req'[g] = req[g]
    PROVE  TeamInv'
  <1>1. DataOK'
    <2>1. alone' \in [Handlers -> BOOLEAN] /\ crossed' \in BOOLEAN
      BY DEF inviteVars, TeamInv, DataOK
    <2> QED
      BY <2>1, DataKept DEF inviteVars
  <1> QED
    BY <1>1, MembersKept DEF TeamInv

LEMMA CountAdminsSafe ==
    ASSUME TeamInv, NEW h \in Handlers, CountAdmins(h)
    PROVE  TeamInv'
  <1>1. PICK stage \in {"idle", "lock"} : Go(h, stage)
    BY DEF CountAdmins
  <1>2. pc[h] = "count" /\ UNCHANGED <<member, joins, active, lock, alone, inviteVars>>
    BY DEF CountAdmins, At, memberVars
  <1>3. stage = "idle" \/ Fits(req[h], stage)
    BY <1>1, <1>2 DEF TeamInv, PositionOK, Fits, Locked
  <1>4. PositionOK'
    BY <1>1, <1>2, <1>3, WentUnlocked DEF Stage, Locked, inviteVars
  <1>5. /\ UNCHANGED <<requests, faults>>
        /\ \A g \in Handlers : pc'[g] = "write" => pc[g] = "write" /\ req'[g] = req[g]
    BY <1>1, Went DEF Stage, TeamInv, PositionOK
  <1> QED
    BY <1>2, <1>4, <1>5, QuietStep DEF TeamInv, DataOK

LEMMA TakeLockSafe ==
    ASSUME TeamInv, NEW h \in Handlers, TakeLock(h)
    PROVE  TeamInv'
  <1>1. /\ pc[h] = "lock" /\ lock = None /\ lock' = h
        /\ pc' = [pc EXCEPT ![h] = "recheck"] /\ req' = [req EXCEPT ![h] = req[h]]
        /\ UNCHANGED <<requests, faults, member, joins, active, alone, inviteVars>>
    BY DEF TakeLock, At, Continue, TeamInv, PositionOK
  <1>2. /\ req[h] \in Request /\ Fits(req[h], "recheck") /\ Born(req[h], "recheck")
    BY <1>1 DEF TeamInv, PositionOK, Fits, Born, Locked
  <1>3. PositionOK'
    BY <1>1, <1>2, Moved DEF Stage, Locked, inviteVars
  <1>4. \A g \in Handlers : pc'[g] = "write" => pc[g] = "write" /\ req'[g] = req[g]
    BY <1>1 DEF TeamInv, PositionOK
  <1> QED
    BY <1>1, <1>3, <1>4, QuietStep DEF TeamInv, DataOK

\* Two administrators at least: there is one besides u.
LEMMA AnotherAdmin ==
    ASSUME NEW S \in SUBSET Users, NEW u, ~(Cardinality(S) <= 1)
    PROVE  \E v \in S : v # u
  <1> SUFFICES ASSUME S \subseteq {u} PROVE FALSE
    OBVIOUS
  <1>1. IsFiniteSet({u}) /\ Cardinality({u}) = 1
    BY FS_Singleton
  <1>2. Cardinality(S) <= Cardinality({u})
    BY <1>1, FS_Subset
  <1> QED
    BY <1>1, <1>2

LEMMA RecheckSafe ==
    ASSUME TeamInv, NEW h \in Handlers, Recheck(h)
    PROVE  TeamInv'
  <1> DEFINE r == req[h]
             current == IF joins[r.user] = r.joins THEN member[r.user] ELSE "none"
             allowed == current # "none" /\ ~(TakesAdmin(r, current) /\ Cardinality(Admins) <= 1)
  <1>1. /\ pc[h] = "recheck" /\ lock = h
        /\ UNCHANGED <<member, joins, active, alone, inviteVars>>
    BY DEF Recheck, At, TeamInv, PositionOK, Locked
  <1>2. CASE ~allowed
    <2>1. /\ Go(h, "idle") /\ lock' = None
      BY <1>2 DEF Recheck
    <2>2. /\ pc' = [pc EXCEPT ![h] = "idle"] /\ req' = [req EXCEPT ![h] = NoRequest]
          /\ UNCHANGED <<requests, faults>>
      BY <2>1 DEF Go, End
    <2>3. Fits(NoRequest, "idle") /\ Born(NoRequest, "idle")
      BY DEF Fits, Born, Locked
    <2>4. PositionOK'
      BY <1>1, <2>1, <2>2, <2>3, NoRequestFits, Moved DEF Stage, Locked, inviteVars
    <2>5. \A g \in Handlers : pc'[g] = "write" => pc[g] = "write" /\ req'[g] = req[g]
      BY <2>2 DEF TeamInv, PositionOK
    <2> QED
      BY <1>1, <2>2, <2>4, <2>5, QuietStep DEF TeamInv, DataOK
  <1>3. CASE allowed
    <2>1. Go(h, "write") /\ lock' = lock
      BY <1>3 DEF Recheck
    <2>2. /\ pc' = [pc EXCEPT ![h] = "write"] /\ req' = [req EXCEPT ![h] = req[h]]
          /\ UNCHANGED <<requests, faults, req>>
      BY <2>1 DEF Go, Continue, TeamInv, PositionOK
    <2>3. req[h] \in Request /\ Fits(req[h], "write") /\ Born(req[h], "write")
      BY <1>1 DEF TeamInv, PositionOK, Fits, Born, Locked
    <2>4. PositionOK'
      BY <1>1, <2>1, <2>2, <2>3, Moved DEF Stage, Locked, inviteVars
    <2>5. DataOK'
      <3>1. alone' \in [Handlers -> BOOLEAN] /\ crossed' \in BOOLEAN
        BY <1>1 DEF inviteVars, TeamInv, DataOK
      <3> QED
        BY <3>1, <1>1, <2>2, DataKept DEF inviteVars, TeamInv, DataOK
    <2>6. SomeAdminRemains'
      BY <1>1 DEF TeamInv, SomeAdminRemains, Admins
    <2>7. /\ member[r.user] # "none"
          /\ TakesAdmin(r, member[r.user]) =>
                \E v \in Users \ {r.user} : member[v] = "security_admin"
      <3>1. current = member[r.user] /\ member[r.user] # "none"
        BY <1>3
      <3>2. ASSUME TakesAdmin(r, member[r.user])
            PROVE  \E v \in Admins : v # r.user
        <4>1. ~(Cardinality(Admins) <= 1)
          BY <1>3, <3>1, <3>2
        <4> QED
          BY <4>1, AnotherAdmin DEF Admins
      <3> QED
        BY <3>1, <3>2 DEF Admins
    <2>8. \A g \in Handlers \ {h} : pc'[g] = pc[g] /\ pc[g] # "write"
      BY <1>1, <2>2 DEF TeamInv, PositionOK, Locked
    <2>9. WriteSafe'
      BY <1>1, <2>2, <2>7, <2>8 DEF WriteSafe, At, TakesAdmin
    <2> QED
      BY <2>4, <2>5, <2>6, <2>9 DEF TeamInv
  <1> QED
    BY <1>2, <1>3

LEMMA WriteMemberSafe ==
    ASSUME TeamInv, NEW h \in Handlers, WriteMember(h)
    PROVE  TeamInv'
  <1> DEFINE r == req[h]
             u == req[h].user
  <1>1. /\ pc[h] = "write" /\ lock = h /\ lock' = None
        /\ pc' = [pc EXCEPT ![h] = "idle"] /\ req' = [req EXCEPT ![h] = NoRequest]
        /\ UNCHANGED <<requests, faults, joins, inviteVars>>
    BY DEF WriteMember, At, End, TeamInv, PositionOK, Locked
  <1>2. r \in Request /\ u \in Users /\ r.op \in {"role", "remove"}
    BY <1>1 DEF TeamInv, PositionOK, Fits, Locked
  <1>3. PICK role \in Role \union {"none"} :
            /\ role = (IF r.op = "remove" THEN "none" ELSE r.role)
            /\ member' = [member EXCEPT ![u] = role]
    BY <1>2 DEF WriteMember, Request
  <1>4. Fits(NoRequest, "idle") /\ Born(NoRequest, "idle")
    BY DEF Fits, Born, Locked
  <1>5. PositionOK'
    BY <1>1, <1>4, NoRequestFits, Moved DEF Stage, Locked, inviteVars
  <1>6. DataOK'
    <2>1. member' \in [Users -> Role \union {"none"}]
      BY <1>3, <1>2 DEF TeamInv, DataOK
    <2>2. active' \in [Users -> BOOLEAN] /\ alone' \in [Handlers -> BOOLEAN]
      BY DEF WriteMember, ChangedBy, TeamInv, DataOK
    <2> QED
      BY <2>1, <2>2, <1>1 DEF inviteVars, TeamInv, DataOK
  <1>7. \A v \in Users : member'[v] = IF v = u THEN role ELSE member[v]
    BY <1>3 DEF TeamInv, DataOK
  \* Either the role that was taken away was not an administrator's, or another remains.
  <1>8. SomeAdminRemains'
    <2>1. TakesAdmin(r, member[u]) => \E v \in Users \ {u} : member[v] = "security_admin"
      BY <1>1 DEF TeamInv, WriteSafe, At
    <2>2. PICK a \in Users : member[a] = "security_admin"
      BY DEF TeamInv, SomeAdminRemains, Admins
    <2>3. CASE TakesAdmin(r, member[u])
      BY <2>1, <2>3, <1>7 DEF SomeAdminRemains, Admins
    <2>4. CASE ~TakesAdmin(r, member[u])
      BY <2>2, <2>4, <1>2, <1>3, <1>7 DEF TakesAdmin, SomeAdminRemains, Admins
    <2> QED
      BY <2>3, <2>4
  <1>9. WriteSafe'
    BY <1>1 DEF WriteSafe, At, TeamInv, PositionOK, Locked
  <1> QED
    BY <1>5, <1>6, <1>8, <1>9 DEF TeamInv

LEMMA SetAccountStatusSafe ==
    ASSUME TeamInv, NEW u \in Users, SetAccountStatus(u)
    PROVE  TeamInv'
  <1>1. UNCHANGED <<member, joins, lock, inviteVars, pc, req, faults>>
    BY DEF SetAccountStatus
  <1>2. PositionOK'
    BY <1>1 DEF inviteVars, TeamInv, PositionOK, Fits, Born
  <1>3. active' \in [Users -> BOOLEAN] /\ alone' \in [Handlers -> BOOLEAN]
    BY DEF SetAccountStatus, TeamInv, DataOK
  <1>4. requests' \in 0..MaxRequests
    BY DEF SetAccountStatus, TeamInv, DataOK
  <1>5. DataOK'
    BY <1>1, <1>3, <1>4 DEF inviteVars, TeamInv, DataOK
  <1> QED
    BY <1>1, <1>2, <1>5, MembersKept DEF TeamInv

-----------------------------------------------------------------------------
(* Invites *)

\* A step about invites that leaves the members and the lock alone.
LEMMA InviteStep ==
    ASSUME TeamInv, PositionOK', UNCHANGED memberVars,
           invite' \in [Invites -> InviteRow],
           \A i \in Invites : invite'[i].status # "unborn" => invite'[i].to \in Users,
           late' \subseteq Invites, crossed' \in BOOLEAN, UNCHANGED used,
           requests' \in 0..MaxRequests, faults' \in 0..MaxFaults,
           \A g \in Handlers : pc'[g] = "write" => pc[g] = "write" /\ req'[g] = req[g]
    PROVE  TeamInv'
  <1>1. DataOK'
    BY DEF memberVars, TeamInv, DataOK
  <1> QED
    BY <1>1, MembersKept DEF memberVars, TeamInv

\* A request about an invite arrives.
LEMMA AskInviteSafe ==
    ASSUME TeamInv, NEW h \in Handlers, NEW r \in Request, AskInvite(h, r, "expire"),
           Fits(r, "expire"), Born(r, "expire")
    PROVE  TeamInv'
  <1>1. Ask(h, r, "expire") /\ UNCHANGED <<invite, late, used, memberVars>>
    BY DEF AskInvite
  <1>2. PositionOK'
    BY <1>1, Asked DEF Stage, Locked, memberVars
  <1>3. crossed' \in BOOLEAN
    BY DEF AskInvite, TeamInv, DataOK
  <1>4. requests' \in 0..MaxRequests /\ faults' \in 0..MaxFaults
    BY <1>1 DEF Ask, TeamInv, DataOK
  <1>5. \A g \in Handlers : pc'[g] = "write" => pc[g] = "write" /\ req'[g] = req[g]
    BY <1>1 DEF Ask, TeamInv, PositionOK
  <1> QED
    BY <1>1, <1>2, <1>3, <1>4, <1>5, InviteStep DEF TeamInv, DataOK

LEMMA CreateInviteStartSafe ==
    ASSUME TeamInv, NEW h \in Handlers, NEW u \in Users, NEW role \in Role,
           CreateInviteStart(h, u, role)
    PROVE  TeamInv'
  <1>1. PICK r : r = [NoRequest EXCEPT !.op = "invite", !.user = u, !.role = role]
    OBVIOUS
  <1>2. r \in Request /\ r.op = "invite" /\ r.user = u
    BY <1>1 DEF NoRequest, Request
  <1>3. r # NoRequest
    BY <1>2 DEF NoRequest
  <1>4. Fits(r, "expire") /\ Born(r, "expire")
    BY <1>2, <1>3 DEF Fits, Born, Locked, AboutInvites
  <1> QED
    BY <1>1, <1>2, <1>4, AskInviteSafe DEF CreateInviteStart

\* Revoking and accepting name an invite that exists.
LEMMA ActOnInviteSafe ==
    ASSUME TeamInv, NEW h \in Handlers, NEW i \in Invites, invite[i].status # "unborn",
           NEW op \in {"revoke", "accept"},
           AskInvite(h, [NoRequest EXCEPT !.op = op, !.invite = i], "expire")
    PROVE  TeamInv'
  <1>1. PICK r : r = [NoRequest EXCEPT !.op = op, !.invite = i]
    OBVIOUS
  <1>2. r \in Request /\ r.op = op /\ r.invite = i
    BY <1>1 DEF NoRequest, Request, Role
  <1>3. r # NoRequest
    BY <1>2 DEF NoRequest
  <1>4. Fits(r, "expire") /\ Born(r, "expire")
    BY <1>2, <1>3 DEF Fits, Born, Locked, AboutInvites
  <1> QED
    BY <1>1, <1>2, <1>4, AskInviteSafe

\* What every step of a request about invites has in common.
LEMMA InviteGoesOn ==
    ASSUME TeamInv, NEW h \in Handlers, NEW stage \in Stage \ Locked, Go(h, stage),
           pc[h] \in {"expire", "replace", "create", "find", "revoke"},
           stage = "idle" \/ Fits(req[h], stage),
           UNCHANGED <<late, crossed, used, memberVars>>,
           invite' \in [Invites -> InviteRow],
           \A i \in Invites : invite'[i].status # "unborn" => invite'[i].to \in Users,
           \A i \in Invites : invite[i].status # "unborn" => invite'[i].status # "unborn"
    PROVE  TeamInv'
  <1>1. PositionOK'
    BY WentUnlocked DEF Locked, memberVars
  <1>2. /\ UNCHANGED <<requests, faults>>
        /\ \A g \in Handlers : pc'[g] = "write" => pc[g] = "write" /\ req'[g] = req[g]
    BY Went DEF TeamInv, PositionOK, Locked
  <1>3. late' \subseteq Invites /\ crossed' \in BOOLEAN
    BY DEF TeamInv, DataOK
  <1> QED
    BY <1>1, <1>2, <1>3, InviteStep DEF TeamInv, DataOK

LEMMA SetInvitesKeeps ==
    ASSUME DataOK, NEW S \in SUBSET Invites, NEW status \in {"accepted", "revoked", "expired"},
           SetInvites(S, status)
    PROVE  /\ invite' \in [Invites -> InviteRow]
           /\ \A i \in Invites : invite[i].status # "unborn" => invite'[i].status # "unborn"
           /\ \A i \in Invites : invite'[i].to = invite[i].to /\ invite'[i].role = invite[i].role
           /\ \A i \in Invites : invite'[i].status = IF i \in S THEN status ELSE invite[i].status
  BY DEF SetInvites, DataOK, InviteRow

LEMMA ExpireStaleSafe ==
    ASSUME TeamInv, NEW h \in Handlers, ExpireStale(h)
    PROVE  TeamInv'
  <1>1. PICK stage : stage = IF req[h].op = "invite" THEN "replace" ELSE "find"
    OBVIOUS
  <1>2. /\ pc[h] = "expire" /\ Continue(h, stage) /\ UNCHANGED <<late, crossed, used, memberVars>>
        /\ SetInvites(Pending \intersect late, "expired")
    BY <1>1 DEF ExpireStale, At
  <1>3. Fits(req[h], stage)
    BY <1>1, <1>2 DEF TeamInv, PositionOK, Fits, Locked, AboutInvites
  <1>4. Go(h, stage) /\ stage \in Stage \ Locked
    BY <1>1, <1>2 DEF Go, Stage, Locked
  <1>5. /\ invite' \in [Invites -> InviteRow]
        /\ \A i \in Invites : invite[i].status # "unborn" => invite'[i].status # "unborn"
        /\ \A i \in Invites : invite'[i].status # "unborn" => invite'[i].to \in Users
    BY <1>2, SetInvitesKeeps DEF TeamInv, DataOK, Pending
  <1> QED
    BY <1>2, <1>3, <1>4, <1>5, InviteGoesOn

LEMMA ReplaceInviteSafe ==
    ASSUME TeamInv, NEW h \in Handlers, ReplaceInvite(h)
    PROVE  TeamInv'
  <1>1. PICK S \in SUBSET Pending : SetInvites(S, "revoked")
    BY DEF ReplaceInvite
  <1>2. pc[h] = "replace" /\ Continue(h, "create") /\ UNCHANGED <<late, crossed, used, memberVars>>
    BY DEF ReplaceInvite, At
  <1>3. Fits(req[h], "create")
    BY <1>2 DEF TeamInv, PositionOK, Fits, Locked, AboutInvites
  <1>4. Go(h, "create")
    BY <1>2 DEF Go
  <1>5. /\ invite' \in [Invites -> InviteRow]
        /\ \A i \in Invites : invite[i].status # "unborn" => invite'[i].status # "unborn"
        /\ \A i \in Invites : invite'[i].status # "unborn" => invite'[i].to \in Users
    BY <1>1, SetInvitesKeeps DEF TeamInv, DataOK, Pending
  <1> QED
    BY <1>2, <1>3, <1>4, <1>5, InviteGoesOn DEF Stage, Locked

LEMMA CreateInviteSafe ==
    ASSUME TeamInv, NEW h \in Handlers, CreateInvite(h)
    PROVE  TeamInv'
  <1>1. pc[h] = "create" /\ End(h) /\ UNCHANGED <<late, crossed, used, memberVars>>
    BY DEF CreateInvite, At
  <1>2. req[h] \in Request /\ req[h].user \in Users
    BY <1>1 DEF TeamInv, PositionOK, Fits
  <1>3. PICK i \in Invites : /\ invite[i] = Unborn
                             /\ invite' = [invite EXCEPT ![i] =
                                   [status |-> "pending", to |-> req[h].user,
                                    role |-> req[h].role]]
    BY DEF CreateInvite
  <1>4. /\ invite' \in [Invites -> InviteRow]
        /\ \A j \in Invites : invite[j].status # "unborn" => invite'[j].status # "unborn"
        /\ \A j \in Invites : invite'[j].status # "unborn" => invite'[j].to \in Users
    <2>1. PICK row : row = [status |-> "pending", to |-> req[h].user, role |-> req[h].role]
      OBVIOUS
    <2>2. row \in InviteRow /\ row.status = "pending" /\ row.to \in Users
      BY <2>1, <1>2 DEF InviteRow, Request
    <2>3. invite' = [invite EXCEPT ![i] = row]
      BY <1>3, <2>1
    <2> QED
      BY <2>2, <2>3 DEF TeamInv, DataOK
  <1>5. Go(h, "idle")
    BY <1>1 DEF Go
  <1> QED
    BY <1>1, <1>4, <1>5, InviteGoesOn DEF Stage, Locked

LEMMA FindInviteSafe ==
    ASSUME TeamInv, NEW h \in Handlers, FindInvite(h)
    PROVE  TeamInv'
  <1>1. PICK stage \in {"idle", "join", "revoke"} :
            Go(h, stage) /\ (stage = "join" => req[h].op = "accept")
    BY DEF FindInvite
  <1>2. pc[h] = "find" /\ UNCHANGED <<invite, late, crossed, used, memberVars>>
    BY DEF FindInvite, At, inviteVars
  <1>3. stage = "idle" \/ Fits(req[h], stage)
    BY <1>1, <1>2 DEF TeamInv, PositionOK, Fits, Locked
  <1> QED
    BY <1>1, <1>2, <1>3, InviteGoesOn DEF Stage, Locked, TeamInv, DataOK

LEMMA RevokeInviteSafe ==
    ASSUME TeamInv, NEW h \in Handlers, RevokeInvite(h)
    PROVE  TeamInv'
  <1>1. pc[h] = "revoke" /\ End(h) /\ UNCHANGED <<late, crossed, used, memberVars>>
    BY DEF RevokeInvite, At
  <1>2. req[h].invite \in Invites /\ invite[req[h].invite].status # "unborn"
    BY <1>1 DEF TeamInv, PositionOK, Fits, Born
  <1>3. /\ invite' \in [Invites -> InviteRow]
        /\ \A i \in Invites : invite[i].status # "unborn" => invite'[i].status # "unborn"
        /\ \A i \in Invites : invite'[i].status # "unborn" => invite'[i].to \in Users
    BY <1>2, SetInvitesKeeps DEF RevokeInvite, TeamInv, DataOK
  <1>4. Go(h, "idle")
    BY <1>1 DEF Go
  <1> QED
    BY <1>1, <1>3, <1>4, InviteGoesOn DEF Stage, Locked

LEMMA FindMembershipSafe ==
    ASSUME TeamInv, NEW h \in Handlers, FindMembership(h)
    PROVE  TeamInv'
  <1>1. /\ pc[h] = "join" /\ pc' = [pc EXCEPT ![h] = "accept"]
        /\ UNCHANGED <<requests, faults, inviteVars, memberVars>>
    BY DEF FindMembership, At
  <1>2. /\ req[h] \in Request /\ req[h].invite \in Invites /\ req[h].op = "accept"
        /\ invite[req[h].invite].to \in Users /\ invite[req[h].invite].status # "unborn"
    BY <1>1 DEF TeamInv, PositionOK, DataOK, Fits, Born
  <1>3. PICK r : r = [req[h] EXCEPT !.was = member[invite[req[h].invite].to]]
    OBVIOUS
  <1>4. /\ r \in Request /\ r.op = "accept" /\ r.invite = req[h].invite
        /\ req' = [req EXCEPT ![h] = r]
    BY <1>2, <1>3 DEF FindMembership, Request, TeamInv, DataOK
  <1>5. r # NoRequest
    BY <1>4 DEF NoRequest
  <1>6. Fits(r, "accept") /\ Born(r, "accept")
    BY <1>2, <1>4, <1>5 DEF Fits, Born, Locked, AboutInvites
  <1>7. PositionOK'
    <2>1. lock # h /\ lock' = lock /\ lock \in Handlers \union {None}
      BY <1>1 DEF memberVars, TeamInv, PositionOK, Locked
    <2> QED
      BY <2>1, <1>1, <1>4, <1>6, Moved DEF Stage, Locked, inviteVars
  <1>8. \A g \in Handlers : pc'[g] = "write" => pc[g] = "write" /\ req'[g] = req[g]
    BY <1>1, <1>4 DEF TeamInv, PositionOK
  <1> QED
    BY <1>1, <1>7, <1>8, QuietStep DEF memberVars, TeamInv, DataOK

LEMMA AcceptInviteSafe ==
    ASSUME TeamInv, NEW h \in Handlers, AcceptInvite(h)
    PROVE  TeamInv'
  <1> DEFINE i == req[h].invite
             u == invite[i].to
  <1>1. pc[h] = "accept" /\ End(h) /\ UNCHANGED <<late, crossed, active, lock>>
    BY DEF AcceptInvite, At
  <1>2. i \in Invites /\ invite[i].status # "unborn" /\ u \in Users /\ invite[i].role \in Role
    BY <1>1 DEF TeamInv, PositionOK, DataOK, Fits, Born, InviteRow
  <1>3. /\ invite' \in [Invites -> InviteRow]
        /\ \A j \in Invites : invite[j].status # "unborn" => invite'[j].status # "unborn"
        /\ \A j \in Invites : invite'[j].status # "unborn" => invite'[j].to \in Users
    <2>1. CASE UNCHANGED invite
      BY <2>1 DEF TeamInv, DataOK
    <2>2. CASE SetInvites({i}, "accepted")
      BY <2>2, <1>2, SetInvitesKeeps DEF TeamInv, DataOK
    <2> QED
      BY <2>1, <2>2 DEF AcceptInvite
  <1>4. \/ UNCHANGED <<member, joins, alone>>
        \/ /\ member[u] = "none" /\ member' = [member EXCEPT ![u] = invite[i].role]
           /\ joins' = [joins EXCEPT ![u] = @ + 1] /\ ChangedBy(h)
    BY DEF AcceptInvite
  <1>5. used' \in [Invites -> Nat]
    BY <1>2 DEF AcceptInvite, TeamInv, DataOK
  <1>6. /\ member' \in [Users -> Role \union {"none"}] /\ joins' \in [Users -> Nat]
        /\ \A v \in Users : member[v] # "none" => member'[v] = member[v]
    BY <1>2, <1>4 DEF TeamInv, DataOK
  <1>7. alone' \in [Handlers -> BOOLEAN]
    BY <1>4 DEF ChangedBy, TeamInv, DataOK
  <1>8. UNCHANGED <<requests, faults>> /\ Go(h, "idle")
    BY <1>1 DEF End, Go
  <1>9. DataOK'
    BY <1>1, <1>3, <1>5, <1>6, <1>7, <1>8 DEF TeamInv, DataOK
  <1>10. PositionOK'
    BY <1>1, <1>3, <1>8, WentUnlocked DEF Stage, Locked
  <1>11. \A g \in Handlers : pc'[g] = "write" => pc[g] = "write" /\ req'[g] = req[g]
    BY <1>1 DEF End, TeamInv, PositionOK
  <1> QED
    BY <1>6, <1>9, <1>10, <1>11, MembersKept DEF TeamInv

LEMMA InviteLateSafe ==
    ASSUME TeamInv, NEW i \in Invites, InviteLate(i)
    PROVE  TeamInv'
  <1>1. /\ UNCHANGED <<invite, crossed, used, memberVars, pc, req, requests, faults>>
        /\ late' \subseteq Invites
    BY DEF InviteLate, TeamInv, DataOK
  <1>2. PositionOK'
    BY <1>1 DEF memberVars, TeamInv, PositionOK, Fits, Born
  <1> QED
    BY <1>1, <1>2, InviteStep DEF TeamInv, DataOK

LEMMA FaultSafe ==
    ASSUME TeamInv, NEW h \in Handlers, Fault(h)
    PROVE  TeamInv'
  <1>1. /\ pc' = [pc EXCEPT ![h] = "idle"] /\ req' = [req EXCEPT ![h] = NoRequest]
        /\ lock' = IF lock = h THEN None ELSE lock
        /\ UNCHANGED <<member, joins, active, alone, inviteVars, requests>>
    BY DEF Fault
  <1>2. lock' \in Handlers \union {None} /\ lock' # h
        /\ \A g \in Handlers \ {h} : lock' = g <=> lock = g
    BY <1>1 DEF TeamInv, PositionOK
  <1>3. Fits(NoRequest, "idle") /\ Born(NoRequest, "idle")
    BY DEF Fits, Born, Locked
  <1>4. PositionOK'
    BY <1>1, <1>2, <1>3, NoRequestFits, Moved DEF Stage, Locked, inviteVars
  <1>5. faults' \in 0..MaxFaults
    BY DEF Fault, TeamInv, DataOK
  <1>6. \A g \in Handlers : pc'[g] = "write" => pc[g] = "write" /\ req'[g] = req[g]
    BY <1>1 DEF TeamInv, PositionOK
  <1> QED
    BY <1>1, <1>4, <1>5, <1>6, QuietStep DEF TeamInv, DataOK

-----------------------------------------------------------------------------
LEMMA TeamStep == TeamInv /\ [TeamNext]_teamVars => TeamInv'
  <1> SUFFICES ASSUME TeamInv, [TeamNext]_teamVars PROVE TeamInv'
    OBVIOUS
  <1>1. ASSUME NEW h \in Handlers, Arrives(h) PROVE TeamInv'
    <2>1. CASE \E u \in Users, role \in Role : ReadMember(h, "role", u, role)
      BY <2>1, ReadMemberSafe
    <2>2. CASE \E u \in Users : ReadMember(h, "remove", u, "member")
      BY <2>2, ReadMemberSafe DEF Role
    <2>3. CASE \E u \in Users, role \in Role : CreateInviteStart(h, u, role)
      BY <2>3, CreateInviteStartSafe
    <2>4. CASE \E i \in Invites : RevokeStart(h, i) \/ AcceptStart(h, i)
      BY <2>4, ActOnInviteSafe DEF RevokeStart, AcceptStart
    <2> QED
      BY <1>1, <2>1, <2>2, <2>3, <2>4 DEF Arrives
  <1>2. ASSUME NEW h \in Handlers, GoesOn(h) PROVE TeamInv'
    BY <1>2, CountAdminsSafe, TakeLockSafe, RecheckSafe, WriteMemberSafe, ExpireStaleSafe,
       ReplaceInviteSafe, CreateInviteSafe, FindInviteSafe, RevokeInviteSafe,
       FindMembershipSafe, AcceptInviteSafe
    DEF GoesOn
  <1>3. ASSUME NEW h \in Handlers, Fault(h) PROVE TeamInv'
    BY <1>3, FaultSafe
  <1>4. CASE UNCHANGED teamVars
    BY <1>4 DEF teamVars, TeamInv, DataOK, PositionOK, Born, WriteSafe, At, SomeAdminRemains,
       Admins
  <1> QED
    BY <1>1, <1>2, <1>3, <1>4, SetAccountStatusSafe, InviteLateSafe DEF TeamNext

THEOREM TeamInvariant == TeamSpec => []TeamInv
  <1> QED
    BY TeamStarts, TeamStep, PTL DEF TeamSpec

\* However role changes, removals and invites overlap and fail, the workspace keeps a
\* member with the administrator's role: the recount under the advisory lock is still
\* true at the write (team-service.ts, updateTeamMemberRole and removeTeamMember).
THEOREM AdministratorStays == TeamSpec => []SomeAdminRemains
  <1>1. TeamInv => SomeAdminRemains
    BY DEF TeamInv
  <1> QED
    BY <1>1, TeamInvariant, PTL

-----------------------------------------------------------------------------
(* A role change that nobody disturbs *)

RoleStage == {"count", "lock"} \union Locked

\* A request is still alone: what it has read and counted is what there is.
LoneInv ==
    \A h \in Handlers : alone[h] /\ pc[h] \in RoleStage =>
        /\ member[req[h].user] = req[h].was /\ joins[req[h].user] = req[h].joins
        /\ pc[h] # "count" /\ TakesAdmin(req[h], req[h].was) => ~(Cardinality(ActiveAdmins) <= 1)

\* Nobody's membership or account changes, and only counting leaves "count".
LEMMA LoneKept ==
    ASSUME LoneInv, UNCHANGED <<member, joins, active>>,
           \A g \in Handlers : alone'[g] /\ pc'[g] \in RoleStage =>
               /\ alone[g] /\ pc[g] \in RoleStage /\ req'[g] = req[g]
               /\ pc'[g] # "count" => pc[g] # "count"
    PROVE  LoneInv'
  <1>1. ActiveAdmins' = ActiveAdmins
    BY DEF ActiveAdmins, Admins
  <1> QED
    BY <1>1 DEF LoneInv, TakesAdmin

\* A member or an account changes: only a request that is over may be alone.
LEMMA LoneDisturbed ==
    ASSUME NEW h \in Handlers, ChangedBy(h), pc'[h] = "idle"
    PROVE  LoneInv'
  BY DEF LoneInv, ChangedBy, RoleStage, Locked

LEMMA LoneStep ==
    ASSUME TeamInv, LoneInv, [TeamNext]_teamVars
    PROVE  LoneInv'
  <1>1. ASSUME NEW h \in Handlers, NEW op \in {"role", "remove"}, NEW u \in Users,
               NEW role \in Role, ReadMember(h, op, u, role)
        PROVE  LoneInv'
    <2>1. PICK r : r = [NoRequest EXCEPT !.op = op, !.user = u, !.role = role,
                                         !.was = member[u], !.joins = joins[u]]
      OBVIOUS
    <2>2. r.user = u /\ r.was = member[u] /\ r.joins = joins[u]
      BY <2>1 DEF NoRequest
    <2>3. /\ pc' = [pc EXCEPT ![h] = "count"] /\ req' = [req EXCEPT ![h] = r]
          /\ alone' = [alone EXCEPT ![h] = TRUE] /\ UNCHANGED <<member, joins, active>>
      BY <1>1, <2>1 DEF ReadMember, Ask
    <2>4. /\ pc'[h] = "count" /\ req'[h] = r
          /\ \A g \in Handlers \ {h} : alone'[g] = alone[g] /\ pc'[g] = pc[g] /\ req'[g] = req[g]
      BY <2>3 DEF TeamInv, DataOK, PositionOK
    <2>5. ActiveAdmins' = ActiveAdmins
      BY <2>3 DEF ActiveAdmins, Admins
    <2> QED
      BY <2>2, <2>3, <2>4, <2>5 DEF LoneInv, TakesAdmin
  <1>2. ASSUME NEW h \in Handlers, CountAdmins(h) PROVE LoneInv'
    <2>1. PICK stage \in {"idle", "lock"} :
              /\ Go(h, stage)
              /\ stage = "lock" =>
                    ~(TakesAdmin(req[h], req[h].was) /\ Cardinality(ActiveAdmins) <= 1)
      BY <1>2 DEF CountAdmins
    <2>2. pc[h] = "count" /\ UNCHANGED <<member, joins, active, alone>>
      BY <1>2 DEF CountAdmins, At, memberVars
    <2>3. /\ pc'[h] = stage
          /\ stage = "lock" => req'[h] = req[h]
          /\ \A g \in Handlers \ {h} : pc'[g] = pc[g] /\ req'[g] = req[g]
      BY <2>1 DEF Go, Continue, End, TeamInv, PositionOK
    <2>4. ActiveAdmins' = ActiveAdmins
      BY <2>2 DEF ActiveAdmins, Admins
    <2>5. ASSUME NEW g \in Handlers, alone'[g], pc'[g] \in RoleStage
          PROVE  /\ member[req'[g].user] = req'[g].was /\ joins[req'[g].user] = req'[g].joins
                 /\ pc'[g] # "count" /\ TakesAdmin(req'[g], req'[g].was) =>
                       ~(Cardinality(ActiveAdmins) <= 1)
      <3>1. CASE g = h
        <4>1. stage = "lock" /\ pc[g] \in RoleStage
          BY <2>2, <2>3, <2>5, <3>1 DEF RoleStage, Locked
        <4>2. req'[g] = req[g]
          BY <4>1, <2>3, <3>1
        <4>3. alone[g]
          BY <2>2, <2>5
        <4> QED
          BY <4>1, <4>2, <4>3, <2>1, <3>1 DEF LoneInv
      <3>2. CASE g # h
        BY <2>2, <2>3, <2>5, <3>2 DEF LoneInv
      <3> QED
        BY <3>1, <3>2
    <2> QED
      BY <2>2, <2>4, <2>5 DEF LoneInv, TakesAdmin
  <1>3. ASSUME NEW h \in Handlers, TakeLock(h) \/ Recheck(h) PROVE LoneInv'
    <2>1. /\ pc[h] \in {"lock", "recheck"} /\ UNCHANGED <<member, joins, active, alone>>
          /\ \A g \in Handlers \ {h} : pc'[g] = pc[g] /\ req'[g] = req[g]
          /\ pc'[h] # "idle" => req'[h] = req[h] /\ pc'[h] # "count"
      BY <1>3 DEF TakeLock, Recheck, At, Go, Continue, End, TeamInv, PositionOK
    <2> QED
      BY <2>1, LoneKept DEF RoleStage, Locked
  <1>4. ASSUME NEW h \in Handlers, WriteMember(h) PROVE LoneInv'
    BY <1>4, LoneDisturbed DEF WriteMember, End, TeamInv, PositionOK
  <1>5. ASSUME NEW h \in Handlers, AcceptInvite(h) PROVE LoneInv'
    <2>1. /\ pc[h] = "accept" /\ pc'[h] = "idle" /\ UNCHANGED active
          /\ \A g \in Handlers \ {h} : pc'[g] = pc[g] /\ req'[g] = req[g]
      BY <1>5 DEF AcceptInvite, At, End, TeamInv, PositionOK
    <2>2. UNCHANGED <<member, joins, alone>> \/ ChangedBy(h)
      BY <1>5 DEF AcceptInvite
    <2> QED
      BY <2>1, <2>2, LoneKept, LoneDisturbed DEF RoleStage, Locked
  <1>6. ASSUME NEW h \in Handlers, Fault(h) PROVE LoneInv'
    <2>1. /\ UNCHANGED <<member, joins, active, alone>> /\ pc'[h] = "idle"
          /\ \A g \in Handlers \ {h} : pc'[g] = pc[g] /\ req'[g] = req[g]
      BY <1>6 DEF Fault, TeamInv, PositionOK
    <2> QED
      BY <2>1, LoneKept DEF RoleStage, Locked
  <1>7. ASSUME NEW h \in Handlers, NEW r, AskInvite(h, r, "expire") PROVE LoneInv'
    <2>1. /\ UNCHANGED <<member, joins, active, alone>> /\ pc'[h] = "expire"
          /\ \A g \in Handlers \ {h} : pc'[g] = pc[g] /\ req'[g] = req[g]
      BY <1>7 DEF AskInvite, Ask, memberVars, TeamInv, PositionOK
    <2> QED
      BY <2>1, LoneKept DEF RoleStage, Locked
  <1>8. ASSUME NEW h \in Handlers,
               \/ ExpireStale(h) \/ ReplaceInvite(h) \/ CreateInvite(h) \/ FindInvite(h)
               \/ RevokeInvite(h) \/ FindMembership(h)
        PROVE  LoneInv'
    <2>1. /\ UNCHANGED <<member, joins, active, alone>>
          /\ pc'[h] \notin RoleStage
          /\ \A g \in Handlers \ {h} : pc'[g] = pc[g] /\ req'[g] = req[g]
      BY <1>8
      DEF ExpireStale, ReplaceInvite, CreateInvite, FindInvite, RevokeInvite, FindMembership,
          At, Go, Continue, End, memberVars, TeamInv, PositionOK, RoleStage, Locked
    <2> QED
      BY <2>1, LoneKept
  <1>9. ASSUME NEW u \in Users, SetAccountStatus(u) PROVE LoneInv'
    BY <1>9 DEF SetAccountStatus, LoneInv
  <1>10. CASE UNCHANGED <<member, joins, active, alone, pc, req>>
    BY <1>10, LoneKept
  <1>11. ASSUME NEW h \in Handlers, Arrives(h) PROVE LoneInv'
    <2>1. CASE \E u \in Users, role \in Role : ReadMember(h, "role", u, role)
      BY <2>1, <1>1
    <2>2. CASE \E u \in Users : ReadMember(h, "remove", u, "member")
      BY <2>2, <1>1 DEF Role
    <2>3. CASE \/ \E u \in Users, role \in Role : CreateInviteStart(h, u, role)
               \/ \E i \in Invites : RevokeStart(h, i) \/ AcceptStart(h, i)
      BY <2>3, <1>7 DEF CreateInviteStart, RevokeStart, AcceptStart
    <2> QED
      BY <1>11, <2>1, <2>2, <2>3 DEF Arrives
  <1>12. ASSUME NEW i \in Invites, InviteLate(i) PROVE LoneInv'
    BY <1>12, <1>10 DEF InviteLate, memberVars
  <1>13. CASE UNCHANGED teamVars
    BY <1>13, <1>10 DEF teamVars
  <1> QED
    BY <1>2, <1>3, <1>4, <1>5, <1>6, <1>8, <1>9, <1>11, <1>12, <1>13 DEF TeamNext, GoesOn

\* A request at its write ends there by writing, or by a fault.
LEMMA WriteEnds ==
    ASSUME TeamInv, TeamNext, NEW h \in Handlers, pc[h] = "write", pc'[h] = "idle",
           faults' = faults
    PROVE  WriteMember(h)
  <1>1. ASSUME NEW g \in Handlers, Arrives(g) PROVE FALSE
    BY <1>1 DEF Arrives, ReadMember, CreateInviteStart, RevokeStart, AcceptStart, AskInvite,
       Ask, At, TeamInv, PositionOK
  <1>2. ASSUME NEW g \in Handlers, GoesOn(g) PROVE WriteMember(h)
    <2>1. pc[g] # "write" => pc'[h] = "write"
      BY <1>2
      DEF GoesOn, CountAdmins, TakeLock, Recheck, WriteMember, ExpireStale, ReplaceInvite,
          CreateInvite, FindInvite, RevokeInvite, FindMembership, AcceptInvite, At, Go,
          Continue, End, TeamInv, PositionOK
    <2>2. pc[g] = "write" => WriteMember(g) /\ g = h
      BY <1>2
      DEF GoesOn, CountAdmins, TakeLock, Recheck, ExpireStale, ReplaceInvite, CreateInvite,
          FindInvite, RevokeInvite, FindMembership, AcceptInvite, At, TeamInv, PositionOK,
          Locked
    <2> QED
      BY <2>1, <2>2
  <1>3. ASSUME NEW g \in Handlers, Fault(g) PROVE FALSE
    BY <1>3 DEF Fault, TeamInv, DataOK
  <1>4. ASSUME \/ \E u \in Users : SetAccountStatus(u)
               \/ \E i \in Invites : InviteLate(i)
        PROVE  FALSE
    BY <1>4 DEF SetAccountStatus, InviteLate
  <1> QED
    BY <1>1, <1>2, <1>3, <1>4 DEF TeamNext

\* An undisturbed role change or removal leaves an administrator whose account is active,
\* if there was one: the recount by role would not ensure it, the count before does
\* (team-service.ts, countSecurityAdmins).
THEOREM ActiveAdministratorStays == TeamSpec => ActiveAdminRemains
  <1>1. TeamInit => LoneInv
    BY DEF TeamInit, LoneInv, RoleStage, Locked
  <1>2. ASSUME TeamInv, LoneInv, TeamNext, NEW h \in Handlers,
               pc[h] = "write", faults' = faults, pc'[h] = "idle", alone[h],
               ActiveAdmins # {}
        PROVE  ActiveAdmins' # {}
    <2> DEFINE u == req[h].user
    <2>1. WriteMember(h)
      BY <1>2, WriteEnds
    <2>2. /\ member[u] = req[h].was
          /\ TakesAdmin(req[h], req[h].was) => ~(Cardinality(ActiveAdmins) <= 1)
      BY <1>2 DEF LoneInv, RoleStage, Locked
    <2>3. u \in Users /\ req[h].op \in {"role", "remove"}
      BY <1>2 DEF TeamInv, PositionOK, Fits, Locked
    <2>4. \A v \in Users \ {u} : member'[v] = member[v] /\ active'[v] = active[v]
      BY <2>1, <2>3 DEF WriteMember, TeamInv, DataOK
    <2>5. CASE TakesAdmin(req[h], member[u])
      <3>1. ~(Cardinality(ActiveAdmins) <= 1)
        BY <2>2, <2>5 DEF TakesAdmin
      <3>2. PICK v \in ActiveAdmins : v # u
        BY <3>1, AnotherAdmin DEF ActiveAdmins, Admins
      <3> QED
        BY <3>2, <2>4 DEF ActiveAdmins, Admins
    <2>6. CASE ~TakesAdmin(req[h], member[u])
      <3>1. PICK a \in Users : member[a] = "security_admin" /\ active[a]
        BY <1>2 DEF ActiveAdmins, Admins
      <3>2. CASE a # u
        BY <3>1, <3>2, <2>4 DEF ActiveAdmins, Admins
      <3>3. CASE a = u
        <4>1. req[h].op = "role" /\ req[h].role = "security_admin"
          BY <3>1, <3>3, <2>3, <2>6 DEF TakesAdmin
        <4>2. /\ member' = [member EXCEPT ![u] =
                    IF req[h].op = "remove" THEN "none" ELSE req[h].role]
              /\ active' = [active EXCEPT ![u] =
                    active[u] /\ (req[h].op = "remove" => u \in Elsewhere)]
          BY <2>1 DEF WriteMember
        <4>3. member'[u] = "security_admin"
          BY <1>2, <4>1, <4>2, <2>3 DEF TeamInv, DataOK
        <4>4. active'[u]
          BY <1>2, <4>1, <4>2, <2>3, <3>1, <3>3 DEF TeamInv, DataOK
        <4> QED
          BY <4>3, <4>4, <2>3 DEF ActiveAdmins, Admins
      <3> QED
        BY <3>2, <3>3
    <2> QED
      BY <2>5, <2>6
  <1>3. TeamInv /\ LoneInv /\ [TeamNext]_teamVars =>
          [\A h \in Handlers :
             (At(h, "write") /\ faults' = faults /\ pc'[h] = "idle" /\ alone[h]
                /\ ActiveAdmins # {})
             => ActiveAdmins' # {}]_teamVars
    BY <1>2 DEF At
  <1>4. TeamInv /\ LoneInv /\ [TeamNext]_teamVars => LoneInv'
    BY LoneStep
  <1> QED
    BY <1>1, <1>3, <1>4, TeamInvariant, PTL DEF TeamSpec, ActiveAdminRemains

-----------------------------------------------------------------------------
(* Invites that are asked about one at a time *)

\* Request g is about invites and under way.
Busy(g) == pc[g] # "idle" /\ AboutInvites(req[g].op)

OnePending == \A i, j \in Pending : invite[i].to = invite[j].to => i = j

UsedOnce == \A i \in Invites : used[i] = IF invite[i].status = "accepted" THEN 1 ELSE 0

\* An address about to get an invite has none pending; an invite about to be revoked or
\* accepted is pending.
Prepared(r, stage) ==
    /\ stage = "create" => \A i \in Pending : invite[i].to # r.user
    /\ stage \in {"revoke", "join", "accept"} => r.invite \in Pending

SettledInv ==
    ~crossed =>
      /\ \A g, h \in Handlers : Busy(g) /\ Busy(h) => g = h
      /\ OnePending /\ UsedOnce
      /\ \A h \in Handlers : Prepared(req[h], pc[h])

\* The invites stay as they are, and so do the requests about them.
LEMMA SettledKept ==
    ASSUME TeamInv, SettledInv, UNCHANGED <<invite, used, crossed>>,
           \A g \in Handlers : pc'[g] # "idle" /\ AboutInvites(req'[g].op) =>
               pc'[g] = pc[g] /\ req'[g] = req[g],
           PositionOK'
    PROVE  SettledInv'
  <1> SUFFICES ASSUME ~crossed
               PROVE  /\ \A g, h \in Handlers : Busy(g)' /\ Busy(h)' => g = h
                      /\ OnePending' /\ UsedOnce'
                      /\ \A h \in Handlers : Prepared(req[h], pc[h])'
    BY DEF SettledInv
  <1>1. Pending' = Pending
    BY DEF Pending
  <1>2. OnePending' /\ UsedOnce'
    BY <1>1 DEF SettledInv, OnePending, UsedOnce
  <1>3. \A g \in Handlers : Busy(g)' => Busy(g)
    BY DEF Busy
  <1>4. ASSUME NEW h \in Handlers PROVE Prepared(req[h], pc[h])'
    <2>1. CASE pc'[h] \in {"create", "revoke", "join", "accept"}
      <3>1. AboutInvites(req'[h].op)
        BY <2>1 DEF PositionOK, Fits
      <3>2. pc'[h] = pc[h] /\ req'[h] = req[h]
        BY <2>1, <3>1
      <3> QED
        BY <3>2, <1>1 DEF SettledInv, Prepared
    <2>2. CASE pc'[h] \notin {"create", "revoke", "join", "accept"}
      BY <2>2 DEF Prepared
    <2> QED
      BY <2>1, <2>2
  <1> QED
    BY <1>2, <1>3, <1>4 DEF SettledInv

\* The request about invites takes a step: as long as none has crossed it, it is the only
\* one, and only what it has prepared matters.
LEMMA SettledMoved ==
    ASSUME TeamInv, SettledInv, NEW h \in Handlers, Busy(h), crossed' = crossed,
           \A g \in Handlers \ {h} : pc'[g] = pc[g] /\ req'[g] = req[g],
           ~crossed => OnePending' /\ UsedOnce' /\ Prepared(req[h], pc[h])'
    PROVE  SettledInv'
  <1> SUFFICES ASSUME ~crossed
               PROVE  /\ \A f, g \in Handlers : Busy(f)' /\ Busy(g)' => f = g
                      /\ \A g \in Handlers : Prepared(req[g], pc[g])'
    BY DEF SettledInv
  <1>1. \A g \in Handlers \ {h} : ~Busy(g) /\ ~Busy(g)'
    BY DEF SettledInv, Busy
  <1>2. ASSUME NEW g \in Handlers \ {h} PROVE Prepared(req[g], pc[g])'
    <2>1. pc[g] \notin {"create", "revoke", "join", "accept"}
      BY <1>1 DEF Busy, TeamInv, PositionOK, Fits
    <2> QED
      BY <2>1 DEF Prepared
  <1> QED
    BY <1>1, <1>2

LEMMA SettledAsked ==
    ASSUME TeamInv, SettledInv, NEW h \in Handlers, NEW r, AskInvite(h, r, "expire")
    PROVE  SettledInv'
  <1> SUFFICES ASSUME ~crossed'
               PROVE  /\ \A f, g \in Handlers : Busy(f)' /\ Busy(g)' => f = g
                      /\ OnePending' /\ UsedOnce'
                      /\ \A g \in Handlers : Prepared(req[g], pc[g])'
    BY DEF SettledInv
  <1>1. /\ ~crossed /\ UNCHANGED <<invite, used>>
        /\ \A g \in Handlers : ~Busy(g)
    BY DEF AskInvite, Busy, At
  <1>2. /\ pc'[h] = "expire"
        /\ \A g \in Handlers \ {h} : pc'[g] = pc[g] /\ req'[g] = req[g]
    BY DEF AskInvite, Ask, TeamInv, PositionOK
  <1>3. Pending' = Pending
    BY <1>1 DEF Pending
  <1>4. OnePending' /\ UsedOnce'
    BY <1>1, <1>3 DEF SettledInv, OnePending, UsedOnce
  <1>5. \A f, g \in Handlers : Busy(f)' /\ Busy(g)' => f = g
    BY <1>1, <1>2 DEF Busy
  <1>6. ASSUME NEW g \in Handlers PROVE Prepared(req[g], pc[g])'
    BY <1>1, <1>2, <1>3 DEF SettledInv, Prepared
  <1> QED
    BY <1>4, <1>5, <1>6

LEMMA SettledStep ==
    ASSUME TeamInv, SettledInv, [TeamNext]_teamVars
    PROVE  SettledInv'
  <1>0. PositionOK'
    BY TeamStep DEF TeamInv
  <1>1. ASSUME NEW h \in Handlers, NEW op \in {"role", "remove"}, NEW u \in Users,
               NEW role \in Role, ReadMember(h, op, u, role)
        PROVE  SettledInv'
    <2>1. req'[h].op = op
      BY <1>1 DEF ReadMember, Ask, NoRequest, TeamInv, PositionOK
    <2>2. /\ UNCHANGED <<invite, used, crossed>>
          /\ \A g \in Handlers \ {h} : pc'[g] = pc[g] /\ req'[g] = req[g]
      BY <1>1 DEF ReadMember, Ask, inviteVars, TeamInv, PositionOK
    <2> QED
      BY <2>1, <2>2, <1>0, SettledKept DEF AboutInvites
  <1>2. ASSUME NEW h \in Handlers,
               CountAdmins(h) \/ TakeLock(h) \/ Recheck(h) \/ WriteMember(h) \/ Fault(h)
        PROVE  SettledInv'
    <2>1. /\ UNCHANGED <<invite, used, crossed>>
          /\ \A g \in Handlers \ {h} : pc'[g] = pc[g] /\ req'[g] = req[g]
      BY <1>2 DEF CountAdmins, TakeLock, Recheck, WriteMember, Fault, Go, Continue, End,
         inviteVars, TeamInv, PositionOK
    <2>2. pc'[h] = "idle" \/ (req'[h] = req[h] /\ req[h].op \in {"role", "remove"})
      BY <1>2 DEF CountAdmins, TakeLock, Recheck, WriteMember, Fault, At, Go, Continue, End,
         TeamInv, PositionOK, Fits, Locked
    <2> QED
      BY <2>1, <2>2, <1>0, SettledKept DEF AboutInvites
  <1>3. ASSUME UNCHANGED <<invite, used, crossed, pc, req>> PROVE SettledInv'
    BY <1>3, <1>0, SettledKept
  <1>4. ASSUME NEW h \in Handlers, ExpireStale(h) PROVE SettledInv'
    <2>1. /\ Busy(h) /\ UNCHANGED <<crossed, used>> /\ pc'[h] \in {"replace", "find"}
          /\ \A g \in Handlers \ {h} : pc'[g] = pc[g] /\ req'[g] = req[g]
          /\ SetInvites(Pending \intersect late, "expired")
      BY <1>4 DEF ExpireStale, At, Busy, Continue, TeamInv, PositionOK, Fits
    <2>2. \A i \in Invites :
             /\ invite'[i].to = invite[i].to
             /\ invite'[i].status = IF i \in Pending \intersect late THEN "expired"
                                    ELSE invite[i].status
      BY <2>1, SetInvitesKeeps DEF Pending, TeamInv
    <2>3. ~crossed => OnePending' /\ UsedOnce'
      BY <2>1, <2>2 DEF SettledInv, OnePending, UsedOnce, Pending
    <2> QED
      BY <2>1, <2>3, SettledMoved DEF Prepared
  <1>5. ASSUME NEW h \in Handlers, ReplaceInvite(h) PROVE SettledInv'
    <2>1. /\ Busy(h) /\ UNCHANGED <<crossed, used>> /\ pc'[h] = "create" /\ req'[h] = req[h]
          /\ \A g \in Handlers \ {h} : pc'[g] = pc[g] /\ req'[g] = req[g]
      BY <1>5 DEF ReplaceInvite, At, Busy, Continue, TeamInv, PositionOK, Fits
    <2>2. PICK S \in SUBSET Invites :
              /\ SetInvites(S, "revoked") /\ S = {i \in Pending : invite[i].to = req[h].user}
      BY <1>5 DEF ReplaceInvite, Pending
    <2>3. \A i \in Invites :
             /\ invite'[i].to = invite[i].to
             /\ invite'[i].status = IF i \in S THEN "revoked" ELSE invite[i].status
      BY <2>2, SetInvitesKeeps DEF TeamInv
    <2>4. ~crossed => OnePending' /\ UsedOnce'
      BY <2>1, <2>2, <2>3 DEF SettledInv, OnePending, UsedOnce, Pending
    <2>5. \A i \in Pending' : invite'[i].to # req[h].user
      BY <2>2, <2>3 DEF Pending
    <2> QED
      BY <2>1, <2>4, <2>5, SettledMoved DEF Prepared
  <1>6. ASSUME NEW h \in Handlers, CreateInvite(h) PROVE SettledInv'
    <2>1. /\ Busy(h) /\ UNCHANGED <<crossed, used>> /\ pc'[h] = "idle" /\ pc[h] = "create"
          /\ \A g \in Handlers \ {h} : pc'[g] = pc[g] /\ req'[g] = req[g]
      BY <1>6 DEF CreateInvite, At, Busy, End, TeamInv, PositionOK, Fits
    <2>2. PICK row : row = [status |-> "pending", to |-> req[h].user, role |-> req[h].role]
      OBVIOUS
    <2>3. PICK n \in Invites : invite[n] = Unborn /\ invite' = [invite EXCEPT ![n] = row]
      BY <1>6, <2>2 DEF CreateInvite
    <2>4. invite[n].status = "unborn"
      BY <2>3 DEF Unborn
    <2>5. /\ invite'[n].status = "pending" /\ invite'[n].to = req[h].user
          /\ \A i \in Invites \ {n} : invite'[i] = invite[i]
      BY <2>2, <2>3 DEF TeamInv, DataOK
    <2>6. ~crossed => OnePending' /\ UsedOnce'
      <3> SUFFICES ASSUME ~crossed PROVE OnePending' /\ UsedOnce'
        OBVIOUS
      <3>1. \A i \in Pending : invite[i].to # req[h].user
        BY <2>1 DEF SettledInv, Prepared
      <3>2. OnePending'
        BY <2>5, <3>1 DEF SettledInv, OnePending, Pending
      <3>3. UsedOnce'
        BY <2>1, <2>4, <2>5 DEF SettledInv, UsedOnce
      <3> QED
        BY <3>2, <3>3
    <2> QED
      BY <2>1, <2>6, SettledMoved DEF Prepared
  <1>7. ASSUME NEW h \in Handlers, FindInvite(h) PROVE SettledInv'
    <2>1. /\ Busy(h) /\ UNCHANGED <<crossed, used, invite>>
          /\ pc'[h] \in {"idle", "join", "revoke"}
          /\ pc'[h] # "idle" => req'[h] = req[h] /\ req[h].invite \in Pending
          /\ \A g \in Handlers \ {h} : pc'[g] = pc[g] /\ req'[g] = req[g]
      BY <1>7 DEF FindInvite, At, Busy, Go, Continue, End, inviteVars, TeamInv, PositionOK, Fits
    <2>2. Pending' = Pending
      BY <2>1 DEF Pending
    <2>3. ~crossed => OnePending' /\ UsedOnce'
      BY <2>1, <2>2 DEF SettledInv, OnePending, UsedOnce
    <2> QED
      BY <2>1, <2>2, <2>3, SettledMoved DEF Prepared
  <1>8. ASSUME NEW h \in Handlers, RevokeInvite(h) PROVE SettledInv'
    <2>1. /\ Busy(h) /\ UNCHANGED <<crossed, used>> /\ pc'[h] = "idle" /\ pc[h] = "revoke"
          /\ req[h].invite \in Invites /\ SetInvites({req[h].invite}, "revoked")
          /\ \A g \in Handlers \ {h} : pc'[g] = pc[g] /\ req'[g] = req[g]
      BY <1>8 DEF RevokeInvite, At, Busy, End, TeamInv, PositionOK, Fits
    <2>2. \A i \in Invites :
             /\ invite'[i].to = invite[i].to
             /\ invite'[i].status = IF i = req[h].invite THEN "revoked" ELSE invite[i].status
      BY <2>1, SetInvitesKeeps DEF TeamInv
    <2>3. ~crossed => req[h].invite \in Pending
      BY <2>1 DEF SettledInv, Prepared
    <2>4. ~crossed => OnePending' /\ UsedOnce'
      BY <2>1, <2>2, <2>3 DEF SettledInv, OnePending, UsedOnce, Pending
    <2> QED
      BY <2>1, <2>4, SettledMoved DEF Prepared
  <1>9. ASSUME NEW h \in Handlers, FindMembership(h) PROVE SettledInv'
    <2>1. /\ Busy(h) /\ UNCHANGED <<crossed, used, invite>> /\ pc'[h] = "accept"
          /\ pc[h] = "join" /\ req'[h].invite = req[h].invite
          /\ \A g \in Handlers \ {h} : pc'[g] = pc[g] /\ req'[g] = req[g]
      BY <1>9 DEF FindMembership, At, Busy, inviteVars, TeamInv, PositionOK, Fits, Request
    <2>2. Pending' = Pending
      BY <2>1 DEF Pending
    <2>3. ~crossed => OnePending' /\ UsedOnce' /\ req[h].invite \in Pending
      BY <2>1, <2>2 DEF SettledInv, OnePending, UsedOnce, Prepared
    <2> QED
      BY <2>1, <2>2, <2>3, SettledMoved DEF Prepared
  <1>10. ASSUME NEW h \in Handlers, AcceptInvite(h) PROVE SettledInv'
    <2> DEFINE n == req[h].invite
    <2>1. /\ Busy(h) /\ UNCHANGED crossed /\ pc'[h] = "idle" /\ pc[h] = "accept"
          /\ n \in Invites
          /\ \A g \in Handlers \ {h} : pc'[g] = pc[g] /\ req'[g] = req[g]
      BY <1>10 DEF AcceptInvite, At, Busy, End, TeamInv, PositionOK, Fits
    <2>2. \/ UNCHANGED <<invite, used>>
          \/ SetInvites({n}, "accepted") /\ used' = [used EXCEPT ![n] = @ + 1]
      BY <1>10 DEF AcceptInvite
    <2>3. ~crossed => n \in Pending
      BY <2>1 DEF SettledInv, Prepared
    <2>4. ASSUME ~crossed, UNCHANGED <<invite, used>> PROVE OnePending' /\ UsedOnce'
      BY <2>4 DEF SettledInv, OnePending, UsedOnce, Pending
    <2>5. ASSUME ~crossed, SetInvites({n}, "accepted"), used' = [used EXCEPT ![n] = @ + 1]
          PROVE  OnePending' /\ UsedOnce'
      <3>1. \A i \in Invites :
               /\ invite'[i].to = invite[i].to
               /\ invite'[i].status = IF i = n THEN "accepted" ELSE invite[i].status
        BY <2>1, <2>5, SetInvitesKeeps DEF TeamInv
      <3>2. used[n] = 0
        BY <2>1, <2>3, <2>5 DEF SettledInv, UsedOnce, Pending
      <3>3. \A i \in Invites : used'[i] = IF i = n THEN 1 ELSE used[i]
        BY <2>1, <2>5, <3>2 DEF TeamInv, DataOK
      <3>4. UsedOnce'
        BY <2>5, <3>1, <3>3 DEF SettledInv, UsedOnce
      <3>5. OnePending'
        BY <2>5, <3>1 DEF SettledInv, OnePending, Pending
      <3> QED
        BY <3>4, <3>5
    <2> QED
      BY <2>1, <2>2, <2>4, <2>5, SettledMoved DEF Prepared
  <1>11. ASSUME NEW h \in Handlers, Arrives(h) PROVE SettledInv'
    <2>1. CASE \E u \in Users, role \in Role : ReadMember(h, "role", u, role)
      BY <2>1, <1>1
    <2>2. CASE \E u \in Users : ReadMember(h, "remove", u, "member")
      BY <2>2, <1>1 DEF Role
    <2>3. CASE \/ \E u \in Users, role \in Role : CreateInviteStart(h, u, role)
               \/ \E i \in Invites : RevokeStart(h, i) \/ AcceptStart(h, i)
      BY <2>3, SettledAsked DEF CreateInviteStart, RevokeStart, AcceptStart
    <2> QED
      BY <1>11, <2>1, <2>2, <2>3 DEF Arrives
  <1>12. ASSUME \/ \E u \in Users : SetAccountStatus(u)
                \/ \E i \in Invites : InviteLate(i)
                \/ UNCHANGED teamVars
         PROVE  SettledInv'
    BY <1>12, <1>3 DEF SetAccountStatus, InviteLate, inviteVars, teamVars
  <1> QED
    BY <1>2, <1>4, <1>5, <1>6, <1>7, <1>8, <1>9, <1>10, <1>11, <1>12 DEF TeamNext, GoesOn

\* A settled invite is not pending, and those alone are written while requests about
\* invites do not overlap.
LEMMA SettledKeeps ==
    ASSUME TeamInv, SettledInv, TeamNext, ~crossed, NEW i \in Invites,
           invite[i].status \in {"accepted", "revoked", "expired"}
    PROVE  invite'[i] = invite[i]
  <1>0. i \notin Pending
    BY DEF Pending
  <1>1. ASSUME NEW S, i \notin S, NEW status, SetInvites(S, status)
        PROVE  invite'[i] = invite[i]
    BY <1>1 DEF SetInvites
  <1>2. ASSUME NEW h \in Handlers, ExpireStale(h)
        PROVE  invite'[i] = invite[i]
    <2>1. SetInvites(Pending \intersect late, "expired")
      BY <1>2 DEF ExpireStale
    <2> QED  BY <1>0, <1>1, <2>1
  <1>3. ASSUME NEW h \in Handlers, ReplaceInvite(h)
        PROVE  invite'[i] = invite[i]
    <2>1. SetInvites({j \in Pending : invite[j].to = req[h].user}, "revoked")
      BY <1>3 DEF ReplaceInvite
    <2> QED  BY <1>0, <1>1, <2>1
  <1>4. ASSUME NEW h \in Handlers, CreateInvite(h)
        PROVE  invite'[i] = invite[i]
    <2>1. \A j \in Invites : invite[j] = Unborn => j # i
      BY DEF Unborn
    <2> QED  BY <1>4, <2>1 DEF CreateInvite
  <1>5. ASSUME NEW h \in Handlers, RevokeInvite(h) \/ AcceptInvite(h)
        PROVE  invite'[i] = invite[i]
    <2>1. pc[h] \in {"revoke", "accept"}
      BY <1>5 DEF RevokeInvite, AcceptInvite, At
    <2>2. req[h].invite \in Pending
      BY <2>1 DEF SettledInv, Prepared
    <2>3. \/ UNCHANGED invite
          \/ \E status \in {"revoked", "accepted"} : SetInvites({req[h].invite}, status)
      BY <1>5 DEF RevokeInvite, AcceptInvite
    <2> QED  BY <1>0, <1>1, <2>2, <2>3
  <1>6. ASSUME NEW h \in Handlers,
               \/ Arrives(h) \/ Fault(h) \/ CountAdmins(h) \/ TakeLock(h) \/ Recheck(h)
               \/ WriteMember(h) \/ FindInvite(h) \/ FindMembership(h)
        PROVE  invite'[i] = invite[i]
    BY <1>6 DEF Arrives, ReadMember, CreateInviteStart, RevokeStart, AcceptStart, AskInvite,
       Fault, CountAdmins, TakeLock, Recheck, WriteMember, FindInvite, FindMembership,
       inviteVars
  <1>7. ASSUME \/ \E u \in Users : SetAccountStatus(u)
               \/ \E j \in Invites : InviteLate(j)
        PROVE  invite'[i] = invite[i]
    BY <1>7 DEF SetAccountStatus, InviteLate, inviteVars
  <1> QED
    BY <1>2, <1>3, <1>4, <1>5, <1>6, <1>7 DEF TeamNext, GoesOn

\* The invariant of requests about invites that do not overlap.
THEOREM InvitesPrepared == TeamSpec => []SettledInv
  <1>1. TeamInit => SettledInv
    <2> SUFFICES ASSUME TeamInit PROVE SettledInv
      OBVIOUS
    <2>1. \A h \in Handlers : ~Busy(h) /\ Prepared(req[h], pc[h])
      BY DEF TeamInit, Busy, Prepared
    <2>2. OnePending /\ UsedOnce
      BY DEF TeamInit, OnePending, UsedOnce, Pending, Unborn
    <2> QED
      BY <2>1, <2>2 DEF SettledInv
  <1>2. TeamInv /\ SettledInv /\ [TeamNext]_teamVars => SettledInv'
    BY SettledStep
  <1> QED
    BY <1>1, <1>2, TeamInvariant, PTL DEF TeamSpec

\* As long as requests about invites do not overlap, an address has one pending invite at
\* most, an invite has been used exactly once if it is accepted and never if not, and a
\* settled one stays as it is (team-service.ts, createTeamInvite, revokeTeamInvite,
\* acceptTeamInvite).
THEOREM InvitesSettleAlone == TeamSpec => InvitesSettle
  <1>1. ASSUME TeamInv, SettledInv, SettledInv', [TeamNext]_teamVars
        PROVE  [/\ ~crossed' => OneInviteUsedOnce'
                /\ ~crossed =>
                      \A i \in Invites : invite[i].status \in {"accepted", "revoked", "expired"} =>
                         invite'[i] = invite[i]]_teamVars
    <2> SUFFICES ASSUME TeamNext
                 PROVE  /\ ~crossed' => OneInviteUsedOnce'
                        /\ ~crossed =>
                              \A i \in Invites :
                                 invite[i].status \in {"accepted", "revoked", "expired"} =>
                                    invite'[i] = invite[i]
      BY <1>1
    <2>1. ~crossed' => OneInviteUsedOnce'
      BY <1>1 DEF SettledInv, OneInviteUsedOnce, OnePending, UsedOnce
    <2>2. ASSUME ~crossed, NEW i \in Invites,
                 invite[i].status \in {"accepted", "revoked", "expired"}
          PROVE  invite'[i] = invite[i]
      BY <1>1, <2>2, SettledKeeps
    <2> QED
      BY <2>1, <2>2
  <1> QED
    BY <1>1, TeamInvariant, InvitesPrepared, PTL DEF TeamSpec, InvitesSettle

\* The rows and requests keep their types, and the lock belongs to the request whose
\* transaction is open.
THEOREM TeamTypeCorrect == TeamSpec => []TeamTypeOK
  <1>1. TeamInv => TeamTypeOK
    <2> SUFFICES ASSUME TeamInv PROVE TeamTypeOK
      OBVIOUS
    <2>1. \A h \in Handlers :
            /\ pc[h] = "idle" <=> req[h] = NoRequest
            /\ lock = h <=> pc[h] \in {"recheck", "write"}
            /\ lock = h => req[h].op \in {"role", "remove"} /\ req[h].user \in Users
      BY DEF TeamInv, PositionOK, Fits, Locked
    <2>2. /\ pc \in [Handlers -> Stage] /\ req \in [Handlers -> Request]
          /\ lock \in Handlers \union {None} /\ DataOK
      BY DEF TeamInv, PositionOK
    <2> QED
      BY <2>1, <2>2 DEF DataOK, TeamTypeOK, Stage
  <1> QED
    BY <1>1, TeamInvariant, PTL
=============================================================================
