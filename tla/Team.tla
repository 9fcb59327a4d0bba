-------------------------------- MODULE Team --------------------------------
(***************************************************************************)
(* The members and the invites of one workspace: team-service.ts, and what *)
(* admin-service.ts does to a member's account.  A request is a sequence   *)
(* of statements; role changes and removals end in a transaction that      *)
(* holds the workspace's advisory lock.                                    *)
(***************************************************************************)
EXTENDS Naturals, FiniteSets

CONSTANTS
    Users,         \* accounts, and the addresses invites go to
    Elsewhere,     \* users with a membership in another workspace
    Owners,        \* system owners, whose account cannot be suspended
    Invites,       \* invite rows
    Handlers,      \* requests in flight
    None,
    MaxRequests,   \* bound: requests
    MaxFaults      \* bound: requests that crash or fail

ASSUME TeamAssumption ==
    /\ IsFiniteSet(Users) /\ Elsewhere \subseteq Users /\ Owners \subseteq Users
    /\ MaxRequests \in Nat /\ MaxFaults \in Nat
    /\ None \notin Users \union Invites \union Handlers

VARIABLES
    member,    \* member[u]: the role in u's membership row, or "none"
    joins,     \* joins[u]: memberships created for u: which of them member[u] is
    active,    \* active[u]: the account is not suspended
    invite,    \* invite[i]: its row
    late,      \* invites whose expiresAt has passed
    lock,      \* the request that holds the workspace's advisory lock
    pc, req, requests, faults,
    (* History *)
    alone,     \* alone[h]: no other request has changed a member since h began
    crossed,   \* two requests about invites have overlapped
    used       \* used[i]: times i was accepted

teamVars == <<member, joins, active, invite, late, lock, pc, req, requests, faults,
              alone, crossed, used>>
history == <<alone, crossed, used>>
inviteVars == <<invite, late, crossed, used>>
memberVars == <<member, joins, active, lock, alone>>

-----------------------------------------------------------------------------
Role == {"security_admin", "member"}

InviteRow == [status : {"unborn", "pending", "accepted", "revoked", "expired"},
              to : Users \union {None}, role : Role]

Unborn == [status |-> "unborn", to |-> None, role |-> "member"]

Request == [op : {"role", "remove", "invite", "revoke", "accept"},
            user : Users \union {None}, invite : Invites \union {None},
            role : Role, was : Role \union {"none"}, joins : Nat]

NoRequest == [op |-> "revoke", user |-> None, invite |-> None, role |-> "member",
              was |-> "none", joins |-> 0]

TeamTypeOK ==
    /\ member \in [Users -> Role \union {"none"}] /\ joins \in [Users -> Nat]
    /\ active \in [Users -> BOOLEAN]
    /\ invite \in [Invites -> InviteRow] /\ late \subseteq Invites
    /\ \A i \in Invites : invite[i].status # "unborn" => invite[i].to \in Users
    /\ lock \in Handlers \union {None}
    /\ pc \in [Handlers -> {"idle", "count", "lock", "recheck", "write", "expire",
                            "replace", "create", "find", "revoke", "join", "accept"}]
    /\ req \in [Handlers -> Request]
    /\ requests \in 0..MaxRequests /\ faults \in 0..MaxFaults
    /\ alone \in [Handlers -> BOOLEAN] /\ crossed \in BOOLEAN
    /\ used \in [Invites -> Nat]
    /\ \A h \in Handlers :
        /\ pc[h] = "idle" <=> req[h] = NoRequest
        /\ lock = h <=> pc[h] \in {"recheck", "write"}
        /\ lock = h => req[h].op \in {"role", "remove"} /\ req[h].user \in Users

\* Any workspace with an administrator; one invite may already be pending.
TeamInit ==
    /\ member \in [Users -> Role \union {"none"}]
    /\ \E u \in Users : member[u] = "security_admin"
    /\ joins = [u \in Users |-> IF member[u] = "none" THEN 0 ELSE 1]
    /\ active \in [Users -> BOOLEAN]
    /\ \A u \in Owners : active[u]
    /\ \A u \in Users \ Elsewhere : member[u] # "none" \/ active[u]
    /\ \/ invite = [i \in Invites |-> Unborn]
       \/ \E i \in Invites, u \in Users, role \in Role :
             /\ member[u] = "none"
             /\ invite = [j \in Invites |->
                            IF j = i THEN [status |-> "pending", to |-> u, role |-> role]
                            ELSE Unborn]
    /\ late = {} /\ lock = None
    /\ pc = [h \in Handlers |-> "idle"] /\ req = [h \in Handlers |-> NoRequest]
    /\ requests = 0 /\ faults = 0
    /\ alone = [h \in Handlers |-> TRUE] /\ crossed = FALSE
    /\ used = [i \in Invites |-> 0]

-----------------------------------------------------------------------------
At(h, stage) == pc[h] = stage

Continue(h, stage) == pc' = [pc EXCEPT ![h] = stage] /\ UNCHANGED <<req, requests, faults>>

End(h) ==
    /\ pc' = [pc EXCEPT ![h] = "idle"] /\ req' = [req EXCEPT ![h] = NoRequest]
    /\ UNCHANGED <<requests, faults>>

Go(h, stage) == IF stage = "idle" THEN End(h) ELSE Continue(h, stage)

Ask(h, r, stage) ==
    /\ At(h, "idle") /\ requests < MaxRequests
    /\ requests' = requests + 1
    /\ pc' = [pc EXCEPT ![h] = stage] /\ req' = [req EXCEPT ![h] = r]
    /\ UNCHANGED faults

\* A member is changed by request h: the others are not alone any more.
ChangedBy(h) == alone' = [g \in Handlers |-> g = h /\ alone[g]]

Admins == {u \in Users : member[u] = "security_admin"}

\* countSecurityAdmins leaves out suspended accounts.
ActiveAdmins == {u \in Admins : active[u]}

-----------------------------------------------------------------------------
(* Roles and removals *)

\* updateTeamMemberRole and removeTeamMember: the membership is read.
ReadMember(h, op, u, role) ==
    /\ member[u] # "none"
    /\ op = "role" => member[u] # role
    /\ Ask(h, [NoRequest EXCEPT !.op = op, !.user = u, !.role = role,
                                !.was = member[u], !.joins = joins[u]], "count")
    /\ alone' = [alone EXCEPT ![h] = TRUE]
    /\ UNCHANGED <<member, joins, active, lock, inviteVars>>

\* The change takes an administrator away, as far as the role "was" tells.
TakesAdmin(r, was) ==
    was = "security_admin" /\ (r.op = "remove" \/ r.role # "security_admin")

\* Mutation: suspended administrators count as well.
MutCountAdmins(h) ==
    /\ At(h, "count")
    /\ Go(h, IF TakesAdmin(req[h], req[h].was) /\ Cardinality(Admins) <= 1
             THEN "idle" ELSE "lock")
    /\ UNCHANGED <<memberVars, inviteVars>>

CountAdmins(h) ==
    /\ At(h, "count")
    /\ Go(h, IF TakesAdmin(req[h], req[h].was) /\ Cardinality(ActiveAdmins) <= 1
             THEN "idle" ELSE "lock")
    /\ UNCHANGED <<memberVars, inviteVars>>

\* Mutation: the lock is not waited for.
MutTakeLock(h) ==
    /\ At(h, "lock")
    /\ lock' = h
    /\ Continue(h, "recheck")
    /\ UNCHANGED <<member, joins, active, alone, inviteVars>>

\* pg_advisory_xact_lock, held until the transaction ends.
TakeLock(h) ==
    /\ At(h, "lock") /\ lock = None
    /\ lock' = h
    /\ Continue(h, "recheck")
    /\ UNCHANGED <<member, joins, active, alone, inviteVars>>

\* The membership that was read is still there, and administrators are counted again,
\* now by role only.
Recheck(h) ==
    LET r == req[h]
        current == IF joins[r.user] = r.joins THEN member[r.user] ELSE "none"
        allowed == current # "none" /\ ~(TakesAdmin(r, current) /\ Cardinality(Admins) <= 1)
    IN /\ At(h, "recheck")
       /\ Go(h, IF allowed THEN "write" ELSE "idle")
       /\ lock' = IF allowed THEN lock ELSE None
       /\ UNCHANGED <<member, joins, active, alone, inviteVars>>

\* The write and the commit.  A removal suspends a user with no membership left, and
\* revokes the user's sessions of the workspace (Account's LeaveWorkspace).
WriteMember(h) ==
    LET r == req[h]
    IN /\ At(h, "write")
       /\ member' = [member EXCEPT ![r.user] = IF r.op = "remove" THEN "none" ELSE r.role]
       /\ active' = [active EXCEPT ![r.user] =
                        @ /\ (r.op = "remove" => r.user \in Elsewhere)]
       /\ lock' = None
       /\ ChangedBy(h)
       /\ End(h)
       /\ UNCHANGED <<joins, inviteVars>>

\* updateAdminUserStatus, for a member's account: no administrator is counted.
SetAccountStatus(u) ==
    /\ requests < MaxRequests /\ requests' = requests + 1
    /\ u \in Owners => ~active[u]
    /\ active' = [active EXCEPT ![u] = ~@]
    /\ alone' = [h \in Handlers |-> FALSE]
    /\ UNCHANGED <<member, joins, lock, inviteVars, pc, req, faults>>

-----------------------------------------------------------------------------
(* Invites *)

AboutInvites(op) == op \in {"invite", "revoke", "accept"}

AskInvite(h, r, stage) ==
    /\ Ask(h, r, stage)
    /\ crossed' = (crossed \/ \E g \in Handlers : ~At(g, "idle") /\ AboutInvites(req[g].op))
    /\ UNCHANGED <<invite, late, used, memberVars>>

\* createTeamInvite: the address is not a member's.
CreateInviteStart(h, u, role) ==
    /\ member[u] = "none"
    /\ AskInvite(h, [NoRequest EXCEPT !.op = "invite", !.user = u, !.role = role], "expire")

RevokeStart(h, i) ==
    /\ invite[i].status # "unborn"
    /\ AskInvite(h, [NoRequest EXCEPT !.op = "revoke", !.invite = i], "expire")

\* The invited user is signed in; an invite for another address is refused.
AcceptStart(h, i) ==
    /\ invite[i].status # "unborn" /\ active[invite[i].to]
    /\ AskInvite(h, [NoRequest EXCEPT !.op = "accept", !.invite = i], "expire")

SetInvites(S, status) ==
    invite' = [i \in Invites |-> IF i \in S THEN [invite[i] EXCEPT !.status = status]
                                 ELSE invite[i]]

Pending == {i \in Invites : invite[i].status = "pending"}

\* expireStaleInvites
ExpireStale(h) ==
    /\ At(h, "expire")
    /\ SetInvites(Pending \intersect late, "expired")
    /\ Continue(h, IF req[h].op = "invite" THEN "replace" ELSE "find")
    /\ UNCHANGED <<late, crossed, used, memberVars>>

\* Mutation: an invite to the address that is still pending is not revoked.
MutReplaceInvite(h) ==
    /\ At(h, "replace")
    /\ Continue(h, "create")
    /\ UNCHANGED <<inviteVars, memberVars>>

\* Pending invites to the address are revoked, and then one is created.
ReplaceInvite(h) ==
    /\ At(h, "replace")
    /\ SetInvites({i \in Pending : invite[i].to = req[h].user}, "revoked")
    /\ Continue(h, "create")
    /\ UNCHANGED <<late, crossed, used, memberVars>>

CreateInvite(h) ==
    /\ At(h, "create")
    /\ \E i \in Invites :
        /\ invite[i] = Unborn
        /\ invite' = [invite EXCEPT ![i] =
              [status |-> "pending", to |-> req[h].user, role |-> req[h].role]]
    /\ End(h)
    /\ UNCHANGED <<late, crossed, used, memberVars>>

\* The invite is looked up: both acts want it pending, and accepting wants it in time.
FindInvite(h) ==
    LET i == req[h].invite
        found == i \in Pending /\ (req[h].op = "accept" => i \notin late)
    IN /\ At(h, "find")
       /\ Go(h, IF ~found THEN "idle" ELSE IF req[h].op = "accept" THEN "join" ELSE "revoke")
       /\ UNCHANGED <<inviteVars, memberVars>>

\* The update names the invite by its id only.
RevokeInvite(h) ==
    /\ At(h, "revoke")
    /\ SetInvites({req[h].invite}, "revoked")
    /\ End(h)
    /\ UNCHANGED <<late, crossed, used, memberVars>>

\* acceptTeamInvite's transaction looks for a membership first.
FindMembership(h) ==
    /\ At(h, "join")
    /\ pc' = [pc EXCEPT ![h] = "accept"]
    /\ req' = [req EXCEPT ![h].was = member[invite[req[h].invite].to]]
    /\ UNCHANGED <<requests, faults, inviteVars, memberVars>>

\* It then creates one if there was none (memberships are unique: it fails if one has
\* been created since), and accepts the invite whatever has become of it.
AcceptInvite(h) ==
    LET i == req[h].invite
        u == invite[i].to
        creates == req[h].was = "none"
    IN /\ At(h, "accept")
       /\ IF creates /\ member[u] # "none"
          THEN UNCHANGED <<member, joins, alone, invite, used>>
          ELSE /\ SetInvites({i}, "accepted")
               /\ used' = [used EXCEPT ![i] = @ + 1]
               /\ IF creates
                  THEN /\ member' = [member EXCEPT ![u] = invite[i].role]
                       /\ joins' = [joins EXCEPT ![u] = @ + 1]
                       /\ ChangedBy(h)
                  ELSE UNCHANGED <<member, joins, alone>>
       /\ End(h)
       /\ UNCHANGED <<late, crossed, active, lock>>

InviteLate(i) ==
    /\ i \in Pending \ late
    /\ late' = late \union {i}
    /\ UNCHANGED <<invite, crossed, used, memberVars, pc, req, requests, faults>>

-----------------------------------------------------------------------------
\* A statement fails or the server stops; a transaction is rolled back, its lock freed.
Fault(h) ==
    /\ ~At(h, "idle") /\ faults < MaxFaults
    /\ faults' = faults + 1
    /\ pc' = [pc EXCEPT ![h] = "idle"] /\ req' = [req EXCEPT ![h] = NoRequest]
    /\ lock' = IF lock = h THEN None ELSE lock
    /\ UNCHANGED <<member, joins, active, alone, inviteVars, requests>>

Arrives(h) ==
    \/ \E u \in Users, role \in Role :
        ReadMember(h, "role", u, role) \/ CreateInviteStart(h, u, role)
    \/ \E u \in Users : ReadMember(h, "remove", u, "member")
    \/ \E i \in Invites : RevokeStart(h, i) \/ AcceptStart(h, i)

GoesOn(h) ==
    \/ CountAdmins(h) \/ TakeLock(h) \/ Recheck(h) \/ WriteMember(h)
    \/ ExpireStale(h) \/ ReplaceInvite(h) \/ CreateInvite(h) \/ FindInvite(h)
    \/ RevokeInvite(h) \/ FindMembership(h) \/ AcceptInvite(h)

TeamNext ==
    \/ \E h \in Handlers : Arrives(h) \/ GoesOn(h) \/ Fault(h)
    \/ \E u \in Users : SetAccountStatus(u)
    \/ \E i \in Invites : InviteLate(i)

TeamSpec == TeamInit /\ [][TeamNext]_teamVars

-----------------------------------------------------------------------------
(* Properties *)

\* However role changes and removals overlap, the workspace keeps a member with the
\* administrator's role (team-service.ts:369, 456).
SomeAdminRemains == Admins # {}

\* A role change or removal during which nobody else changed a member leaves an
\* administrator whose account is not suspended, if there was one: the count before
\* the transaction alone ensures it.
ActiveAdminRemains ==
    [][\A h \in Handlers :
         (At(h, "write") /\ faults' = faults /\ pc'[h] = "idle" /\ alone[h] /\ ActiveAdmins # {})
            => ActiveAdmins' # {}]_teamVars

OneInviteUsedOnce ==
    /\ \A i, j \in Pending : invite[i].to = invite[j].to => i = j
    /\ \A i \in Invites : used[i] = (IF invite[i].status = "accepted" THEN 1 ELSE 0)

\* As long as requests about invites do not overlap, a step leaves an address one pending
\* invite at most and an invite used exactly once if it is accepted and never if not; and
\* one that was accepted, revoked or expired stays so, with its address and role, whoever
\* asks for it again.
InvitesSettle ==
    [][/\ ~crossed' => OneInviteUsedOnce'
       /\ ~crossed =>
             \A i \in Invites : invite[i].status \in {"accepted", "revoked", "expired"} =>
                invite'[i] = invite[i]]_teamVars
=============================================================================
