------------------------- MODULE ConsoleStoreProofs -------------------------
(***************************************************************************)
(* Safety of the browser's store: its indicators end, in API mode it shows *)
(* the server's data, of the user who is signed in, and with the writes    *)
(* that were called saved; for any users, collections and operations.      *)
(*                                                                         *)
(* Almost every action moves one operation: MovesSets says what becomes of *)
(* the sets of operations, and the Keeps lemmas what becomes of the        *)
(* invariants about operations alone.  The others need the actions.        *)
(***************************************************************************)
EXTENDS ConsoleStore, TLAPS

\* Operations that will change the session, and those that wait for the answer to a write.
Changing == {o \in Running : ChangesSession(op[o].kind) /\ op[o].stage # "reading"}
Pending  == {o \in Running : op[o].kind \in {"write", "onboard"} /\ op[o].stage # "reading"}

\* An operation has what its stage needs; what it has read, and did not have to keep, is
\* the server's.
OpFits(r) ==
    /\ r.kind \notin {"write", "refresh"} => r.key = None
    /\ r.kind = "refresh" => r.stage = "reading"
    /\ r.kind = "write" => r.key \in Keys
    /\ r.kind \in {"write", "onboard"} => r.part \in Parts /\ r.write \in 1..writes
    /\ r.kind = "login" => r.user \in Users
    /\ r.kind # "boot" => r.stored = None
    /\ r.kind \in {"login", "verify"} /\ r.stage = "served" => r.answer # None
    /\ \A p \in Parts : r.got[p] # None => r.stage = "reading"
    /\ \A p \in Required : r.got[p] # None => r.got[p].from = "server" /\ r.got[p].of \in Users

OpsFit == \A o \in Running : OpFits(op[o])

\* While the session changes nothing hydrates, and it changes once at a time.
ChangesAlone ==
    ~switched => \A o \in Changing : \A q \in Changing \union Reading : q = o

\* What the tab knows of the session fits what it is doing.
SessionFits ==
    /\ ~auth.hydrated => auth = NoAuth
    /\ ~switched =>
         /\ Reading # {} \/ isApiMode => CanHydrate(auth)
         /\ \A o \in Changing : op[o].kind # "logout" => ~CanHydrate(auth)
         /\ \A o \in Changing : op[o].kind \in {"login", "verify"} => auth.hydrated

ReadsAlone == ~tangled => \A o, q \in Reading : o = q

\* A write is one operation's, and not called saved before its answer.
WritesFit ==
    /\ shown \subseteq 1..writes
    /\ \A o \in Pending : op[o].write \notin shown
    /\ \A o, q \in Pending : op[o].write = op[q].write => o = q

\* What was read contains what was saved until now.
SavedRead ==
    ~tangled /\ ~switched =>
      /\ \A o \in Reading, p \in Required :
            op[o].got[p] # None =>
               shown \intersect db[op[o].got[p].of][p] \subseteq op[o].got[p].has
      /\ isApiMode /\ ~apiError /\ Reading = {} =>
            \A p \in Required : env[p].from = "server" /\ env[p].of # None =>
               shown \intersect db[env[p].of][p] \subseteq env[p].has

Mine(a) == a = None \/ a.user \in {None, cookie.user}

\* The tab and the server mean the same user.
SameUser ==
    ~allow /\ ~switched =>
      /\ cookie # None =>
           /\ Mine(auth) /\ Mine(stored)
           /\ \A o \in Changing : Mine(op[o].stored)
           /\ \A o \in Changing : op[o].stage = "served" /\ op[o].kind # "logout" =>
                 op[o].answer # None /\ op[o].answer.user = cookie.user
      /\ \A o \in Changing : op[o].kind = "login" =>
            auth.user = None /\ (stored # None => stored.user = None)
      /\ \A o \in Reading, p \in Parts :
            op[o].got[p] # None => op[o].got[p].of \in {None, auth.user}
      /\ \A p \in Parts : env[p].of # None => CanHydrate(auth) /\ env[p].of = auth.user

Basics == OpsFit /\ ChangesAlone /\ ReadsAlone /\ WritesFit

StoreInv ==
    /\ StoreTypeOK /\ Basics /\ SessionFits /\ SavedRead /\ SameUser
    /\ IndicatorsEnd /\ ApiModeShowsServerData

-----------------------------------------------------------------------------
(* Operations that move *)

LEMMA NoneFacts ==
    /\ None \notin Users /\ None \notin Parts /\ None \notin Keys
    /\ None \notin Op /\ None \notin Session /\ None \notin Auth /\ None \notin Part
    /\ MaxWrites \in Nat /\ MaxActs \in Nat
  BY StoreAssumption, NoneAssumption

LEMMA PartsFacts ==
    /\ Required \subseteq Parts /\ Optional \subseteq Parts /\ Foundation \subseteq Parts
    /\ \A p \in Required : p \notin Optional /\ p \notin Foundation
  BY StoreAssumption DEF Required

LEMMA IdleTyped ==
    /\ Idle \in Op /\ NoAuth \in Auth /\ SignedOut \in Auth
    /\ \A from \in {"mock", "server", "local", "unguarded"} : Sample(from) \in [Parts -> Part]
  <1>1. Idle \in Op
    BY DEF Idle, Op, Kind
  <1>2. NoAuth \in Auth
    BY DEF NoAuth, Auth
  <1>3. SignedOut \in Auth
    BY DEF NoAuth, SignedOut, Auth
  <1>4. ASSUME NEW from \in {"mock", "server", "local", "unguarded"}
        PROVE  Sample(from) \in [Parts -> Part]
    BY DEF Sample, Part
  <1> QED  BY <1>1, <1>2, <1>3, <1>4

Moves(o, x) == o \in Ops /\ x \in Op \union {None} /\ op' = [op EXCEPT ![o] = x]

LEMMA MovesSets ==
    ASSUME StoreTypeOK, NEW o, NEW x, Moves(o, x)
    PROVE  /\ op' \in [Ops -> Op \union {None}]
           /\ op'[o] = x
           /\ \A q \in Ops : q # o => op'[q] = op[q]
           /\ \A q : q # o => (q \in Running' <=> q \in Running)
           /\ \A q : q # o => (q \in Reading' <=> q \in Reading)
           /\ \A q : q # o => (q \in Changing' <=> q \in Changing)
           /\ \A q : q # o => (q \in Pending' <=> q \in Pending)
           /\ o \in Running' <=> x # None
           /\ o \in Reading' <=> x # None /\ x.stage = "reading"
           /\ o \in Changing' <=> x # None /\ ChangesSession(x.kind) /\ x.stage # "reading"
           /\ o \in Pending' <=> x # None /\ x.kind \in {"write", "onboard"} /\ x.stage # "reading"
  <1>1. /\ op' \in [Ops -> Op \union {None}]
        /\ op'[o] = x
        /\ \A q \in Ops : q # o => op'[q] = op[q]
    BY DEF StoreTypeOK, Moves
  <1> QED  BY <1>1 DEF Moves, Running, Reading, Changing, Pending

\* The operation of each action, and what it becomes.
LEMMA RunningTyped ==
    ASSUME StoreTypeOK, NEW o \in Running
    PROVE  o \in Ops /\ op[o] \in Op /\ op[o] # None
  BY DEF StoreTypeOK, Running

LEMMA StageMoves ==
    ASSUME StoreTypeOK, NEW o \in Running, NEW s \in {"asked", "served", "reading"},
           op' = [op EXCEPT ![o].stage = s]
    PROVE  Moves(o, [op[o] EXCEPT !.stage = s])
  <1>1. o \in Ops /\ op[o] \in Op
    BY RunningTyped
  <1>2. [op[o] EXCEPT !.stage = s] \in Op
    BY <1>1 DEF Op
  <1> QED  BY <1>1, <1>2 DEF Moves

LEMMA EndMoves ==
    ASSUME StoreTypeOK, NEW o \in Running, Ends(o)
    PROVE  Moves(o, None)
  BY RunningTyped DEF Moves, Ends

\* A read that is served, or that the hydration does without.
Gets(o, p, g) ==
    /\ At(o, "reading") /\ g \in Part
    /\ \/ cookie \in Session /\ g = [from |-> "server", of |-> cookie.user,
                                     has |-> db[cookie.user][p]]
       \/ p \notin Required /\ g = env[p]
    /\ op' = [op EXCEPT ![o].got[p] = g]
    /\ UNCHANGED <<serverVars, allow, env, authVars, metaVars, acts, writes, history>>

LEMMA PartGets ==
    ASSUME StoreTypeOK, NEW o \in Ops, NEW p \in Parts, ReadPart(o, p) \/ KeepPart(o, p)
    PROVE  \E g : Gets(o, p, g)
  <1>1. CASE ReadPart(o, p)
    <2> DEFINE g == [from |-> "server", of |-> cookie.user, has |-> db[cookie.user][p]]
    <2>1. cookie \in Session
      BY <1>1 DEF ReadPart, StoreTypeOK
    <2>2. cookie.user \in Users
      BY <2>1 DEF Session
    <2>3. g \in Part
      BY <2>2 DEF Part, StoreTypeOK
    <2>4. Gets(o, p, g)
      BY <1>1, <2>1, <2>3 DEF ReadPart, Gets
    <2> QED  BY <2>4
  <1>2. CASE KeepPart(o, p)
    <2>1. env[p] \in Part /\ p \notin Required
      BY <1>2, PartsFacts DEF KeepPart, StoreTypeOK
    <2>2. Gets(o, p, env[p])
      BY <1>2, <2>1 DEF KeepPart, Gets
    <2> QED  BY <2>2
  <1> QED  BY <1>1, <1>2

LEMMA GetsMoves ==
    ASSUME StoreTypeOK, NEW o \in Ops, NEW p \in Parts, NEW g, Gets(o, p, g)
    PROVE  /\ Moves(o, [op[o] EXCEPT !.got[p] = g])
           /\ [op[o] EXCEPT !.got[p] = g] \in Op
           /\ op[o] \in Op
  <1>1. o \in Ops /\ op[o] \in Op
    BY RunningTyped DEF Gets, At
  <1>2. [op[o].got EXCEPT ![p] = g] \in [Parts -> Part \union {None}]
    BY <1>1 DEF Op, Gets
  <1>3. [op[o] EXCEPT !.got[p] = g] \in Op
    BY <1>1, <1>2 DEF Op
  <1>4. op' = [op EXCEPT ![o].got[p] = g]
    BY DEF Gets
  <1> QED  BY <1>1, <1>3, <1>4 DEF Moves

LEMMA RefreshMoves ==
    ASSUME StoreTypeOK, NEW o \in Ops, NEW key \in Keys \union {None}, Refresh(o, key)
    PROVE  Moves(o, [Idle EXCEPT !.kind = "refresh", !.key = key, !.stage = "reading"])
  <1>1. [Idle EXCEPT !.kind = "refresh", !.key = key, !.stage = "reading"] \in Op
    BY DEF Idle, Op, Kind
  <1> QED  BY <1>1 DEF Moves, Refresh

LEMMA WriteMoves ==
    ASSUME StoreTypeOK, NEW o \in Ops, NEW key \in Keys, NEW p \in Parts,
           WriteStart(o, key, p)
    PROVE  Moves(o, [Idle EXCEPT !.kind = "write", !.key = key, !.part = p,
                                 !.write = writes + 1])
  <1>1. writes + 1 \in Write
    BY NoneFacts DEF StoreTypeOK, WriteStart, Write
  <1>2. [Idle EXCEPT !.kind = "write", !.key = key, !.part = p, !.write = writes + 1] \in Op
    BY <1>1 DEF Idle, Op, Kind
  <1> QED  BY <1>2 DEF Moves, WriteStart, Ask

LEMMA OnboardMoves ==
    ASSUME StoreTypeOK, NEW o \in Ops, NEW p \in Parts, OnboardStart(o, p)
    PROVE  Moves(o, [Idle EXCEPT !.kind = "onboard", !.part = p, !.write = writes + 1])
  <1>1. writes + 1 \in Write
    BY NoneFacts DEF StoreTypeOK, OnboardStart, Write
  <1>2. [Idle EXCEPT !.kind = "onboard", !.part = p, !.write = writes + 1] \in Op
    BY <1>1 DEF Idle, Op, Kind
  <1> QED  BY <1>2 DEF Moves, OnboardStart, Ask

\* What the session operations begin as.
AsksSession(r) ==
    \/ r = [Idle EXCEPT !.kind = "boot", !.stored = stored]
    \/ \E u \in Users : r = [Idle EXCEPT !.kind = "login", !.user = u]
    \/ r = [Idle EXCEPT !.kind = "verify"]
    \/ r = [Idle EXCEPT !.kind = "logout"]

LEMMA SessionMoves ==
    ASSUME StoreTypeOK, NEW o \in Ops, NEW r, AsksSession(r), Ask(o, r)
    PROVE  /\ Moves(o, r) /\ r \in Op /\ ChangesSession(r.kind) /\ r.stage = "asked"
           /\ r.kind \notin {"write", "onboard", "refresh"} /\ r.key = None
           /\ r.kind = "login" => r.user \in Users
           /\ r.kind # "boot" => r.stored = None
           /\ \A p \in Parts : r.got[p] = None
  <1>1. stored \in Auth \union {None}
    BY DEF StoreTypeOK
  <1>2. /\ r \in Op /\ ChangesSession(r.kind) /\ r.stage = "asked"
        /\ r.kind \notin {"write", "onboard", "refresh"} /\ r.key = None
        /\ r.kind = "login" => r.user \in Users
        /\ r.kind # "boot" => r.stored = None
        /\ \A p \in Parts : r.got[p] = None
    <2>1. CASE r = [Idle EXCEPT !.kind = "boot", !.stored = stored]
      BY <1>1, <2>1 DEF Idle, Op, Kind, ChangesSession
    <2>2. CASE \E u \in Users : r = [Idle EXCEPT !.kind = "login", !.user = u]
      <3>1. PICK u \in Users : r = [Idle EXCEPT !.kind = "login", !.user = u]
        BY <2>2
      <3>2. r \in Op
        BY <3>1 DEF Idle, Op, Kind
      <3> QED  BY <3>1, <3>2 DEF Idle, ChangesSession
    <2>3. CASE r = [Idle EXCEPT !.kind = "verify"]
      BY <2>3 DEF Idle, Op, Kind, ChangesSession
    <2>4. CASE r = [Idle EXCEPT !.kind = "logout"]
      BY <2>4 DEF Idle, Op, Kind, ChangesSession
    <2> QED  BY <2>1, <2>2, <2>3, <2>4 DEF AsksSession
  <1> QED  BY <1>2 DEF Moves, Ask

LEMMA ServeMoves ==
    ASSUME StoreTypeOK, NEW o \in Ops, ServeSession(o),
           op[o].kind = "login" => op[o].user \in Users
    PROVE  /\ cookie' \in Session \union {None}
           /\ cookie' = Served(op[o].kind, op[o].user)
           /\ Moves(o, [op[o] EXCEPT !.stage = "served", !.answer = cookie'])
  <1>1. o \in Running /\ op[o] \in Op /\ op[o].kind \in {"boot", "login", "verify", "logout"}
    BY RunningTyped DEF ServeSession, At, ChangesSession
  <1>2. cookie' = Served(op[o].kind, op[o].user)
    BY DEF ServeSession
  <1>3. cookie' \in Session \union {None}
    <2>1. CASE op[o].kind = "login"
      <3>1. op[o].user \in Users \union {None}
        BY <1>1 DEF Op
      <3> QED  BY <1>2, <2>1, <3>1 DEF Served, Session
    <2>2. CASE op[o].kind = "verify"
      BY <1>2, <2>2 DEF Served, Session, ServeSession, StoreTypeOK
    <2>3. CASE op[o].kind \in {"logout", "boot"}
      BY <1>2, <2>3 DEF Served, StoreTypeOK
    <2> QED  BY <1>1, <2>1, <2>2, <2>3
  <1>4. [op[o] EXCEPT !.stage = "served", !.answer = cookie'] \in Op
    BY <1>1, <1>3 DEF Op
  <1>5. op' = [op EXCEPT ![o] = [@ EXCEPT !.stage = "served", !.answer = cookie']]
    BY <1>2 DEF ServeSession
  <1> QED  BY <1>1, <1>2, <1>3, <1>4, <1>5 DEF Moves

-----------------------------------------------------------------------------
(* Types *)

LEMMA AfterwardsTyped ==
    ASSUME StoreTypeOK, OpsFit, NEW o \in Running, NEW synced \in BOOLEAN,
           Afterwards(o, synced),
           synced => \A p \in Parts \ Foundation : op[o].got[p] # None
    PROVE  env' \in [Parts -> Part] /\ demoMode' \in BOOLEAN
  <1>1. op[o] \in Op
    BY RunningTyped
  <1>2. CASE synced
    <2>1. op[o].got \in [Parts -> Part \union {None}]
      BY <1>1 DEF Op
    <2>2. Sample("mock") \in [Parts -> Part]
      BY IdleTyped
    <2>3. \A p \in Parts : Bundle(op[o].got)[p] \in Part
      BY <1>2, <2>1, <2>2 DEF Bundle
    <2>4. Bundle(op[o].got) \in [Parts -> Part]
      BY <2>3 DEF Bundle
    <2> QED  BY <1>2, <2>4 DEF Afterwards, StoreTypeOK
  <1>3. CASE ~synced /\ op[o].kind = "write" /\ Patches(op[o].key)
    <2> DEFINE p == op[o].part
    <2>1. p \in Parts /\ op[o].write \in Write
      BY <1>3, NoneFacts DEF OpsFit, OpFits, Write, StoreTypeOK
    <2>2. env[p] \in Part
      BY <2>1 DEF StoreTypeOK
    <2>3. [env[p] EXCEPT !.has = @ \union {op[o].write}] \in Part
      BY <2>1, <2>2 DEF Part
    <2>4. env' = [env EXCEPT ![p].has = @ \union {op[o].write}]
      BY <1>3 DEF Afterwards
    <2> QED  BY <2>1, <2>3, <2>4 DEF Afterwards, StoreTypeOK
  <1>4. CASE ~synced /\ ~(op[o].kind = "write" /\ Patches(op[o].key))
    BY <1>4 DEF Afterwards, StoreTypeOK
  <1> QED  BY <1>2, <1>3, <1>4

LEMMA BundleFacts ==
    ASSUME NEW got
    PROVE  /\ \A p \in Parts : p \notin Foundation => Bundle(got)[p] = got[p]
           /\ \A p \in Foundation : Bundle(got)[p].of = None
           /\ \A p \in Required : Bundle(got)[p] = got[p]
  BY PartsFacts DEF Bundle, Sample

\* A local change: the parts that it touches are marked by it, and nobody's if not their
\* former owner's.  In API mode only those that do not ask for the demo are possible.
Edited ==
    /\ env' \in [Parts -> Part]
    /\ \A p \in Parts : \/ env'[p] = env[p]
                        \/ /\ env'[p].from \in {"local", "unguarded"}
                           /\ env'[p].of \in {None, env[p].of}
                           /\ isApiMode => env'[p].from = "unguarded"

LEMMA ChangedIsEdited ==
    ASSUME StoreTypeOK, NEW S, NEW from \in {"local", "unguarded"}, env' = Changed(S, from),
           isApiMode => from = "unguarded"
    PROVE  Edited
  <1>1. \A p \in Parts : env[p] \in Part
    BY DEF StoreTypeOK
  <1>2. \A p \in Parts : [from |-> from, of |-> env[p].of, has |-> {}] \in Part
    BY <1>1 DEF Part
  <1>3. \A p \in Parts : env'[p] = env[p] \/ env'[p] = [from |-> from, of |-> env[p].of, has |-> {}]
    BY DEF Changed
  <1>4. env' \in [Parts -> Part]
    BY <1>1, <1>2 DEF Changed
  <1> QED  BY <1>3, <1>4 DEF Edited

LEMMA LocalIsEdited ==
    ASSUME StoreTypeOK,
           (\E p \in Parts : LocalChange(p)) \/ CreateEvent \/ (\E o \in Running : WriteFails(o))
    PROVE  Edited
  <1>1. ASSUME NEW p \in Parts, LocalChange(p) PROVE Edited
    <2>1. env' = Changed({p}, "local") /\ ~isApiMode
      BY <1>1 DEF LocalChange, DemoFallback
    <2> QED  BY <2>1, ChangedIsEdited
  <1>2. CASE CreateEvent
    <2>1. env' = Changed({}, "unguarded")
      BY <1>2 DEF CreateEvent
    <2> QED  BY <2>1, ChangedIsEdited
  <1>3. ASSUME NEW o \in Running, WriteFails(o) PROVE Edited
    <2> DEFINE r == op[o]
    <2>1. CASE ~HasLocal(r)
      BY <1>3, <2>1 DEF WriteFails, Edited, StoreTypeOK
    <2>2. CASE HasLocal(r) /\ r.kind # "onboard"
      <3>1. env' = Changed({r.part}, "local") /\ ~isApiMode
        BY <1>3, <2>2 DEF WriteFails, LocalForm, HasLocal, DemoFallback
      <3> QED  BY <3>1, ChangedIsEdited
    <2>3. CASE HasLocal(r) /\ r.kind = "onboard"
      <3>1. env' = Sample("unguarded") \/ env' = Changed({}, "unguarded")
        BY <1>3, <2>3 DEF WriteFails, LocalForm
      <3>2. CASE env' = Sample("unguarded")
        <4>1. env' \in [Parts -> Part]
          BY <3>2, IdleTyped
        <4> QED  BY <3>2, <4>1 DEF Edited, Sample
      <3> QED  BY <3>1, <3>2, ChangedIsEdited
    <2> QED  BY <2>1, <2>2, <2>3
  <1> QED  BY <1>1, <1>2, <1>3

\* What HydrateOrEnd does, in the two cases.
LEMMA HydrateMoves ==
    ASSUME StoreTypeOK, OpsFit, NEW o \in Running, NEW a \in Auth, HydrateOrEnd(o, a)
    PROVE  /\ Moves(o, IF CanHydrate(a) THEN [op[o] EXCEPT !.stage = "reading"] ELSE None)
           /\ isHydrating' \in BOOLEAN /\ apiError' \in BOOLEAN
           /\ tangled' \in BOOLEAN /\ switched' \in BOOLEAN
           /\ loading' \subseteq Keys \union {"hydrate"}
  <1>1. CASE CanHydrate(a)
    BY <1>1, StageMoves DEF HydrateOrEnd, StoreTypeOK
  <1>2. CASE ~CanHydrate(a)
    BY <1>2, EndMoves DEF HydrateOrEnd, StoreTypeOK
  <1> QED  BY <1>1, <1>2

\* The session as restored, or as the server or the tab itself says it is.
LEMMA RestoredTyped ==
    ASSUME StoreTypeOK, NEW a \in Auth \union {None}
    PROVE  Restored(a) \in Auth
  BY DEF StoreTypeOK, Restored, Auth

LEMMA FromServerTyped ==
    ASSUME NEW kind, NEW session \in Session \union {None}
    PROVE  FromServer(kind, session) \in Auth
  <1>1. SignedOut \in Auth /\ [SignedOut EXCEPT !.asks = TRUE] \in Auth
    BY DEF NoAuth, SignedOut, Auth
  <1>2. CASE session # None
    <2>1. session.user \in Users /\ session.full \in BOOLEAN
      BY <1>2 DEF Session
    <2> QED  BY <1>1, <1>2, <2>1 DEF FromServer, Auth
  <1> QED  BY <1>1, <1>2 DEF FromServer

\* The auth after an attempt that failed.
AfterFailure(r) ==
    CASE r.kind = "boot" -> Restored(r.stored)
      [] r.kind = "login" ->
           IF allow THEN [hydrated |-> TRUE, user |-> r.user, full |-> FALSE, asks |-> TRUE]
           ELSE auth
      [] r.kind = "verify" ->
           IF auth.user # None THEN [auth EXCEPT !.hydrated = TRUE, !.full = TRUE,
                                                 !.asks = FALSE]
           ELSE auth

LEMMA FailureTyped ==
    ASSUME StoreTypeOK, OpsFit, NEW o \in Running, SessionFails(o)
    PROVE  /\ AfterFailure(op[o]) \in Auth /\ SetAuth(AfterFailure(op[o]))
           /\ op[o].kind \in {"boot", "login", "verify"} /\ op[o].stage # "reading"
  <1>1. op[o] \in Op /\ op[o].kind \in {"boot", "login", "verify"}
    BY RunningTyped DEF SessionFails
  <1>2. SetAuth(AfterFailure(op[o])) /\ op[o].stage # "reading"
    BY DEF SessionFails, AfterFailure
  <1>3. CASE op[o].kind = "boot"
    <2>1. op[o].stored \in Auth \union {None}
      BY <1>1 DEF Op
    <2> QED  BY <1>1, <1>2, <1>3, <2>1, RestoredTyped DEF AfterFailure
  <1>4. CASE op[o].kind = "login"
    <2>1. op[o].user \in Users
      BY <1>4 DEF OpsFit, OpFits
    <2>2. [hydrated |-> TRUE, user |-> op[o].user, full |-> FALSE, asks |-> TRUE] \in Auth
      BY <2>1 DEF Auth
    <2> QED  BY <1>1, <1>2, <1>4, <2>2 DEF AfterFailure, StoreTypeOK
  <1>5. CASE op[o].kind = "verify"
    <2>1. [auth EXCEPT !.hydrated = TRUE, !.full = TRUE, !.asks = FALSE] \in Auth
      BY DEF Auth, StoreTypeOK
    <2> QED  BY <1>1, <1>2, <1>5, <2>1 DEF AfterFailure, StoreTypeOK
  <1> QED  BY <1>1, <1>3, <1>4, <1>5

LEMMA ActTyped ==
    ASSUME StoreTypeOK, Act
    PROVE  acts' \in 0..MaxActs
  BY NoneFacts DEF Act, StoreTypeOK

LEMMA WriteTyped ==
    ASSUME StoreTypeOK, writes < MaxWrites, writes' = writes + 1
    PROVE  writes' \in 0..MaxWrites
  BY NoneFacts DEF StoreTypeOK

LEMMA ReadsTyped ==
    ASSUME StoreTypeOK, OpsFit, NEW o \in Ops,
           \/ \E p \in Parts : ReadPart(o, p) \/ KeepPart(o, p)
           \/ HydrationFails(o)
           \/ HydrationLands(o)
           \/ \E key \in Keys \union {None} : Refresh(o, key)
    PROVE  StoreTypeOK'
  <1>1. ASSUME NEW p \in Parts, ReadPart(o, p) \/ KeepPart(o, p) PROVE StoreTypeOK'
    <2>1. PICK g : Gets(o, p, g)
      BY <1>1, PartGets
    <2>2. op' \in [Ops -> Op \union {None}]
      BY <2>1, GetsMoves, MovesSets
    <2> QED  BY <2>1, <2>2 DEF Gets, StoreTypeOK, serverVars, authVars, metaVars, history
  <1>2. CASE HydrationFails(o)
    <2>1. o \in Running /\ Ends(o) /\ Afterwards(o, FALSE) /\ SameAuth
      BY <1>2 DEF HydrationFails, At
    <2>2. op' \in [Ops -> Op \union {None}]
      BY <2>1, EndMoves, MovesSets
    <2>3. env' \in [Parts -> Part] /\ demoMode' \in BOOLEAN
      BY <2>1, AfterwardsTyped
    <2> QED  BY <1>2, <2>1, <2>2, <2>3 DEF HydrationFails, SameAuth, StoreTypeOK, serverVars, history
  <1>3. CASE HydrationLands(o)
    <2>1. /\ o \in Running /\ Ends(o) /\ Afterwards(o, TRUE) /\ SameAuth
          /\ \A p \in Parts \ Foundation : op[o].got[p] # None
      BY <1>3 DEF HydrationLands, At
    <2>2. op' \in [Ops -> Op \union {None}]
      BY <2>1, EndMoves, MovesSets
    <2>3. env' \in [Parts -> Part] /\ demoMode' \in BOOLEAN
      BY <2>1, AfterwardsTyped
    <2> QED  BY <1>3, <2>1, <2>2, <2>3 DEF HydrationLands, SameAuth, StoreTypeOK, serverVars, history
  <1>4. ASSUME NEW key \in Keys \union {None}, Refresh(o, key) PROVE StoreTypeOK'
    <2>1. op' \in [Ops -> Op \union {None}]
      BY <1>4, RefreshMoves, MovesSets
    <2>2. acts' \in 0..MaxActs
      BY <1>4, ActTyped DEF Refresh
    <2>3. loading' \subseteq Keys \union {"hydrate"}
      BY <1>4 DEF Refresh, StoreTypeOK
    <2>4. tangled' \in BOOLEAN /\ switched' \in BOOLEAN
      BY <1>4 DEF Refresh
    <2> QED  BY <1>4, <2>1, <2>2, <2>3, <2>4 DEF Refresh, SameAuth, StoreTypeOK, serverVars
  <1> QED  BY <1>1, <1>2, <1>3, <1>4

LEMMA WritesTyped ==
    ASSUME StoreTypeOK, OpsFit, NEW o \in Ops,
           \/ \E key \in Keys, p \in Parts : WriteStart(o, key, p)
           \/ \E p \in Parts : OnboardStart(o, p)
           \/ ServeWrite(o) \/ WriteAnswered(o) \/ WriteFails(o)
    PROVE  StoreTypeOK'
  <1>1. ASSUME NEW key \in Keys, NEW p \in Parts, WriteStart(o, key, p) PROVE StoreTypeOK'
    <2>1. op' \in [Ops -> Op \union {None}]
      BY <1>1, WriteMoves, MovesSets
    <2>2. acts' \in 0..MaxActs /\ writes' \in 0..MaxWrites
      BY <1>1, ActTyped, WriteTyped DEF WriteStart, Ask
    <2>3. switched' \in BOOLEAN /\ loading' \subseteq Keys \union {"hydrate"}
      BY <1>1 DEF WriteStart, Ask, StoreTypeOK
    <2> QED  BY <1>1, <2>1, <2>2, <2>3 DEF WriteStart, Ask, SameAuth, StoreTypeOK, serverVars
  <1>2. ASSUME NEW p \in Parts, OnboardStart(o, p) PROVE StoreTypeOK'
    <2>1. op' \in [Ops -> Op \union {None}]
      BY <1>2, OnboardMoves, MovesSets
    <2>2. acts' \in 0..MaxActs /\ writes' \in 0..MaxWrites
      BY <1>2, ActTyped, WriteTyped DEF OnboardStart, Ask
    <2>3. switched' \in BOOLEAN
      BY <1>2 DEF OnboardStart, Ask
    <2> QED  BY <1>2, <2>1, <2>2, <2>3 DEF OnboardStart, Ask, StoreTypeOK, serverVars, authVars, metaVars
  <1>3. CASE ServeWrite(o)
    <2>1. o \in Running /\ op[o].part \in Parts /\ op[o].write \in Write /\ cookie.user \in Users
      BY <1>3, NoneFacts DEF ServeWrite, At, OpsFit, OpFits, Write, StoreTypeOK, Session
    <2>2. op' \in [Ops -> Op \union {None}]
      BY <1>3, <2>1, StageMoves, MovesSets DEF ServeWrite
    <2>3. db' \in [Users -> [Parts -> SUBSET Write]]
      <3>1. db[cookie.user] \in [Parts -> SUBSET Write]
        BY <2>1 DEF StoreTypeOK
      <3>2. db[cookie.user][op[o].part] \union {op[o].write} \in SUBSET Write
        BY <2>1, <3>1
      <3>3. [db[cookie.user] EXCEPT ![op[o].part] = @ \union {op[o].write}]
               \in [Parts -> SUBSET Write]
        BY <2>1, <3>1, <3>2
      <3> QED  BY <1>3, <2>1, <3>3 DEF ServeWrite, StoreTypeOK
    <2> QED  BY <1>3, <2>2, <2>3 DEF ServeWrite, StoreTypeOK, authVars, metaVars, history
  <1>4. CASE WriteAnswered(o)
    <2>1. o \in Running /\ auth \in Auth /\ HydrateOrEnd(o, auth) /\ op[o].write \in Write
      BY <1>4, NoneFacts DEF WriteAnswered, At, OpsFit, OpFits, Write, StoreTypeOK
    <2>2. /\ op' \in [Ops -> Op \union {None}]
          /\ isHydrating' \in BOOLEAN /\ apiError' \in BOOLEAN
          /\ tangled' \in BOOLEAN /\ switched' \in BOOLEAN
          /\ loading' \subseteq Keys \union {"hydrate"}
      BY <2>1, HydrateMoves, MovesSets
    <2>3. env' \in [Parts -> Part] /\ demoMode' \in BOOLEAN
      BY <1>4, <2>1, AfterwardsTyped DEF WriteAnswered, StoreTypeOK
    <2>4. shown' \subseteq Write
      BY <1>4, <2>1 DEF WriteAnswered, StoreTypeOK
    <2> QED  BY <1>4, <2>2, <2>3, <2>4 DEF WriteAnswered, SameAuth, StoreTypeOK, serverVars
  <1>5. CASE WriteFails(o)
    <2>1. o \in Running /\ Ends(o)
      BY <1>5 DEF WriteFails
    <2>2. op' \in [Ops -> Op \union {None}]
      BY <2>1, EndMoves, MovesSets
    <2>3. env' \in [Parts -> Part]
      BY <1>5, <2>1, LocalIsEdited DEF Edited
    <2>4. loading' \subseteq Keys \union {"hydrate"}
      BY <1>5 DEF WriteFails, StoreTypeOK
    <2> QED  BY <1>5, <2>2, <2>3, <2>4 DEF WriteFails, SameAuth, StoreTypeOK, serverVars
  <1> QED  BY <1>1, <1>2, <1>3, <1>4, <1>5

\* The start of a session operation.
LEMMA SessionStarts ==
    ASSUME NEW o \in Ops,
           \/ BootStart(o) /\ op' # op
           \/ VerifyStart(o) \/ LogoutStart(o) \/ \E u \in Users : LoginStart(o, u)
    PROVE  \E r : AsksSession(r) /\ Ask(o, r)
  BY DEF BootStart, VerifyStart, LogoutStart, LoginStart, AsksSession

LEMMA SessionsTyped ==
    ASSUME StoreTypeOK, OpsFit, NEW o \in Ops,
           \/ BootStart(o) \/ VerifyStart(o) \/ LogoutStart(o)
           \/ \E u \in Users : LoginStart(o, u)
           \/ ServeSession(o) \/ SessionAnswered(o) \/ SessionRefused(o) \/ SessionFails(o)
           \/ LogoutEnds(o)
    PROVE  StoreTypeOK'
  <1>1. ASSUME NEW r, AsksSession(r), Ask(o, r)
        PROVE  /\ op' \in [Ops -> Op \union {None}] /\ acts' \in 0..MaxActs
               /\ switched' \in BOOLEAN /\ UNCHANGED <<shown, tangled>>
    <2>1. op' \in [Ops -> Op \union {None}]
      BY <1>1, SessionMoves, MovesSets
    <2> QED  BY <1>1, <2>1, NoneFacts DEF Ask, Act, StoreTypeOK
  <1>2. CASE BootStart(o)
    <2>1. CASE Ask(o, [Idle EXCEPT !.kind = "boot", !.stored = stored]) /\ UNCHANGED authVars
      <3>1. AsksSession([Idle EXCEPT !.kind = "boot", !.stored = stored])
        BY DEF AsksSession
      <3> QED  BY <1>1, <1>2, <2>1, <3>1
               DEF BootStart, StoreTypeOK, serverVars, metaVars, authVars
    <2>2. CASE SetAuth(Restored(stored)) /\ Act /\ UNCHANGED <<op, history>>
      <3>1. Restored(stored) \in Auth
        BY RestoredTyped DEF StoreTypeOK
      <3>2. acts' \in 0..MaxActs
        BY <2>2, NoneFacts DEF Act, StoreTypeOK
      <3> QED  BY <1>2, <2>2, <3>1, <3>2
               DEF BootStart, SetAuth, StoreTypeOK, serverVars, metaVars, history
    <2> QED  BY <1>2, <2>1, <2>2 DEF BootStart
  <1>3. CASE VerifyStart(o)
    <2>1. AsksSession([Idle EXCEPT !.kind = "verify"])
      BY DEF AsksSession
    <2> QED  BY <1>1, <1>3, <2>1 DEF VerifyStart, StoreTypeOK, serverVars, metaVars, authVars
  <1>4. CASE LogoutStart(o)
    <2>1. AsksSession([Idle EXCEPT !.kind = "logout"])
      BY DEF AsksSession
    <2> QED  BY <1>1, <1>4, <2>1 DEF LogoutStart, StoreTypeOK, serverVars, metaVars, authVars
  <1>5. ASSUME NEW u \in Users, LoginStart(o, u) PROVE StoreTypeOK'
    <2>1. AsksSession([Idle EXCEPT !.kind = "login", !.user = u])
      BY DEF AsksSession
    <2> QED  BY <1>1, <1>5, <2>1 DEF LoginStart, SameAuth, StoreTypeOK, serverVars, metaVars
  <1>6. CASE ServeSession(o)
    <2>1. op[o].kind = "login" => op[o].user \in Users
      BY <1>6 DEF ServeSession, At, OpsFit, OpFits
    <2>2. op' \in [Ops -> Op \union {None}] /\ cookie' \in Session \union {None}
      BY <1>6, <2>1, ServeMoves, MovesSets
    <2> QED  BY <1>6, <2>2 DEF ServeSession, StoreTypeOK, authVars, metaVars, history
  <1>7. CASE SessionAnswered(o)
    <2> DEFINE a == FromServer(op[o].kind, op[o].answer)
    <2>1. o \in Running /\ SetAuth(a) /\ HydrateOrEnd(o, a)
      BY <1>7 DEF SessionAnswered, At
    <2>2. op[o].answer \in Session \union {None}
      BY <2>1, RunningTyped DEF Op
    <2>3. a \in Auth
      BY <2>2, FromServerTyped
    <2> HIDE DEF a
    <2>4. /\ op' \in [Ops -> Op \union {None}]
          /\ isHydrating' \in BOOLEAN /\ apiError' \in BOOLEAN
          /\ tangled' \in BOOLEAN /\ switched' \in BOOLEAN
          /\ loading' \subseteq Keys \union {"hydrate"}
      BY <2>1, <2>3, HydrateMoves, MovesSets
    <2> QED  BY <1>7, <2>1, <2>3, <2>4 DEF SessionAnswered, SetAuth, StoreTypeOK, serverVars
  <1>8. CASE SessionRefused(o)
    <2>1. o \in Running /\ Ends(o)
      BY <1>8 DEF SessionRefused, At
    <2>2. op' \in [Ops -> Op \union {None}]
      BY <2>1, EndMoves, MovesSets
    <2> QED  BY <1>8, <2>2 DEF SessionRefused, SameAuth, StoreTypeOK, serverVars, metaVars, history
  <1>9. CASE SessionFails(o)
    <2>1. o \in Running /\ Ends(o)
      BY <1>9 DEF SessionFails
    <2>2. op' \in [Ops -> Op \union {None}]
      BY <2>1, EndMoves, MovesSets
    <2>3. AfterFailure(op[o]) \in Auth /\ SetAuth(AfterFailure(op[o]))
      BY <1>9, <2>1, FailureTyped
    <2> QED  BY <1>9, <2>2, <2>3 DEF SessionFails, SetAuth, StoreTypeOK, serverVars, metaVars, history
  <1>10. CASE LogoutEnds(o)
    <2>1. o \in Running /\ Ends(o) /\ SetAuth(SignedOut)
      BY <1>10 DEF LogoutEnds
    <2>2. op' \in [Ops -> Op \union {None}]
      BY <2>1, EndMoves, MovesSets
    <2> QED  BY <1>10, <2>1, <2>2, IdleTyped DEF LogoutEnds, SetAuth, StoreTypeOK, serverVars, history
  <1> QED  BY <1>2, <1>3, <1>4, <1>5, <1>6, <1>7, <1>8, <1>9, <1>10

\* What happens to the page, and to the session on the server.
Outside ==
    \/ StartDemo \/ (\E p \in Parts : LocalChange(p)) \/ CreateEvent
    \/ ResetDemoData \/ Reload \/ CookieEnds \/ SetupConfirmed

LEMMA OutsideTyped ==
    ASSUME StoreTypeOK, Outside
    PROVE  StoreTypeOK'
  <1>1. acts' \in 0..MaxActs
    <2>1. Act
      BY DEF Outside, StartDemo, LocalChange, CreateEvent, ResetDemoData, Reload, CookieEnds,
             SetupConfirmed
    <2> QED  BY <2>1, ActTyped
  <1>2. CASE StartDemo
    BY <1>1, <1>2, IdleTyped DEF StartDemo, SameAuth, StoreTypeOK, serverVars, history
  <1>3. CASE (\E p \in Parts : LocalChange(p)) \/ CreateEvent
    <2>1. env' \in [Parts -> Part]
      BY <1>3, LocalIsEdited DEF Edited
    <2> QED  BY <1>1, <1>3, <2>1
             DEF LocalChange, CreateEvent, SameAuth, StoreTypeOK, serverVars, metaVars, history
  <1>4. CASE ResetDemoData
    BY <1>1, <1>4, IdleTyped DEF ResetDemoData, SetAuth, StoreTypeOK, serverVars
  <1>5. CASE Reload
    BY <1>1, <1>5, IdleTyped DEF Reload, StoreTypeOK, serverVars
  <1>6. CASE CookieEnds
    BY <1>1, <1>6 DEF CookieEnds, StoreTypeOK, authVars, metaVars, history
  <1>7. CASE SetupConfirmed
    <2>1. cookie \in Session
      BY <1>7 DEF SetupConfirmed, StoreTypeOK
    <2>2. cookie' \in Session
      BY <1>7, <2>1 DEF SetupConfirmed, Session
    <2> QED  BY <1>1, <1>7, <2>2 DEF SetupConfirmed, StoreTypeOK, authVars, metaVars, history
  <1> QED  BY <1>2, <1>3, <1>4, <1>5, <1>6, <1>7 DEF Outside

-----------------------------------------------------------------------------
(* What operations are to each other *)

LEMMA OpsFitKeeps ==
    ASSUME StoreTypeOK, OpsFit, NEW o, NEW x, Moves(o, x), x # None => OpFits(x)',
           writes' \in Nat, writes <= writes'
    PROVE  OpsFit'
  <1> SUFFICES ASSUME NEW q \in Running'
               PROVE  OpFits(op[q])'
    BY DEF OpsFit
  <1>1. CASE q = o
    BY <1>1, MovesSets
  <1>2. CASE q # o
    <2>1. q \in Running /\ q \in Ops /\ op'[q] = op[q]
      BY <1>2, MovesSets, RunningTyped
    <2>2. 1..writes \subseteq 1..writes'
      BY DEF StoreTypeOK
    <2>3. OpFits(op[q])
      BY <2>1 DEF OpsFit
    <2> QED  BY <2>1, <2>2, <2>3 DEF OpFits
  <1> QED  BY <1>1, <1>2

\* shown grows by no more than the write of an operation that is answered.
Shows(o) == shown' = shown \/ (o \in Pending /\ shown' = shown \union {op[o].write})

LEMMA EndsKeeps ==
    ASSUME StoreTypeOK, Basics, NEW o \in Running, Ends(o), Shows(o),
           UNCHANGED <<writes, tangled, switched>>
    PROVE  Basics'
  <1>1. Moves(o, None)
    BY EndMoves
  <1>2. OpsFit'
    BY <1>1, OpsFitKeeps DEF Basics, StoreTypeOK
  <1>3. ChangesAlone'
    BY <1>1, MovesSets DEF Basics, ChangesAlone
  <1>4. ReadsAlone'
    BY <1>1, MovesSets DEF Basics, ReadsAlone
  <1>5. WritesFit'
    <2>1. shown' \subseteq 1..writes
      BY DEF Shows, Pending, Basics, WritesFit, OpsFit, OpFits
    <2>2. \A q \in Pending' : q \in Pending /\ q # o /\ op'[q] = op[q]
      BY <1>1, MovesSets, RunningTyped DEF Pending
    <2>3. \A q \in Pending' : op'[q].write \notin shown'
      BY <2>2 DEF Shows, Basics, WritesFit
    <2> QED  BY <2>1, <2>2, <2>3 DEF Basics, WritesFit
  <1> QED  BY <1>2, <1>3, <1>4, <1>5 DEF Basics

\* The operation goes on where it is.
LEMMA StaysKeeps ==
    ASSUME StoreTypeOK, Basics, NEW o \in Running, NEW x \in Op, Moves(o, x), OpFits(x),
           x.kind = op[o].kind, x.write = op[o].write,
           x.stage = "reading" <=> op[o].stage = "reading",
           UNCHANGED <<writes, shown, tangled, switched>>
    PROVE  /\ Basics'
           /\ Running' = Running /\ Reading' = Reading /\ Changing' = Changing
           /\ Pending' = Pending
  <1>1. x # None
    BY NoneFacts
  <1>2. OpFits(x)'
    BY DEF OpFits
  <1>3. OpsFit'
    BY <1>2, OpsFitKeeps DEF Basics, StoreTypeOK
  <1>4. /\ o \in Running'
        /\ o \in Reading <=> o \in Reading'
        /\ o \in Changing <=> o \in Changing'
        /\ o \in Pending <=> o \in Pending'
    BY <1>1, MovesSets DEF Running, Reading, Changing, Pending
  <1>5. Running' = Running /\ Reading' = Reading /\ Changing' = Changing /\ Pending' = Pending
    BY <1>4, MovesSets
  <1>6. ChangesAlone' /\ ReadsAlone'
    BY <1>5 DEF Basics, ChangesAlone, ReadsAlone
  <1>7. \A q \in Pending : op'[q].write = op[q].write
    BY MovesSets, RunningTyped DEF Pending
  <1>8. WritesFit'
    BY <1>5, <1>7 DEF Basics, WritesFit
  <1> QED  BY <1>3, <1>5, <1>6, <1>8 DEF Basics

LEMMA AsksKeeps ==
    ASSUME StoreTypeOK, Basics, NEW o, NEW r \in Op, Moves(o, r), Ask(o, r), r.stage = "asked",
           OpFits(r)',
           \/ r.kind \notin {"write", "onboard"} /\ UNCHANGED writes
           \/ r.kind \in {"write", "onboard"} /\ r.write = writes + 1 /\ writes' = writes + 1
    PROVE  Basics'
  <1>1. r # None
    BY NoneFacts
  <1>2. writes \in Nat /\ writes' \in Nat /\ writes <= writes'
    BY DEF StoreTypeOK
  <1>3. OpsFit'
    BY <1>2, OpsFitKeeps DEF Basics
  <1>4. Reading' = Reading /\ o \notin Reading /\ o \notin Pending
    BY <1>1, MovesSets DEF Ask, Reading, Pending
  <1>5. ReadsAlone'
    BY <1>4 DEF Ask, Basics, ReadsAlone
  <1>6. ChangesAlone'
    <2>1. CASE ChangesSession(r.kind) /\ Switching # {}
      BY <2>1 DEF Ask, ChangesAlone
    <2>2. CASE ~ChangesSession(r.kind)
      <3>1. Changing' = Changing
        BY <1>1, <2>2, MovesSets DEF Ask, Changing
      <3> QED  BY <1>4, <2>2, <3>1 DEF Ask, Basics, ChangesAlone
    <2>3. CASE Switching = {}
      <3>1. Reading = {} /\ Changing = {}
        BY <2>3 DEF Switching, Reading, Changing
      <3>2. \A q \in Changing' \union Reading' : q = o
        BY <1>4, <3>1, MovesSets
      <3> QED  BY <3>2 DEF ChangesAlone
    <2> QED  BY <2>1, <2>2, <2>3
  <1>7. WritesFit'
    <2>1. shown' = shown /\ shown' \subseteq 1..writes'
      BY <1>2 DEF Ask, Basics, WritesFit
    <2>2. \A q \in Pending : q # o /\ op'[q] = op[q] /\ op[q].write \in 1..writes
      BY <1>4, MovesSets, RunningTyped DEF Pending, Basics, OpsFit, OpFits
    <2>3. CASE r.kind \notin {"write", "onboard"}
      <3>1. Pending' = Pending
        BY <1>4, <2>3, MovesSets
      <3> QED  BY <2>1, <2>2, <3>1 DEF Basics, WritesFit
    <2>4. CASE r.kind \in {"write", "onboard"}
      <3>1. op'[o].write = writes + 1 /\ writes' = writes + 1
        BY <2>4, MovesSets
      <3>2. \A q \in Pending' : q = o \/ q \in Pending
        BY MovesSets
      <3>3. writes + 1 \notin 1..writes /\ writes + 1 \notin shown
        BY <1>2 DEF Basics, WritesFit
      <3>4. \A q \in Pending' : op'[q].write \notin shown'
        BY <2>1, <2>2, <3>1, <3>2, <3>3 DEF Basics, WritesFit
      <3>5. \A p, q \in Pending' : op'[p].write = op'[q].write => p = q
        BY <2>2, <3>1, <3>2, <3>3 DEF Basics, WritesFit
      <3> QED  BY <2>1, <3>4, <3>5 DEF WritesFit
    <2> QED  BY <2>3, <2>4
  <1> QED  BY <1>3, <1>5, <1>6, <1>7 DEF Basics

\* The operation begins to hydrate.
LEMMA ReadingKeeps ==
    ASSUME StoreTypeOK, Basics, NEW o, NEW x \in Op, Moves(o, x), x.stage = "reading",
           OpFits(x), o \notin Reading, Shows(o), UNCHANGED writes,
           tangled' = (tangled \/ Reading # {}),
           switched' = (switched \/ \E q \in Running \ (Reading \union {o}) :
                                       ChangesSession(op[q].kind))
    PROVE  Basics' /\ Reading' = Reading \union {o}
  <1>1. x # None
    BY NoneFacts
  <1>2. OpFits(x)'
    BY DEF OpFits
  <1>3. OpsFit'
    BY <1>2, OpsFitKeeps DEF Basics, StoreTypeOK
  <1>4. Reading' = Reading \union {o} /\ o \notin Changing' /\ o \notin Pending'
    BY <1>1, MovesSets
  <1>5. ReadsAlone'
    BY <1>4 DEF ReadsAlone
  <1>6. ChangesAlone'
    <2> SUFFICES ASSUME ~switched', NEW q \in Changing'
                 PROVE  FALSE
      BY DEF ChangesAlone
    <2>1. q \in Changing /\ q # o
      BY <1>4, MovesSets
    <2> QED  BY <2>1 DEF Changing, Reading
  <1>7. WritesFit'
    <2>1. shown' \subseteq 1..writes
      <3>1. o \in Pending => op[o].write \in 1..writes
        BY DEF Pending, Basics, OpsFit, OpFits
      <3> QED  BY <3>1 DEF Shows, Basics, WritesFit
    <2>2. \A q \in Pending' : q \in Pending /\ q # o /\ op'[q] = op[q]
      BY <1>4, MovesSets, RunningTyped DEF Pending
    <2>3. \A q \in Pending' : op'[q].write \notin shown'
      BY <2>2 DEF Shows, Basics, WritesFit
    <2> QED  BY <2>1, <2>2, <2>3 DEF Basics, WritesFit
  <1> QED  BY <1>3, <1>4, <1>5, <1>6, <1>7 DEF Basics

LEMMA HydrateKeeps ==
    ASSUME StoreTypeOK, Basics, NEW o \in Running, NEW a \in Auth, HydrateOrEnd(o, a),
           op[o].stage = "served", op[o].kind # "refresh", Shows(o), UNCHANGED writes
    PROVE  Basics'
  <1>1. o \in Ops /\ op[o] \in Op /\ OpFits(op[o])
    BY RunningTyped DEF Basics, OpsFit
  <1>2. CASE CanHydrate(a)
    <2> DEFINE x == [op[o] EXCEPT !.stage = "reading"]
    <2>1. Moves(o, x)
      BY <1>2, HydrateMoves DEF Basics
    <2>2. /\ x \in Op /\ x.stage = "reading" /\ x.kind = op[o].kind /\ x.key = op[o].key
          /\ x.part = op[o].part /\ x.write = op[o].write /\ x.user = op[o].user
          /\ x.answer = op[o].answer /\ x.got = op[o].got /\ x.stored = op[o].stored
      BY <1>1 DEF Op
    <2> HIDE DEF x
    <2>3. OpFits(x)
      BY <1>1, <2>2 DEF OpFits
    <2>4. o \notin Reading
      BY DEF Reading
    <2> QED  BY <1>2, <2>1, <2>2, <2>3, <2>4, ReadingKeeps DEF HydrateOrEnd
  <1>3. CASE ~CanHydrate(a)
    BY <1>3, EndsKeeps DEF HydrateOrEnd
  <1> QED  BY <1>2, <1>3

LEMMA GetsKeeps ==
    ASSUME StoreTypeOK, Basics, NEW o \in Ops, NEW p \in Parts, NEW g, Gets(o, p, g)
    PROVE  /\ Basics'
           /\ Running' = Running /\ Reading' = Reading /\ Changing' = Changing
           /\ o \in Reading /\ op'[o].got = [op[o].got EXCEPT ![p] = g]
           /\ op'[o].stored = op[o].stored /\ op'[o].key = op[o].key
           /\ op'[o].kind = op[o].kind
           /\ \A q \in Ops : q # o => op'[q] = op[q]
           /\ op[o].got \in [Parts -> Part \union {None}]
           /\ p \in Required => g.from = "server" /\ g.of \in Users
  <1> DEFINE x == [op[o] EXCEPT !.got[p] = g]
  <1>1. o \in Running /\ op[o] \in Op /\ OpFits(op[o]) /\ op[o].stage = "reading"
    BY RunningTyped DEF Basics, OpsFit, Gets, At
  <1>2. p \in Required => g.from = "server" /\ g.of \in Users
    BY DEF Gets, Session
  <1>3. Moves(o, x) /\ x \in Op
    BY GetsMoves
  <1>4. op[o].got \in [Parts -> Part \union {None}]
    BY <1>1 DEF Op
  <1>5. /\ x.stage = "reading" /\ x.kind = op[o].kind /\ x.key = op[o].key
        /\ x.part = op[o].part /\ x.write = op[o].write /\ x.user = op[o].user
        /\ x.answer = op[o].answer /\ x.stored = op[o].stored
        /\ x.got = [op[o].got EXCEPT ![p] = g]
    BY <1>1 DEF Op
  <1> HIDE DEF x
  <1>6. \A q \in Required : x.got[q] # None => x.got[q].from = "server" /\ x.got[q].of \in Users
    BY <1>1, <1>2, <1>4, <1>5, PartsFacts DEF OpFits
  <1>7. OpFits(x)
    BY <1>1, <1>5, <1>6 DEF OpFits
  <1>8. UNCHANGED <<writes, shown, tangled, switched>>
    BY DEF Gets, history
  <1>9. /\ Basics' /\ Running' = Running /\ Reading' = Reading /\ Changing' = Changing
    BY <1>1, <1>3, <1>5, <1>7, <1>8, StaysKeeps
  <1>10. op'[o] = x /\ \A q \in Ops : q # o => op'[q] = op[q]
    BY <1>3, MovesSets
  <1>11. o \in Reading
    BY <1>1 DEF Reading
  <1> QED  BY <1>2, <1>4, <1>5, <1>9, <1>10, <1>11

LEMMA RefreshKeeps ==
    ASSUME StoreTypeOK, Basics, NEW o \in Ops, NEW key \in Keys \union {None}, Refresh(o, key)
    PROVE  Basics' /\ Reading' = Reading \union {o}
  <1> DEFINE x == [Idle EXCEPT !.kind = "refresh", !.key = key, !.stage = "reading"]
  <1>1. Moves(o, x) /\ x \in Op
    <2>1. x \in Op
      BY DEF Idle, Op, Kind
    <2> QED  BY <2>1, RefreshMoves
  <1>2. x.stage = "reading" /\ x.kind = "refresh" /\ x.stored = None /\ \A p \in Parts : x.got[p] = None
    BY DEF Idle
  <1> HIDE DEF x
  <1>3. OpFits(x)
    BY <1>2, PartsFacts DEF OpFits
  <1>4. o \notin Running /\ Reading \subseteq Running /\ Running \ Reading = Running \ (Reading \union {o})
    BY DEF Refresh, Reading
  <1>5. /\ tangled' = (tangled \/ Reading # {})
        /\ switched' = (switched \/ \E q \in Running \ (Reading \union {o}) :
                                       ChangesSession(op[q].kind))
        /\ Shows(o) /\ UNCHANGED writes
    BY <1>4 DEF Refresh, Shows
  <1> QED  BY <1>1, <1>2, <1>3, <1>4, <1>5, ReadingKeeps

\* What a writing operation begins as.
LEMMA WriteAsks ==
    ASSUME StoreTypeOK, NEW o \in Ops, NEW p \in Parts,
           \/ OnboardStart(o, p)
           \/ \E key \in Keys : WriteStart(o, key, p)
    PROVE  \E x \in Op :
              /\ Moves(o, x) /\ Ask(o, x) /\ writes' = writes + 1
              /\ x.kind \in {"onboard", "write"} /\ x.stage = "asked"
              /\ x.part = p /\ x.write = writes + 1 /\ x.stored = None
              /\ IF x.kind = "write" THEN x.key \in Keys /\ loading' = loading \union {x.key}
                                     ELSE x.key = None /\ loading' = loading
              /\ \A q \in Parts : x.got[q] = None
              /\ UNCHANGED <<auth, isApiMode, isHydrating>>
  <1>1. writes < MaxWrites /\ writes' = writes + 1 /\ UNCHANGED <<auth, isApiMode, isHydrating>>
    BY DEF OnboardStart, WriteStart, SameAuth, authVars, metaVars
  <1>2. writes + 1 \in Write
    BY <1>1, NoneFacts DEF StoreTypeOK, Write
  <1>3. CASE OnboardStart(o, p)
    <2> DEFINE x == [Idle EXCEPT !.kind = "onboard", !.part = p, !.write = writes + 1]
    <2>1. Moves(o, x) /\ Ask(o, x) /\ loading' = loading
      BY <1>3, OnboardMoves DEF OnboardStart, metaVars
    <2>2. /\ x.stage = "asked" /\ x.kind = "onboard" /\ x.part = p /\ x.write = writes + 1
          /\ x.key = None /\ x.stored = None /\ \A q \in Parts : x.got[q] = None
      BY DEF Idle
    <2>3. x \in Op
      BY <1>2 DEF Idle, Op, Kind
    <2> HIDE DEF x
    <2> QED  BY <1>1, <2>1, <2>2, <2>3
  <1>4. ASSUME NEW key \in Keys, WriteStart(o, key, p)
        PROVE  \E x \in Op :
                  /\ Moves(o, x) /\ Ask(o, x) /\ writes' = writes + 1
                  /\ x.kind = "write" /\ x.stage = "asked"
                  /\ x.part = p /\ x.write = writes + 1 /\ x.stored = None
                  /\ x.key \in Keys /\ loading' = loading \union {x.key}
                  /\ \A q \in Parts : x.got[q] = None
    <2> DEFINE x == [Idle EXCEPT !.kind = "write", !.key = key, !.part = p,
                                 !.write = writes + 1]
    <2>1. Moves(o, x) /\ Ask(o, x) /\ loading' = loading \union {key}
      BY <1>4, WriteMoves DEF WriteStart
    <2>2. /\ x.stage = "asked" /\ x.kind = "write" /\ x.part = p /\ x.write = writes + 1
          /\ x.key = key /\ x.stored = None /\ \A q \in Parts : x.got[q] = None
      BY DEF Idle
    <2>3. x \in Op
      BY <1>2 DEF Idle, Op, Kind
    <2> HIDE DEF x
    <2> QED  BY <1>1, <2>1, <2>2, <2>3
  <1> QED  BY <1>1, <1>3, <1>4

LEMMA WriteStartKeeps ==
    ASSUME StoreTypeOK, Basics, NEW o \in Ops, NEW p \in Parts,
           \/ OnboardStart(o, p)
           \/ \E key \in Keys : WriteStart(o, key, p)
    PROVE  Basics'
  <1>1. PICK x \in Op :
              /\ Moves(o, x) /\ Ask(o, x) /\ writes' = writes + 1
              /\ x.kind \in {"onboard", "write"} /\ x.stage = "asked"
              /\ x.part = p /\ x.write = writes + 1 /\ x.stored = None
              /\ IF x.kind = "write" THEN x.key \in Keys ELSE x.key = None
              /\ \A q \in Parts : x.got[q] = None
    BY WriteAsks
  <1>2. writes + 1 \in 1..(writes + 1)
    BY DEF StoreTypeOK
  <1>3. OpFits(x)'
    BY <1>1, <1>2, PartsFacts DEF OpFits
  <1> QED  BY <1>1, <1>3, AsksKeeps

LEMMA ServeWriteKeeps ==
    ASSUME StoreTypeOK, Basics, NEW o \in Ops, ServeWrite(o)
    PROVE  /\ Basics' /\ Running' = Running /\ Reading' = Reading /\ Changing' = Changing
           /\ o \in Pending /\ \A q \in Ops : q # o => op'[q] = op[q]
           /\ op'[o].key = op[o].key /\ o \notin Reading
  <1> DEFINE x == [op[o] EXCEPT !.stage = "served"]
  <1>1. o \in Running /\ op[o] \in Op /\ OpFits(op[o]) /\ op[o].stage = "asked"
        /\ op[o].kind \in {"write", "onboard"}
    BY RunningTyped DEF Basics, OpsFit, ServeWrite, At
  <1>2. Moves(o, x)
    BY <1>1, StageMoves DEF ServeWrite
  <1>3. /\ x \in Op /\ x.stage = "served" /\ x.kind = op[o].kind /\ x.key = op[o].key
        /\ x.part = op[o].part /\ x.write = op[o].write /\ x.user = op[o].user
        /\ x.answer = op[o].answer /\ x.got = op[o].got /\ x.stored = op[o].stored
    BY <1>1 DEF Op
  <1> HIDE DEF x
  <1>4. OpFits(x)
    BY <1>1, <1>3 DEF OpFits
  <1>5. UNCHANGED <<writes, shown, tangled, switched>>
    BY DEF ServeWrite, history
  <1>6. /\ Basics' /\ Running' = Running /\ Reading' = Reading /\ Changing' = Changing
    BY <1>1, <1>2, <1>3, <1>4, <1>5, StaysKeeps
  <1>7. op'[o] = x /\ \A q \in Ops : q # o => op'[q] = op[q]
    BY <1>2, MovesSets
  <1> QED  BY <1>1, <1>3, <1>6, <1>7 DEF Pending, Reading

LEMMA ServeSessionKeeps ==
    ASSUME StoreTypeOK, Basics, NEW o \in Ops, ServeSession(o)
    PROVE  /\ Basics' /\ Running' = Running /\ Reading' = Reading /\ Changing' = Changing
           /\ o \in Changing /\ \A q \in Ops : q # o => op'[q] = op[q]
           /\ op'[o].key = op[o].key /\ op'[o].kind = op[o].kind
           /\ op'[o].stored = op[o].stored /\ op'[o].answer = cookie'
           /\ cookie' = Served(op[o].kind, op[o].user) /\ op[o].stage = "asked"
           /\ op[o].kind = "login" => op[o].user \in Users
           /\ cookie' \in Session \union {None} /\ o \notin Reading
  <1> DEFINE x == [op[o] EXCEPT !.stage = "served", !.answer = cookie']
  <1>1. /\ o \in Running /\ op[o] \in Op /\ OpFits(op[o]) /\ op[o].stage = "asked"
        /\ ChangesSession(op[o].kind)
        /\ op[o].kind = "login" => op[o].user \in Users
    BY RunningTyped DEF Basics, OpsFit, OpFits, ServeSession, At
  <1>2. /\ Moves(o, x) /\ cookie' = Served(op[o].kind, op[o].user)
        /\ cookie' \in Session \union {None}
    BY <1>1, ServeMoves
  <1>3. /\ x \in Op /\ x.stage = "served" /\ x.kind = op[o].kind /\ x.key = op[o].key
        /\ x.part = op[o].part /\ x.write = op[o].write /\ x.user = op[o].user
        /\ x.answer = cookie' /\ x.got = op[o].got /\ x.stored = op[o].stored
    BY <1>1, <1>2 DEF Op
  <1> HIDE DEF x
  <1>4. op[o].kind \in {"login", "verify"} => cookie' # None
    <2>1. ASSUME op[o].kind = "login" PROVE cookie' # None
      <3>1. cookie' \in Session
        BY <1>1, <1>2, <2>1 DEF Served, Session
      <3> QED  BY <3>1, NoneFacts
    <2>2. ASSUME op[o].kind = "verify" PROVE cookie' # None
      <3>1. cookie' \in Session
        BY <1>2, <2>2 DEF Served, Session, ServeSession, StoreTypeOK
      <3> QED  BY <3>1, NoneFacts
    <2> QED  BY <2>1, <2>2
  <1>5. OpFits(x)
    BY <1>1, <1>3, <1>4 DEF OpFits, ChangesSession
  <1>6. UNCHANGED <<writes, shown, tangled, switched>>
    BY DEF ServeSession, history
  <1>7. /\ Basics' /\ Running' = Running /\ Reading' = Reading /\ Changing' = Changing
    BY <1>1, <1>2, <1>3, <1>5, <1>6, StaysKeeps
  <1>8. op'[o] = x /\ \A q \in Ops : q # o => op'[q] = op[q]
    BY <1>2, MovesSets
  <1> QED  BY <1>1, <1>2, <1>3, <1>7, <1>8 DEF Changing, Reading

LEMMA SameOpsKeeps ==
    ASSUME StoreTypeOK, Basics, UNCHANGED <<op, writes, shown, tangled>>,
           switched => switched'
    PROVE  /\ Basics'
           /\ Running' = Running /\ Reading' = Reading /\ Changing' = Changing
           /\ Pending' = Pending
  <1>1. Running' = Running /\ Reading' = Reading /\ Changing' = Changing /\ Pending' = Pending
    BY DEF Running, Reading, Changing, Pending
  <1>2. OpsFit' /\ ReadsAlone' /\ WritesFit'
    BY <1>1 DEF Basics, OpsFit, OpFits, ReadsAlone, WritesFit
  <1>3. ChangesAlone'
    BY <1>1 DEF Basics, ChangesAlone
  <1> QED  BY <1>1, <1>2, <1>3 DEF Basics

\* A session operation that starts.
LEMMA SessionAsksKeeps ==
    ASSUME StoreTypeOK, Basics, NEW o \in Ops, NEW r, AsksSession(r), Ask(o, r),
           UNCHANGED writes
    PROVE  /\ Basics'
           /\ Reading' = Reading /\ Changing' = Changing \union {o}
           /\ \A q \in Ops : q # o => op'[q] = op[q]
           /\ op'[o] = r /\ o \notin Running /\ r.stage = "asked" /\ r.key = None
           /\ \A q : q # o => (q \in Running' <=> q \in Running)
           /\ ~switched' => ~switched /\ Reading = {} /\ Changing = {}
  <1>1. /\ Moves(o, r) /\ r \in Op /\ ChangesSession(r.kind) /\ r.stage = "asked"
        /\ r.kind \notin {"write", "onboard", "refresh"} /\ r.key = None
        /\ r.kind = "login" => r.user \in Users
        /\ r.kind # "boot" => r.stored = None
        /\ \A p \in Parts : r.got[p] = None
    BY SessionMoves
  <1>2. OpFits(r)'
    BY <1>1, PartsFacts DEF OpFits
  <1>3. Basics'
    BY <1>1, <1>2, AsksKeeps
  <1>4. o \notin Running /\ r # None /\ (~switched' => ~switched /\ Switching = {})
    BY <1>1, NoneFacts DEF Ask
  <1>5. Reading' = Reading /\ Changing' = Changing \union {o}
    BY <1>1, <1>4, MovesSets DEF Reading, Changing
  <1>6. Switching = {} => Reading = {} /\ Changing = {}
    BY DEF Switching, Reading, Changing
  <1>7. /\ op'[o] = r /\ \A q \in Ops : q # o => op'[q] = op[q]
        /\ \A q : q # o => (q \in Running' <=> q \in Running)
    BY <1>1, MovesSets
  <1> QED  BY <1>1, <1>3, <1>4, <1>5, <1>6, <1>7

\* An operation that ends changes nothing of the others.
LEMMA EndsSets ==
    ASSUME StoreTypeOK, NEW o \in Running, Ends(o)
    PROVE  /\ Running' = Running \ {o} /\ Reading' = Reading \ {o}
           /\ Changing' = Changing \ {o}
           /\ \A q \in Running' : q \in Ops /\ op'[q] = op[q]
  <1>1. Moves(o, None)
    BY EndMoves
  <1> QED  BY <1>1, MovesSets, RunningTyped

LEMMA HydrateSets ==
    ASSUME StoreTypeOK, Basics, NEW o \in Running, NEW a \in Auth, CanHydrate(a),
           HydrateOrEnd(o, a), op[o].stage # "reading"
    PROVE  /\ Running' = Running /\ Reading' = Reading \union {o}
           /\ Changing' = Changing \ {o}
           /\ \A q \in Running : q \in Ops /\ (q # o => op'[q] = op[q])
           /\ op'[o].key = op[o].key /\ op'[o].kind = op[o].kind
           /\ op'[o].got = op[o].got /\ \A p \in Parts : op[o].got[p] = None
           /\ ~tangled' => ~tangled /\ Reading = {}
           /\ ~switched' => ~switched
  <1> DEFINE x == [op[o] EXCEPT !.stage = "reading"]
  <1>1. Moves(o, x) /\ op[o] \in Op
    BY HydrateMoves, RunningTyped DEF Basics
  <1>2. /\ x \in Op /\ x.stage = "reading" /\ x.kind = op[o].kind /\ x.key = op[o].key
        /\ x.got = op[o].got
    BY <1>1 DEF Op
  <1> HIDE DEF x
  <1>3. x # None /\ \A p \in Parts : op[o].got[p] = None
    BY <1>2, NoneFacts DEF Basics, OpsFit, OpFits
  <1>4. op'[o] = x
    BY <1>1, MovesSets
  <1>5. Running' = Running /\ Reading' = Reading \union {o} /\ Changing' = Changing \ {o}
    BY <1>1, <1>2, <1>3, MovesSets
  <1>6. \A q \in Running : q \in Ops /\ (q # o => op'[q] = op[q])
    BY <1>1, MovesSets, RunningTyped
  <1>7. (~tangled' => ~tangled /\ Reading = {}) /\ (~switched' => ~switched)
    BY DEF HydrateOrEnd
  <1> QED  BY <1>2, <1>3, <1>4, <1>5, <1>6, <1>7

LEMMA BasicsStep ==
    ASSUME StoreTypeOK, Basics, [StoreNext]_storeVars
    PROVE  Basics'
  <1>1. ASSUME NEW o \in Ops, Starts(o) PROVE Basics'
    <2>1. CASE (BootStart(o) /\ op' # op) \/ VerifyStart(o) \/ LogoutStart(o)
               \/ \E u \in Users : LoginStart(o, u)
      <3>1. PICK r : AsksSession(r) /\ Ask(o, r)
        BY <2>1, SessionStarts
      <3>2. UNCHANGED writes
        BY <2>1 DEF BootStart, VerifyStart, LogoutStart, LoginStart
      <3> QED  BY <3>1, <3>2, SessionAsksKeeps
    <2>2. CASE BootStart(o) /\ op' = op
      <3>1. UNCHANGED <<op, writes, shown, tangled>> /\ (switched => switched')
        BY <2>2 DEF BootStart, Ask, history
      <3> QED  BY <3>1, SameOpsKeeps
    <2>3. ASSUME NEW key \in Keys \union {None}, Refresh(o, key) PROVE Basics'
      BY <2>3, RefreshKeeps
    <2> QED  BY <1>1, <2>1, <2>2, <2>3, WriteStartKeeps DEF Starts
  <1>2. ASSUME NEW o \in Ops, GoesOn(o) PROVE Basics'
    <2>1. CASE HydrationFails(o) \/ HydrationLands(o) \/ WriteFails(o) \/ SessionRefused(o)
               \/ SessionFails(o) \/ LogoutEnds(o)
      <3>1. o \in Running /\ Ends(o) /\ UNCHANGED <<writes, shown, tangled, switched>>
        BY <2>1 DEF HydrationFails, HydrationLands, WriteFails, SessionRefused, SessionFails,
                    LogoutEnds, At, history
      <3> QED  BY <3>1, EndsKeeps DEF Shows
    <2>2. CASE WriteAnswered(o)
      <3>1. /\ o \in Running /\ auth \in Auth /\ HydrateOrEnd(o, auth) /\ op[o].stage = "served"
            /\ op[o].kind \in {"write", "onboard"} /\ Shows(o) /\ UNCHANGED writes
        BY <2>2 DEF WriteAnswered, At, Shows, Pending, StoreTypeOK
      <3> QED  BY <3>1, HydrateKeeps
    <2>3. CASE SessionAnswered(o)
      <3> DEFINE a == FromServer(op[o].kind, op[o].answer)
      <3>1. /\ o \in Running /\ HydrateOrEnd(o, a) /\ op[o].stage = "served"
            /\ op[o].kind # "refresh" /\ Shows(o) /\ UNCHANGED writes
        BY <2>3 DEF SessionAnswered, At, Shows
      <3>2. op[o].answer \in Session \union {None}
        BY <3>1, RunningTyped DEF Op
      <3>3. a \in Auth
        BY <3>2, FromServerTyped
      <3> HIDE DEF a
      <3> QED  BY <3>1, <3>3, HydrateKeeps
    <2> QED  BY <1>2, <2>1, <2>2, <2>3, PartGets, GetsKeeps, ServeWriteKeeps, ServeSessionKeeps
             DEF GoesOn
  <1>3. CASE StartDemo \/ (\E p \in Parts : LocalChange(p)) \/ CreateEvent \/ ResetDemoData
             \/ CookieEnds \/ SetupConfirmed \/ UNCHANGED storeVars
    <2>1. UNCHANGED <<op, writes, shown, tangled>>
      BY <1>3 DEF StartDemo, LocalChange, CreateEvent, ResetDemoData, CookieEnds, SetupConfirmed, history,
                  storeVars
    <2>2. switched' = switched \/ ResetDemoData
      BY <1>3 DEF StartDemo, LocalChange, CreateEvent, CookieEnds, SetupConfirmed, history, storeVars
    <2>3. ResetDemoData /\ switched => switched'
      BY DEF ResetDemoData
    <2> QED  BY <2>1, <2>2, <2>3, SameOpsKeeps
  <1>4. CASE Reload
    <2>1. Running' = {}
      BY <1>4 DEF Reload, Running
    <2> QED  BY <1>4, <2>1 DEF Reload, Running, Reading, Changing, Pending, Basics, OpsFit,
                               ChangesAlone, ReadsAlone, WritesFit
  <1> QED  BY <1>1, <1>2, <1>3, <1>4 DEF StoreNext

-----------------------------------------------------------------------------
(* What the tab knows of the session *)

\* A step that leaves auth and API mode alone, and of which no operation that changes the
\* session or hydrates is new.
LEMMA SessionKeeps ==
    ASSUME SessionFits, UNCHANGED <<auth, isApiMode>>, switched => switched',
           Reading' \subseteq Reading,
           \A q \in Changing' : q \in Changing /\ op'[q].kind = op[q].kind
    PROVE  SessionFits'
  BY DEF SessionFits, CanHydrate

\* An operation that will change the session has it for itself, and is not in the views.
LEMMA AloneChanging ==
    ASSUME Basics, SessionFits, ~switched, NEW o \in Changing
    PROVE  /\ Changing = {o} /\ Reading = {}
           /\ op[o].kind # "logout" => ~isApiMode /\ ~CanHydrate(auth)
  <1>1. Changing = {o}
    BY DEF Basics, ChangesAlone
  <1>2. Reading = {}
    BY DEF Basics, ChangesAlone, Changing, Reading
  <1> QED  BY <1>1, <1>2 DEF SessionFits

\* With the answer, or without one, the session is what it was found to be.
LEMMA AuthHydrated ==
    /\ \A kind, session : FromServer(kind, session).hydrated
    /\ StoreTypeOK => \A a \in Auth \union {None} : Restored(a).hydrated
    /\ SignedOut.hydrated /\ ~CanHydrate(SignedOut) /\ ~CanHydrate(NoAuth) /\ ~NoAuth.hydrated
  <1>1. \A kind, session : FromServer(kind, session).hydrated
    BY DEF FromServer, SignedOut, NoAuth
  <1>2. ASSUME StoreTypeOK, NEW a \in Auth \union {None} PROVE Restored(a).hydrated
    BY <1>2 DEF Restored, Auth, StoreTypeOK
  <1>3. SignedOut.hydrated /\ ~CanHydrate(SignedOut) /\ ~CanHydrate(NoAuth) /\ ~NoAuth.hydrated
    BY DEF SignedOut, NoAuth, CanHydrate
  <1> QED  BY <1>1, <1>2, <1>3

LEMMA SessionOfStarts ==
    ASSUME StoreTypeOK, Basics, SessionFits, NEW o \in Ops, Starts(o)
    PROVE  SessionFits'
  <1>1. ASSUME NEW key \in Keys \union {None}, Refresh(o, key) PROVE SessionFits'
    <2>1. UNCHANGED <<auth, isApiMode>> /\ CanHydrate(auth) /\ (switched => switched')
      BY <1>1 DEF Refresh, SameAuth, InViews, CanHydrate
    <2>2. \A q \in Changing' : q \in Changing /\ op'[q].kind = op[q].kind
      <3>1. PICK x : Moves(o, x) /\ x.stage = "reading"
        <4>1. [Idle EXCEPT !.kind = "refresh", !.key = key, !.stage = "reading"].stage
                = "reading"
          BY DEF Idle
        <4> QED  BY <1>1, <4>1, RefreshMoves
      <3> QED  BY <3>1, MovesSets, RunningTyped DEF Changing
    <2> QED  BY <2>1, <2>2 DEF SessionFits, CanHydrate
  <1>2. ASSUME NEW p \in Parts, OnboardStart(o, p) \/ \E key \in Keys : WriteStart(o, key, p)
        PROVE  SessionFits'
    <2>1. PICK x \in Op : /\ Moves(o, x) /\ Ask(o, x) /\ x.kind \in {"onboard", "write"}
                          /\ x.stage = "asked" /\ UNCHANGED <<auth, isApiMode>>
      BY <1>2, WriteAsks
    <2>2. switched => switched'
      BY <2>1 DEF Ask
    <2>3. o \notin Changing' /\ o \notin Reading'
      BY <2>1, MovesSets DEF ChangesSession
    <2>4. /\ Reading' \subseteq Reading
          /\ \A q \in Changing' : q \in Changing /\ op'[q].kind = op[q].kind
      BY <2>1, <2>3, MovesSets, RunningTyped DEF Changing
    <2> QED  BY <2>1, <2>2, <2>4, SessionKeeps
  <1>3. CASE (BootStart(o) /\ op' # op) \/ VerifyStart(o) \/ LogoutStart(o)
             \/ \E u \in Users : LoginStart(o, u)
    <2>1. PICK r : AsksSession(r) /\ Ask(o, r)
      BY <1>3, SessionStarts
    <2>2. UNCHANGED writes
      BY <1>3 DEF BootStart, VerifyStart, LogoutStart, LoginStart
    <2>3. /\ Reading' = Reading /\ Changing' = Changing \union {o} /\ op'[o] = r
          /\ ~switched' => ~switched /\ Reading = {} /\ Changing = {}
      BY <2>1, <2>2, SessionAsksKeeps
    <2>4. UNCHANGED <<auth, isApiMode>>
      BY <1>3 DEF BootStart, VerifyStart, LogoutStart, LoginStart, SameAuth, authVars, metaVars,
                  history, SetAuth
    <2>5. op'[o].kind # "logout" => ~CanHydrate(auth)
      <3>1. CASE BootStart(o)
        BY <3>1, AuthHydrated DEF BootStart, SessionFits
      <3>2. CASE VerifyStart(o) \/ \E u \in Users : LoginStart(o, u)
        BY <3>2 DEF VerifyStart, LoginStart, AtVerify, AtLogin, CanHydrate
      <3>3. CASE LogoutStart(o)
        <4> DEFINE x == [Idle EXCEPT !.kind = "logout"]
        <4>1. op' = [op EXCEPT ![o] = x] /\ x.kind = "logout"
          BY <3>3 DEF LogoutStart, Ask, Idle
        <4>2. op'[o] = x
          BY <4>1 DEF StoreTypeOK
        <4> QED  BY <4>1, <4>2
      <3> QED  BY <1>3, <3>1, <3>2, <3>3
    <2>6. op'[o].kind \in {"login", "verify"} => auth.hydrated
      <3>1. CASE BootStart(o)
        <4> DEFINE x == [Idle EXCEPT !.kind = "boot", !.stored = stored]
        <4>1. op' = [op EXCEPT ![o] = x] /\ x.kind = "boot"
          BY <1>3, <3>1 DEF BootStart, Ask, Idle, VerifyStart, LogoutStart, LoginStart,
                            AtVerify, AtLogin, InViews
        <4>2. op'[o] = x
          BY <4>1 DEF StoreTypeOK
        <4> QED  BY <4>1, <4>2
      <3>2. CASE VerifyStart(o) \/ LogoutStart(o) \/ \E u \in Users : LoginStart(o, u)
        BY <3>2 DEF VerifyStart, LogoutStart, LoginStart, AtVerify, AtLogin, InViews
      <3> QED  BY <1>3, <3>1, <3>2
    <2> QED  BY <2>3, <2>4, <2>5, <2>6 DEF SessionFits, CanHydrate
  <1>4. CASE BootStart(o) /\ op' = op
    <2>1. ~auth.hydrated /\ ~Booting /\ UNCHANGED <<isApiMode, op>>
      BY <1>4 DEF BootStart, metaVars
    <2>2. auth = NoAuth /\ ~CanHydrate(auth)
      BY <2>1, AuthHydrated DEF SessionFits
    <2>3. Running' = Running /\ Reading' = Reading /\ Changing' = Changing
      BY <2>1 DEF Running, Reading, Changing
    <2>4. CASE UNCHANGED <<auth, switched>>
      BY <2>1, <2>3, <2>4, SessionKeeps
    <2>5. CASE auth' = Restored(stored) /\ UNCHANGED switched
      <3>1. auth'.hydrated
        BY <2>5, AuthHydrated DEF StoreTypeOK
      <3>2. ~switched => \A q \in Changing : op[q].kind = "logout"
        BY <2>1 DEF SessionFits, Changing, Booting, ChangesSession
      <3> QED  BY <2>1, <2>2, <2>3, <2>5, <3>1, <3>2 DEF SessionFits
    <2>6. UNCHANGED <<auth, switched>> \/ (auth' = Restored(stored) /\ UNCHANGED switched)
      <3>1. CASE Ask(o, [Idle EXCEPT !.kind = "boot", !.stored = stored])
        <4>1. PICK r : r = [Idle EXCEPT !.kind = "boot", !.stored = stored]
          OBVIOUS
        <4>2. AsksSession(r) /\ Ask(o, r) /\ UNCHANGED writes
          BY <1>4, <3>1, <4>1 DEF AsksSession, BootStart
        <4>3. o \notin Running /\ o \in Changing'
          BY <4>2, SessionAsksKeeps
        <4> QED  BY <2>3, <4>3 DEF Changing
      <3>2. CASE ~Ask(o, [Idle EXCEPT !.kind = "boot", !.stored = stored])
        BY <1>4, <3>2 DEF BootStart, SetAuth, history
      <3> QED  BY <3>1, <3>2
    <2> QED  BY <2>4, <2>5, <2>6
  <1> QED  BY <1>1, <1>2, <1>3, <1>4 DEF Starts

LEMMA SessionOfGoesOn ==
    ASSUME StoreTypeOK, Basics, SessionFits, NEW o \in Ops, GoesOn(o)
    PROVE  SessionFits'
  <1>1. ASSUME NEW p \in Parts, ReadPart(o, p) \/ KeepPart(o, p) PROVE SessionFits'
    <2>1. PICK g : Gets(o, p, g)
      BY <1>1, PartGets
    <2>2. UNCHANGED <<auth, isApiMode, switched>> /\ Reading' = Reading
      BY <2>1, GetsKeeps DEF authVars, Gets, metaVars, history
    <2>3. \A q \in Changing' : q \in Changing /\ op'[q].kind = op[q].kind
      BY <2>1, GetsKeeps, RunningTyped DEF Changing
    <2> QED  BY <2>2, <2>3, SessionKeeps
  <1>2. CASE HydrationFails(o) \/ WriteFails(o) \/ SessionRefused(o)
    <2>1. /\ o \in Running /\ Ends(o) /\ UNCHANGED <<auth, isApiMode, switched>>
      BY <1>2 DEF HydrationFails, WriteFails, SessionRefused, At, SameAuth, history, metaVars
    <2>2. /\ Reading' \subseteq Reading
          /\ \A q \in Changing' : q \in Changing /\ op'[q].kind = op[q].kind
      BY <2>1, EndsSets DEF Changing
    <2> QED  BY <2>1, <2>2, SessionKeeps
  <1>3. CASE HydrationLands(o)
    <2>1. /\ o \in Reading /\ Ends(o) /\ UNCHANGED <<auth, switched>>
      BY <1>3 DEF HydrationLands, At, SameAuth, history, Reading
    <2>2. o \in Running /\ \A q \in Changing' : q \in Changing /\ op'[q].kind = op[q].kind
      BY <2>1, EndsSets DEF Reading, Changing
    <2> QED  BY <2>1, <2>2 DEF SessionFits, CanHydrate
  <1>4. CASE ServeWrite(o)
    <2>1. UNCHANGED <<auth, isApiMode, switched>> /\ Reading' = Reading
      BY <1>4, ServeWriteKeeps DEF ServeWrite, authVars, metaVars, history
    <2>2. o \notin Changing
      BY <1>4 DEF ServeWrite, Changing, ChangesSession
    <2>3. \A q \in Changing' : q \in Changing /\ op'[q].kind = op[q].kind
      BY <1>4, <2>2, ServeWriteKeeps, RunningTyped DEF Changing
    <2> QED  BY <2>1, <2>3, SessionKeeps
  <1>5. CASE WriteAnswered(o)
    <2>1. /\ o \in Running /\ auth \in Auth /\ HydrateOrEnd(o, auth) /\ op[o].stage # "reading"
          /\ UNCHANGED <<auth, isApiMode>>
      BY <1>5 DEF WriteAnswered, At, SameAuth, StoreTypeOK
    <2>2. CASE CanHydrate(auth)
      <3>1. /\ \A q \in Changing' : q \in Changing /\ op'[q].kind = op[q].kind
            /\ ~switched' => ~switched
        BY <2>1, <2>2, HydrateSets DEF Changing
      <3> QED  BY <2>1, <2>2, <3>1 DEF SessionFits, CanHydrate
    <2>3. CASE ~CanHydrate(auth)
      <3>1. Ends(o) /\ UNCHANGED switched
        BY <2>1, <2>3 DEF HydrateOrEnd
      <3>2. /\ Reading' \subseteq Reading
            /\ \A q \in Changing' : q \in Changing /\ op'[q].kind = op[q].kind
        BY <2>1, <3>1, EndsSets DEF Changing
      <3> QED  BY <2>1, <3>1, <3>2, SessionKeeps
    <2> QED  BY <2>2, <2>3
  <1>6. CASE ServeSession(o)
    <2>1. UNCHANGED <<auth, isApiMode, switched>> /\ Reading' = Reading
      BY <1>6, ServeSessionKeeps DEF ServeSession, authVars, metaVars, history
    <2>2. \A q \in Changing' : q \in Changing /\ op'[q].kind = op[q].kind
      BY <1>6, ServeSessionKeeps, RunningTyped DEF Changing
    <2> QED  BY <2>1, <2>2, SessionKeeps
  <1>7. CASE SessionAnswered(o)
    <2> DEFINE a == FromServer(op[o].kind, op[o].answer)
    <2>1. /\ o \in Running /\ HydrateOrEnd(o, a) /\ op[o].stage = "served" /\ auth' = a
          /\ op[o].kind \in {"boot", "login", "verify"} /\ UNCHANGED isApiMode
      BY <1>7 DEF SessionAnswered, At, SetAuth
    <2>2. a \in Auth /\ a.hydrated
      <3>1. op[o].answer \in Session \union {None}
        BY <2>1, RunningTyped DEF Op
      <3> QED  BY <3>1, FromServerTyped, AuthHydrated
    <2>3. o \in Changing
      BY <2>1 DEF Changing, ChangesSession
    <2>4. ~switched => Changing = {o} /\ Reading = {} /\ ~isApiMode
      BY <2>1, <2>3, AloneChanging
    <2> HIDE DEF a
    <2>5. CASE CanHydrate(a)
      <3>1. Changing' = Changing \ {o} /\ (~switched' => ~switched)
        BY <2>1, <2>2, <2>5, HydrateSets
      <3> QED  BY <2>1, <2>2, <2>4, <2>5, <3>1 DEF SessionFits
    <2>6. CASE ~CanHydrate(a)
      <3>1. Ends(o) /\ UNCHANGED switched
        BY <2>1, <2>6 DEF HydrateOrEnd
      <3>2. Reading' = Reading \ {o} /\ Changing' = Changing \ {o}
        BY <2>1, <3>1, EndsSets
      <3> QED  BY <2>1, <2>2, <2>4, <3>1, <3>2 DEF SessionFits
    <2> QED  BY <2>5, <2>6
  <1>8. CASE SessionFails(o)
    <2>1. /\ o \in Running /\ Ends(o) /\ UNCHANGED <<isApiMode, switched>>
          /\ auth' = AfterFailure(op[o]) /\ op[o].kind \in {"boot", "login", "verify"}
          /\ o \in Changing
      <3>1. o \in Running
        BY <1>8 DEF SessionFails
      <3> QED  BY <1>8, <3>1, FailureTyped DEF SessionFails, SetAuth, Basics, Changing,
                                             ChangesSession, metaVars, history
    <2>2. auth'.hydrated \/ auth' = auth
      <3>1. op[o] \in Op
        BY <2>1, RunningTyped
      <3>2. op[o].stored \in Auth \union {None}
        BY <3>1 DEF Op
      <3>3. CASE op[o].kind = "boot"
        BY <2>1, <3>2, <3>3, AuthHydrated DEF AfterFailure
      <3>4. CASE op[o].kind = "login"
        BY <2>1, <3>4 DEF AfterFailure
      <3>5. CASE op[o].kind = "verify"
        BY <2>1, <3>5 DEF AfterFailure, StoreTypeOK, Auth
      <3> QED  BY <2>1, <3>3, <3>4, <3>5
    <2>3. Reading' = Reading \ {o} /\ Changing' = Changing \ {o}
      BY <2>1, EndsSets
    <2>4. ~switched => Changing = {o} /\ Reading = {} /\ ~isApiMode
      BY <2>1, AloneChanging
    <2> QED  BY <2>1, <2>2, <2>3, <2>4 DEF SessionFits
  <1>9. CASE LogoutEnds(o)
    <2>1. /\ o \in Running /\ Ends(o) /\ isApiMode' = FALSE /\ UNCHANGED switched
          /\ auth' = SignedOut /\ o \in Changing
      BY <1>9 DEF LogoutEnds, SetAuth, history, Changing, ChangesSession
    <2>2. Reading' = Reading \ {o} /\ Changing' = Changing \ {o}
      BY <2>1, EndsSets
    <2>3. ~switched => Changing = {o} /\ Reading = {}
      BY <2>1, AloneChanging
    <2> QED  BY <2>1, <2>2, <2>3, AuthHydrated DEF SessionFits
  <1> QED  BY <1>1, <1>2, <1>3, <1>4, <1>5, <1>6, <1>7, <1>8, <1>9 DEF GoesOn

LEMMA SessionStep ==
    ASSUME StoreTypeOK, Basics, SessionFits, [StoreNext]_storeVars
    PROVE  SessionFits'
  <1>1. CASE StartDemo \/ (\E p \in Parts : LocalChange(p)) \/ CreateEvent \/ CookieEnds
             \/ SetupConfirmed \/ UNCHANGED storeVars
    <2>1. UNCHANGED <<auth, isApiMode, switched, op>>
      BY <1>1 DEF StartDemo, LocalChange, CreateEvent, CookieEnds, SetupConfirmed, SameAuth, authVars,
                  metaVars, history, storeVars
    <2>2. Reading' = Reading /\ Changing' = Changing
      BY <2>1 DEF Running, Reading, Changing
    <2> QED  BY <2>1, <2>2, SessionKeeps
  <1>2. CASE ResetDemoData
    <2>1. /\ auth' = NoAuth /\ isApiMode' = FALSE /\ op' = op /\ CanHydrate(auth)
          /\ ~switched' => ~switched /\ Reading = {}
      BY <1>2 DEF ResetDemoData, SetAuth, InViews, CanHydrate
    <2>2. Reading' = Reading /\ Changing' = Changing
      BY <2>1 DEF Running, Reading, Changing
    <2>3. ~switched' => \A q \in Changing : op[q].kind = "logout"
      BY <2>1 DEF SessionFits
    <2> QED  BY <2>1, <2>2, <2>3, AuthHydrated DEF SessionFits
  <1>3. CASE Reload
    <2>1. auth' = NoAuth /\ isApiMode' = FALSE /\ Running' = {}
      BY <1>3 DEF Reload, Running
    <2> QED  BY <2>1 DEF SessionFits, Reading, Changing
  <1> QED  BY <1>1, <1>2, <1>3, SessionOfStarts, SessionOfGoesOn DEF StoreNext

-----------------------------------------------------------------------------
(* What was called saved *)

\* A step that adds nothing saved to the server's data, reads nothing, and leaves the
\* environment as it is where it is the server's.
LEMMA SavedKeeps ==
    ASSUME SavedRead,
           ~tangled' /\ ~switched' => ~tangled /\ ~switched,
           \A u \in Users, p \in Parts : shown' \intersect db'[u][p] \subseteq db[u][p],
           shown' \subseteq shown, Basics', StoreTypeOK',
           \A q \in Reading' : \/ q \in Reading /\ op'[q].got = op[q].got
                               \/ \A p \in Parts : op'[q].got[p] = None,
           isApiMode' /\ ~apiError' /\ Reading' = {} =>
              /\ isApiMode /\ ~apiError /\ Reading = {}
              /\ \A p \in Required : env'[p].from = "server" /\ env'[p].of # None =>
                    /\ env[p].from = "server" /\ env'[p].of = env[p].of
                    /\ env[p].has \subseteq env'[p].has
    PROVE  SavedRead'
  <1> SUFFICES ASSUME ~tangled', ~switched'
               PROVE  /\ \A q \in Reading', p \in Required :
                            op'[q].got[p] # None =>
                               shown' \intersect db'[op'[q].got[p].of][p]
                                  \subseteq op'[q].got[p].has
                      /\ isApiMode' /\ ~apiError' /\ Reading' = {} =>
                            \A p \in Required : env'[p].from = "server" /\ env'[p].of # None =>
                               shown' \intersect db'[env'[p].of][p] \subseteq env'[p].has
    BY DEF SavedRead
  <1>0. Required \subseteq Parts /\ Required' = Required
    BY PartsFacts DEF Required
  <1>1. ASSUME NEW q \in Reading', NEW p \in Required, op'[q].got[p] # None
        PROVE  shown' \intersect db'[op'[q].got[p].of][p] \subseteq op'[q].got[p].has
    <2>1. q \in Reading /\ op'[q].got = op[q].got
      BY <1>0, <1>1
    <2>2. op'[q].got[p].of \in Users
      BY <1>0, <1>1 DEF Basics, OpsFit, OpFits, Reading
    <2>3. shown \intersect db[op[q].got[p].of][p] \subseteq op[q].got[p].has
      BY <1>1, <2>1 DEF SavedRead
    <2> QED  BY <1>0, <2>1, <2>2, <2>3
  <1>2. ASSUME isApiMode', ~apiError', Reading' = {}, NEW p \in Required,
               env'[p].from = "server", env'[p].of # None
        PROVE  shown' \intersect db'[env'[p].of][p] \subseteq env'[p].has
    <2>1. env'[p].of \in Users
      <3>1. env'[p] \in Part
        BY <1>0 DEF StoreTypeOK
      <3> QED  BY <1>2, <3>1 DEF Part
    <2>2. shown \intersect db[env[p].of][p] \subseteq env[p].has
      BY <1>2 DEF SavedRead
    <2> QED  BY <1>0, <1>2, <2>1, <2>2
  <1> QED  BY <1>1, <1>2

\* The same for steps that write nothing and read nothing.
LEMMA SavedSame ==
    ASSUME StoreTypeOK', Basics', SavedRead, UNCHANGED <<db, shown, tangled>>,
           switched => switched',
           \A q \in Reading' : q \in Reading /\ op'[q].got = op[q].got,
           isApiMode' /\ ~apiError' /\ Reading' = {} =>
              /\ isApiMode /\ ~apiError /\ Reading = {}
              /\ \A p \in Required : env'[p].from = "server" /\ env'[p].of # None =>
                    /\ env[p].from = "server" /\ env'[p].of = env[p].of
                    /\ env[p].has \subseteq env'[p].has
    PROVE  SavedRead'
  BY SavedKeeps

LEMMA SavedOfStarts ==
    ASSUME StoreTypeOK, StoreTypeOK', Basics, Basics', SavedRead, NEW o \in Ops, Starts(o)
    PROVE  SavedRead'
  <1>1. ASSUME NEW key \in Keys \union {None}, Refresh(o, key) PROVE SavedRead'
    <2>1. PICK x : Moves(o, x) /\ x.got = [p \in Parts |-> None]
      <3>1. [Idle EXCEPT !.kind = "refresh", !.key = key, !.stage = "reading"].got
              = [p \in Parts |-> None]
        BY DEF Idle
      <3> QED  BY <1>1, <3>1, RefreshMoves
    <2>2. /\ Reading' = Reading \union {o} /\ op'[o].got = [p \in Parts |-> None]
          /\ \A q \in Reading : q # o => op'[q].got = op[q].got
      BY <1>1, <2>1, RefreshKeeps, MovesSets, RunningTyped DEF Reading
    <2>3. /\ UNCHANGED <<db, shown>> /\ (~tangled' => ~tangled) /\ (~switched' => ~switched)
      BY <1>1 DEF Refresh, serverVars
    <2> QED  BY <2>2, <2>3, SavedKeeps
  <1>2. ASSUME ~\E key \in Keys \union {None} : Refresh(o, key) PROVE SavedRead'
    <2>1. UNCHANGED <<db, env, isApiMode, apiError, tangled, shown>> /\ (switched => switched')
      <3>1. CASE \E p \in Parts : OnboardStart(o, p) \/ \E key \in Keys : WriteStart(o, key, p)
        BY <3>1 DEF OnboardStart, WriteStart, Ask, serverVars, metaVars
      <3>2. CASE BootStart(o) \/ VerifyStart(o) \/ LogoutStart(o)
                 \/ \E u \in Users : LoginStart(o, u)
        BY <3>2 DEF BootStart, VerifyStart, LogoutStart, LoginStart, Ask, serverVars, metaVars,
                    history
      <3> QED  BY <1>2, <3>1, <3>2 DEF Starts
    <2>2. /\ \A q \in Reading' : q \in Reading /\ op'[q].got = op[q].got
          /\ Reading' = {} => Reading = {}
      <3>1. CASE op' = op
        BY <3>1 DEF Running, Reading
      <3>2. CASE op' # op
        <4>1. PICK x \in Op : /\ Moves(o, x) /\ x.stage = "asked" /\ o \notin Running
          <5>1. CASE BootStart(o) \/ VerifyStart(o) \/ LogoutStart(o)
                     \/ \E u \in Users : LoginStart(o, u)
            <6>1. PICK r : AsksSession(r) /\ Ask(o, r)
              BY <3>2, <5>1, SessionStarts
            <6> QED  BY <6>1, SessionMoves DEF Ask
          <5>2. ASSUME NEW p \in Parts,
                       OnboardStart(o, p) \/ \E key \in Keys : WriteStart(o, key, p)
                PROVE  \E x \in Op : /\ Moves(o, x) /\ x.stage = "asked" /\ o \notin Running
            BY <5>2, WriteAsks DEF Ask
          <5> QED  BY <1>2, <5>1, <5>2 DEF Starts
        <4>2. o \notin Reading /\ o \notin Reading'
          BY <4>1, MovesSets DEF Reading
        <4> QED  BY <4>1, <4>2, MovesSets, RunningTyped DEF Reading
      <3> QED  BY <3>1, <3>2
    <2> QED  BY <2>1, <2>2, SavedSame
  <1> QED  BY <1>1, <1>2

LEMMA SavedOfReads ==
    ASSUME StoreTypeOK, StoreTypeOK', Basics, Basics', SavedRead, NEW o \in Ops,
           \/ \E p \in Parts : ReadPart(o, p) \/ KeepPart(o, p)
           \/ HydrationFails(o)
           \/ HydrationLands(o)
    PROVE  SavedRead'
  <1>1. ASSUME NEW p \in Parts, ReadPart(o, p) \/ KeepPart(o, p) PROVE SavedRead'
    <2>1. PICK g : Gets(o, p, g)
      BY <1>1, PartGets
    <2>2. /\ Reading' = Reading /\ o \in Reading
          /\ op'[o].got = [op[o].got EXCEPT ![p] = g]
          /\ \A q \in Ops : q # o => op'[q] = op[q]
          /\ op[o].got \in [Parts -> Part \union {None}]
          /\ UNCHANGED <<db, shown, tangled, switched, env, isApiMode, apiError>>
      BY <2>1, GetsKeeps DEF Gets, serverVars, metaVars, history
    <2>3. SUFFICES ASSUME ~tangled, ~switched, NEW q \in Reading, NEW s \in Required,
                          op'[q].got[s] # None
                   PROVE  shown \intersect db[op'[q].got[s].of][s] \subseteq op'[q].got[s].has
      BY <2>2 DEF SavedRead
    <2>4. CASE q = o /\ s = p
      <3>1. op'[q].got[s] = g /\ g = [from |-> "server", of |-> cookie.user,
                                      has |-> db[cookie.user][p]]
        BY <2>1, <2>2, <2>4 DEF Gets
      <3> QED  BY <2>4, <3>1
    <2>5. CASE q # o \/ s # p
      <3>1. q \in Ops /\ s \in Parts
        BY PartsFacts DEF Reading, Running
      <3>2. op'[q].got[s] = op[q].got[s]
        BY <2>2, <2>5, <3>1
      <3> QED  BY <2>3, <3>2 DEF SavedRead
    <2> QED  BY <2>4, <2>5
  <1>2. CASE HydrationFails(o)
    <2>1. /\ o \in Running /\ Ends(o) /\ apiError' = TRUE
          /\ UNCHANGED <<db, shown, tangled, switched>>
      BY <1>2 DEF HydrationFails, At, serverVars, history
    <2>2. \A q \in Reading' : q \in Reading /\ op'[q].got = op[q].got
      BY <2>1, EndsSets DEF Reading
    <2> QED  BY <2>1, <2>2, SavedSame
  <1>3. CASE HydrationLands(o)
    <2>1. /\ o \in Running /\ o \in Reading /\ Ends(o) /\ Afterwards(o, TRUE)
          /\ \A p \in Parts \ Foundation : op[o].got[p] # None
          /\ UNCHANGED <<db, shown, tangled, switched>>
      BY <1>3 DEF HydrationLands, At, serverVars, history, Reading
    <2>2. /\ Reading' = Reading \ {o}
          /\ \A q \in Reading' : q \in Reading /\ op'[q].got = op[q].got
      BY <2>1, EndsSets DEF Reading
    <2>3. \A p \in Required : env'[p] = op[o].got[p] /\ op[o].got[p] # None
      BY <2>1, BundleFacts, PartsFacts DEF Afterwards
    <2> QED  BY <2>1, <2>2, <2>3 DEF SavedRead
  <1> QED  BY <1>1, <1>2, <1>3

LEMMA SavedOfWrites ==
    ASSUME StoreTypeOK, StoreTypeOK', Basics, Basics', SessionFits, SavedRead, NEW o \in Ops,
           ServeWrite(o) \/ WriteAnswered(o) \/ WriteFails(o)
    PROVE  SavedRead'
  <1>1. CASE ServeWrite(o)
    <2>1. /\ Reading' = Reading /\ o \notin Reading /\ o \in Pending
          /\ \A q \in Ops : q # o => op'[q] = op[q]
      BY <1>1, ServeWriteKeeps
    <2>2. /\ UNCHANGED <<env, isApiMode, apiError, shown, tangled, switched>>
          /\ db' = [db EXCEPT ![cookie.user][op[o].part] = @ \union {op[o].write}]
      BY <1>1 DEF ServeWrite, metaVars, history
    <2>3. op[o].write \notin shown
      BY <2>1 DEF Basics, WritesFit
    <2>4. \A u \in Users, p \in Parts :
             db'[u][p] = db[u][p] \/ db'[u][p] = db[u][p] \union {op[o].write}
      <3>1. \A u \in Users : db[u] \in [Parts -> SUBSET Write]
        BY DEF StoreTypeOK
      <3>2. op[o].part \in Parts /\ cookie.user \in Users
        BY <1>1, <2>1 DEF Pending, Basics, OpsFit, OpFits, ServeWrite, StoreTypeOK, Session
      <3> QED  BY <2>2, <3>1, <3>2 DEF StoreTypeOK
    <2>5. \A q \in Reading' : q \in Reading /\ op'[q].got = op[q].got
      BY <2>1 DEF Reading, Running
    <2> QED  BY <2>1, <2>2, <2>3, <2>4, <2>5, SavedKeeps
  <1>2. CASE WriteAnswered(o)
    <2>1. /\ o \in Running /\ auth \in Auth /\ HydrateOrEnd(o, auth) /\ op[o].stage # "reading"
          /\ UNCHANGED <<isApiMode, db>>
      BY <1>2 DEF WriteAnswered, At, StoreTypeOK, serverVars
    <2>2. CASE CanHydrate(auth)
      <3>1. /\ Reading' = Reading \union {o}
            /\ op'[o].got = op[o].got /\ \A p \in Parts : op[o].got[p] = None
            /\ ~tangled' => ~tangled /\ Reading = {}
            /\ ~switched' => ~switched
        BY <2>1, <2>2, HydrateSets
      <3> QED  BY <3>1, PartsFacts DEF SavedRead
    <2>3. CASE ~CanHydrate(auth)
      <3>1. Ends(o) /\ UNCHANGED <<tangled, switched>>
        BY <2>1, <2>3 DEF HydrateOrEnd
      <3>2. Reading' = Reading \ {o}
        BY <2>1, <3>1, EndsSets
      <3>3. ~switched => Reading = {} /\ ~isApiMode
        BY <2>3 DEF SessionFits
      <3> QED  BY <2>1, <3>1, <3>2, <3>3 DEF SavedRead
    <2> QED  BY <2>2, <2>3
  <1>3. CASE WriteFails(o)
    <2>1. /\ o \in Running /\ Ends(o) /\ op[o].stage # "reading"
          /\ UNCHANGED <<db, shown, tangled, switched, isApiMode, apiError>>
      BY <1>3 DEF WriteFails, serverVars
    <2>2. /\ Reading' = Reading
          /\ \A q \in Reading' : q \in Reading /\ op'[q].got = op[q].got
      BY <2>1, EndsSets DEF Reading
    <2>3. \A p \in Required : env'[p].from = "server" => env'[p] = env[p]
      BY <1>3, <2>1, LocalIsEdited, PartsFacts DEF Edited
    <2> QED  BY <2>1, <2>2, <2>3, SavedSame
  <1> QED  BY <1>1, <1>2, <1>3

LEMMA SavedOfSessions ==
    ASSUME StoreTypeOK, StoreTypeOK', Basics, Basics', SessionFits, SavedRead, NEW o \in Ops,
           ServeSession(o) \/ SessionAnswered(o) \/ SessionRefused(o) \/ SessionFails(o)
           \/ LogoutEnds(o)
    PROVE  SavedRead'
  <1>1. CASE ServeSession(o)
    <2>1. /\ Reading' = Reading /\ o \notin Reading
          /\ \A q \in Ops : q # o => op'[q] = op[q]
      BY <1>1, ServeSessionKeeps
    <2>2. UNCHANGED <<db, env, isApiMode, apiError, shown, tangled, switched>>
      BY <1>1 DEF ServeSession, metaVars, history
    <2>3. \A q \in Reading' : q \in Reading /\ op'[q].got = op[q].got
      BY <2>1 DEF Reading, Running
    <2> QED  BY <2>1, <2>2, <2>3, SavedSame
  <1>2. CASE SessionAnswered(o)
    <2> DEFINE a == FromServer(op[o].kind, op[o].answer)
    <2>1. /\ o \in Running /\ HydrateOrEnd(o, a) /\ op[o].stage = "served"
          /\ UNCHANGED <<db, env, isApiMode, shown>>
      BY <1>2 DEF SessionAnswered, At, serverVars
    <2>2. a \in Auth
      <3>1. op[o].answer \in Session \union {None}
        BY <2>1, RunningTyped DEF Op
      <3> QED  BY <3>1, FromServerTyped
    <2> HIDE DEF a
    <2>3. CASE CanHydrate(a)
      <3>1. /\ Reading' = Reading \union {o}
            /\ op'[o].got = op[o].got /\ \A p \in Parts : op[o].got[p] = None
            /\ ~tangled' => ~tangled /\ Reading = {}
            /\ ~switched' => ~switched
        BY <2>1, <2>2, <2>3, HydrateSets
      <3> QED  BY <3>1, PartsFacts DEF SavedRead
    <2>4. CASE ~CanHydrate(a)
      <3>1. Ends(o) /\ UNCHANGED <<tangled, switched, apiError>>
        BY <2>1, <2>4 DEF HydrateOrEnd
      <3>2. /\ Reading' = Reading
            /\ \A q \in Reading' : q \in Reading /\ op'[q].got = op[q].got
        BY <2>1, <3>1, EndsSets DEF Reading
      <3> QED  BY <2>1, <3>1, <3>2, SavedSame
    <2> QED  BY <2>3, <2>4
  <1>3. CASE SessionRefused(o) \/ SessionFails(o) \/ LogoutEnds(o)
    <2>1. /\ o \in Running /\ Ends(o) /\ op[o].stage # "reading"
          /\ UNCHANGED <<db, shown, tangled, switched>>
          /\ isApiMode' = FALSE \/ UNCHANGED <<env, isApiMode, apiError>>
      BY <1>3 DEF SessionRefused, SessionFails, LogoutEnds, At, serverVars, metaVars, history
    <2>2. /\ Reading' = Reading
          /\ \A q \in Reading' : q \in Reading /\ op'[q].got = op[q].got
      BY <2>1, EndsSets DEF Reading
    <2> QED  BY <2>1, <2>2, SavedSame
  <1> QED  BY <1>1, <1>2, <1>3

LEMMA SavedStep ==
    ASSUME StoreTypeOK, StoreTypeOK', Basics, Basics', SessionFits, SavedRead,
           [StoreNext]_storeVars
    PROVE  SavedRead'
  <1>1. CASE StartDemo \/ (\E p \in Parts : LocalChange(p)) \/ CreateEvent \/ CookieEnds
             \/ SetupConfirmed \/ UNCHANGED storeVars
    <2>1. /\ UNCHANGED <<db, shown, tangled, switched, op, isApiMode, apiError>>
          /\ StartDemo => ~isApiMode
          /\ ~(StartDemo \/ (\E p \in Parts : LocalChange(p)) \/ CreateEvent) => env' = env
      BY <1>1 DEF StartDemo, LocalChange, CreateEvent, DemoFallback, CookieEnds, SetupConfirmed, authVars,
                  serverVars, metaVars, history, storeVars
    <2>2. Reading' = Reading
      BY <2>1 DEF Running, Reading
    <2>3. isApiMode => \A p \in Required : env'[p].from = "server" => env'[p] = env[p]
      BY <2>1, LocalIsEdited, PartsFacts DEF Edited
    <2> QED  BY <2>1, <2>2, <2>3, SavedSame
  <1>2. CASE ResetDemoData
    <2>1. /\ isApiMode' = FALSE /\ op' = op /\ UNCHANGED <<db, shown, tangled>>
          /\ ~switched' => ~switched
      BY <1>2 DEF ResetDemoData, serverVars
    <2>2. Reading' = Reading
      BY <2>1 DEF Running, Reading
    <2> QED  BY <2>1, <2>2, SavedSame
  <1>3. CASE Reload
    <2>1. isApiMode' = FALSE /\ Running' = {}
      BY <1>3 DEF Reload, Running
    <2> QED  BY <2>1 DEF SavedRead, Reading
  <1> QED  BY <1>1, <1>2, <1>3, SavedOfStarts, SavedOfReads, SavedOfWrites, SavedOfSessions
           DEF StoreNext, GoesOn

-----------------------------------------------------------------------------
(* Whose data they are *)

LEMMA SameUserKeeps ==
    ASSUME SameUser, UNCHANGED <<allow, auth>>, switched => switched',
           stored' = stored \/ stored' = auth,
           cookie' # None => cookie # None /\ cookie'.user = cookie.user,
           \A q \in Changing' : q \in Changing /\ op'[q] = op[q],
           \A q \in Reading' : \/ q \in Reading /\ op'[q].got = op[q].got
                               \/ \A p \in Parts : op'[q].got[p] = None,
           \A p \in Parts : env'[p].of \in {None, env[p].of}
    PROVE  SameUser'
  <1> SUFFICES ASSUME ~allow', ~switched'
               PROVE  SameUser'
    BY DEF SameUser
  <1>1. ~allow /\ ~switched
    OBVIOUS
  <1>2. cookie' # None =>
           /\ Mine(auth)' /\ Mine(stored)'
           /\ \A q \in Changing' : Mine(op[q].stored)'
           /\ \A q \in Changing' : op'[q].stage = "served" /\ op'[q].kind # "logout" =>
                 op'[q].answer # None /\ op'[q].answer.user = cookie'.user
    BY <1>1 DEF SameUser, Mine
  <1>3. \A q \in Changing' : op'[q].kind = "login" =>
            auth'.user = None /\ (stored' # None => stored'.user = None)
    BY <1>1 DEF SameUser
  <1>4. \A q \in Reading', p \in Parts : op'[q].got[p] # None => op'[q].got[p].of \in {None, auth'.user}
    BY <1>1 DEF SameUser
  <1>5. \A p \in Parts : env'[p].of # None => CanHydrate(auth)' /\ env'[p].of = auth'.user
    BY <1>1 DEF SameUser, CanHydrate
  <1> QED  BY <1>2, <1>3, <1>4, <1>5 DEF SameUser

LEMMA PatchKeepsOwner ==
    ASSUME StoreTypeOK, Basics, NEW o \in Running, Afterwards(o, FALSE) \/ env' = env
    PROVE  \A p \in Parts : env'[p].from = env[p].from /\ env'[p].of = env[p].of
  <1>1. CASE env' = env
    BY <1>1
  <1>2. CASE env' = [env EXCEPT ![op[o].part].has = @ \union {op[o].write}]
             /\ op[o].kind = "write"
    <2> DEFINE p == op[o].part
    <2>1. p \in Parts
      BY <1>2 DEF Basics, OpsFit, OpFits
    <2>2. env[p] \in Part
      BY <2>1 DEF StoreTypeOK
    <2>3. env'[p] = [env[p] EXCEPT !.has = @ \union {op[o].write}]
      BY <1>2, <2>1 DEF StoreTypeOK
    <2>4. env'[p].from = env[p].from /\ env'[p].of = env[p].of
      BY <2>2, <2>3 DEF Part
    <2>5. \A q \in Parts : q # p => env'[q] = env[q]
      BY <1>2, <2>1 DEF StoreTypeOK
    <2> QED  BY <2>4, <2>5
  <1> QED  BY <1>1, <1>2 DEF Afterwards

LEMMA SameUserOfReads ==
    ASSUME StoreTypeOK, Basics, SessionFits, SameUser, NEW o \in Ops,
           \/ \E p \in Parts : ReadPart(o, p) \/ KeepPart(o, p)
           \/ HydrationFails(o)
           \/ HydrationLands(o)
           \/ \E key \in Keys \union {None} : Refresh(o, key)
    PROVE  SameUser'
  <1>1. ASSUME NEW p \in Parts, ReadPart(o, p) \/ KeepPart(o, p) PROVE SameUser'
    <2>1. PICK g : Gets(o, p, g)
      BY <1>1, PartGets
    <2>2. /\ Reading' = Reading /\ Changing' = Changing /\ o \in Reading
          /\ op'[o].got = [op[o].got EXCEPT ![p] = g]
          /\ \A q \in Ops : q # o => op'[q] = op[q]
          /\ op[o].got \in [Parts -> Part \union {None}]
          /\ UNCHANGED <<cookie, allow, env, auth, stored, switched>>
      <3>1. UNCHANGED <<cookie, allow, env, auth, stored, switched>>
        BY <2>1 DEF Gets, serverVars, authVars, history
      <3>2. /\ Reading' = Reading /\ Changing' = Changing /\ o \in Reading
            /\ op'[o].got = [op[o].got EXCEPT ![p] = g]
        BY <2>1, GetsKeeps
      <3>3. /\ \A q \in Ops : q # o => op'[q] = op[q]
            /\ op[o].got \in [Parts -> Part \union {None}]
        BY <2>1, GetsKeeps
      <3> QED  BY <3>1, <3>2, <3>3
    <2>3. SUFFICES ASSUME ~allow, ~switched
                   PROVE  SameUser'
      BY <2>2 DEF SameUser
    <2>4. g.of \in {None, auth.user}
      <3>1. CASE cookie \in Session /\ g.of = cookie.user
        <4>1. CanHydrate(auth)
          BY <2>2, <2>3 DEF SessionFits
        <4>2. auth # None /\ cookie # None /\ Mine(auth)
          BY <2>2, <2>3, <3>1, NoneFacts DEF SameUser, StoreTypeOK
        <4> QED  BY <3>1, <4>1, <4>2 DEF Mine, CanHydrate
      <3>2. CASE g = env[p]
        BY <2>3, <3>2 DEF SameUser
      <3> QED  BY <2>1, <3>1, <3>2 DEF Gets
    <2>5. \A q \in Changing' : q \in Changing /\ op'[q] = op[q]
      BY <2>2 DEF Changing, Reading, Running
    <2>6. ASSUME NEW q \in Reading', NEW s \in Parts, op'[q].got[s] # None
          PROVE  op'[q].got[s].of \in {None, auth.user}
      <3>1. CASE q = o /\ s = p
        BY <2>2, <2>4, <3>1
      <3>2. CASE q # o \/ s # p
        <4>1. q \in Ops
          BY <2>2 DEF Reading, Running
        <4>2. op'[q].got[s] = op[q].got[s]
          BY <2>2, <3>2, <4>1
        <4> QED  BY <2>2, <2>3, <2>6, <4>2 DEF SameUser
      <3> QED  BY <3>1, <3>2
    <2>7. cookie' # None =>
           /\ Mine(auth)' /\ Mine(stored)'
           /\ \A q \in Changing' : Mine(op[q].stored)'
           /\ \A q \in Changing' : op'[q].stage = "served" /\ op'[q].kind # "logout" =>
                 op'[q].answer # None /\ op'[q].answer.user = cookie'.user
      BY <2>2, <2>3, <2>5 DEF SameUser, Mine
    <2>8. \A q \in Changing' : op'[q].kind = "login" =>
              auth'.user = None /\ (stored' # None => stored'.user = None)
      BY <2>2, <2>3, <2>5 DEF SameUser
    <2>9. \A s \in Parts : env'[s].of # None => CanHydrate(auth)' /\ env'[s].of = auth'.user
      BY <2>2, <2>3 DEF SameUser, CanHydrate
    <2> QED  BY <2>2, <2>6, <2>7, <2>8, <2>9 DEF SameUser
  <1>2. CASE HydrationFails(o)
    <2>1. /\ o \in Running /\ Ends(o) /\ Afterwards(o, FALSE)
          /\ UNCHANGED <<cookie, allow, auth, switched>> /\ stored' = auth
      BY <1>2 DEF HydrationFails, At, SameAuth, serverVars, history
    <2>2. /\ \A q \in Changing' : q \in Changing /\ op'[q] = op[q]
          /\ \A q \in Reading' : q \in Reading /\ op'[q].got = op[q].got
      BY <2>1, EndsSets DEF Changing, Reading
    <2>3. \A p \in Parts : env'[p].from = env[p].from /\ env'[p].of = env[p].of
      BY <2>1, PatchKeepsOwner
    <2> QED  BY <2>1, <2>2, <2>3, SameUserKeeps
  <1>3. CASE HydrationLands(o)
    <2>1. /\ o \in Running /\ o \in Reading /\ Ends(o) /\ Afterwards(o, TRUE)
          /\ \A p \in Parts \ Foundation : op[o].got[p] # None
          /\ UNCHANGED <<cookie, allow, auth, switched>> /\ stored' = auth
      BY <1>3 DEF HydrationLands, At, SameAuth, serverVars, history, Reading
    <2>2. SUFFICES ASSUME ~allow, ~switched
                   PROVE  SameUser'
      BY <2>1 DEF SameUser
    <2>3. /\ \A q \in Changing' : q \in Changing /\ op'[q] = op[q]
          /\ \A q \in Reading' : q \in Reading /\ op'[q].got = op[q].got
      BY <2>1, EndsSets DEF Changing, Reading
    <2>4. /\ CanHydrate(auth)
          /\ \A s \in Parts : env'[s].of # None => op[o].got[s] # None /\ env'[s] = op[o].got[s]
      BY <2>1, <2>2, BundleFacts DEF SessionFits, Afterwards
    <2>5. cookie' # None =>
           /\ Mine(auth)' /\ Mine(stored)'
           /\ \A q \in Changing' : Mine(op[q].stored)'
           /\ \A q \in Changing' : op'[q].stage = "served" /\ op'[q].kind # "logout" =>
                 op'[q].answer # None /\ op'[q].answer.user = cookie'.user
      BY <2>1, <2>2, <2>3 DEF SameUser, Mine
    <2>6. \A q \in Changing' : op'[q].kind = "login" =>
              auth'.user = None /\ (stored' # None => stored'.user = None)
      BY <2>1, <2>2, <2>3 DEF SameUser
    <2>7. /\ \A q \in Reading', s \in Parts : op'[q].got[s] # None => op'[q].got[s].of \in {None, auth'.user}
          /\ \A s \in Parts : env'[s].of # None => CanHydrate(auth)' /\ env'[s].of = auth'.user
      BY <2>1, <2>2, <2>3, <2>4 DEF SameUser, CanHydrate
    <2> QED  BY <2>5, <2>6, <2>7 DEF SameUser
  <1>4. ASSUME NEW key \in Keys \union {None}, Refresh(o, key) PROVE SameUser'
    <2>1. PICK x : Moves(o, x) /\ x.got = [p \in Parts |-> None] /\ x.stage = "reading"
      <3>1. LET x == [Idle EXCEPT !.kind = "refresh", !.key = key, !.stage = "reading"]
            IN  x.got = [p \in Parts |-> None] /\ x.stage = "reading"
        BY DEF Idle
      <3> QED  BY <1>4, <3>1, RefreshMoves
    <2>2. /\ \A q \in Changing' : q \in Changing /\ op'[q] = op[q]
          /\ \A q \in Reading' : \/ q \in Reading /\ op'[q].got = op[q].got
                                 \/ \A p \in Parts : op'[q].got[p] = None
      BY <2>1, MovesSets, RunningTyped DEF Changing, Reading
    <2>3. /\ UNCHANGED <<cookie, allow, env, auth>> /\ stored' = auth /\ (~switched' => ~switched)
      BY <1>4 DEF Refresh, SameAuth, serverVars
    <2> QED  BY <2>2, <2>3, SameUserKeeps
  <1> QED  BY <1>1, <1>2, <1>3, <1>4

LEMMA SameUserOfWrites ==
    ASSUME StoreTypeOK, Basics, SessionFits, SameUser, NEW o \in Ops,
           \/ \E key \in Keys, p \in Parts : WriteStart(o, key, p)
           \/ \E p \in Parts : OnboardStart(o, p)
           \/ ServeWrite(o) \/ WriteAnswered(o) \/ WriteFails(o)
    PROVE  SameUser'
  <1>1. ASSUME NEW p \in Parts, OnboardStart(o, p) \/ \E key \in Keys : WriteStart(o, key, p)
        PROVE  SameUser'
    <2>1. PICK x \in Op : /\ Moves(o, x) /\ Ask(o, x) /\ x.kind \in {"onboard", "write"}
                          /\ x.stage = "asked"
      BY <1>1, WriteAsks
    <2>2. o \notin Changing' /\ o \notin Reading'
      BY <2>1, MovesSets DEF ChangesSession
    <2>3. /\ \A q \in Changing' : q \in Changing /\ op'[q] = op[q]
          /\ \A q \in Reading' : q \in Reading /\ op'[q].got = op[q].got
      BY <2>1, <2>2, MovesSets, RunningTyped DEF Changing, Reading
    <2>4. UNCHANGED <<cookie, allow, env, auth>> /\ (stored' = stored \/ stored' = auth)
      BY <1>1 DEF OnboardStart, WriteStart, SameAuth, serverVars, authVars
    <2>5. switched => switched'
      BY <2>1 DEF Ask
    <2> QED  BY <2>3, <2>4, <2>5, SameUserKeeps
  <1>2. CASE ServeWrite(o)
    <2>1. /\ Changing' = Changing /\ Reading' = Reading /\ o \notin Reading /\ o \in Pending
          /\ \A q \in Ops : q # o => op'[q] = op[q]
      BY <1>2, ServeWriteKeeps
    <2>2. UNCHANGED <<cookie, allow, env, auth, stored, switched>>
      BY <1>2 DEF ServeWrite, authVars, history
    <2>3. /\ \A q \in Changing' : q \in Changing /\ op'[q] = op[q]
          /\ \A q \in Reading' : q \in Reading /\ op'[q].got = op[q].got
      BY <2>1 DEF Changing, Reading, Running, Pending, ChangesSession
    <2> QED  BY <2>2, <2>3, SameUserKeeps
  <1>3. CASE WriteAnswered(o)
    <2>1. /\ o \in Running /\ auth \in Auth /\ HydrateOrEnd(o, auth) /\ op[o].stage # "reading"
          /\ UNCHANGED <<cookie, allow, auth>> /\ stored' = auth
          /\ Afterwards(o, FALSE) \/ env' = env
      BY <1>3 DEF WriteAnswered, At, StoreTypeOK, SameAuth, serverVars
    <2>2. \A p \in Parts : env'[p].from = env[p].from /\ env'[p].of = env[p].of
      BY <2>1, PatchKeepsOwner
    <2>3. CASE CanHydrate(auth)
      <3>1. /\ \A q \in Changing' : q \in Changing /\ op'[q] = op[q]
            /\ \A q \in Reading' : \/ q \in Reading /\ op'[q].got = op[q].got
                                   \/ \A p \in Parts : op'[q].got[p] = None
            /\ ~switched' => ~switched
        BY <2>1, <2>3, HydrateSets DEF Changing, Reading
      <3> QED  BY <2>1, <2>2, <3>1, SameUserKeeps
    <2>4. CASE ~CanHydrate(auth)
      <3>1. Ends(o) /\ UNCHANGED switched
        BY <2>1, <2>4 DEF HydrateOrEnd
      <3>2. /\ \A q \in Changing' : q \in Changing /\ op'[q] = op[q]
            /\ \A q \in Reading' : q \in Reading /\ op'[q].got = op[q].got
        BY <2>1, <3>1, EndsSets DEF Changing, Reading
      <3> QED  BY <2>1, <2>2, <3>1, <3>2, SameUserKeeps
    <2> QED  BY <2>3, <2>4
  <1>4. CASE WriteFails(o)
    <2>1. /\ o \in Running /\ Ends(o)
          /\ UNCHANGED <<cookie, allow, auth, switched>> /\ stored' = auth
      BY <1>4 DEF WriteFails, SameAuth, serverVars
    <2>2. /\ \A q \in Changing' : q \in Changing /\ op'[q] = op[q]
          /\ \A q \in Reading' : q \in Reading /\ op'[q].got = op[q].got
      BY <2>1, EndsSets DEF Changing, Reading
    <2>3. \A p \in Parts : env'[p].of \in {None, env[p].of}
      BY <1>4, <2>1, LocalIsEdited DEF Edited
    <2> QED  BY <2>1, <2>2, <2>3, SameUserKeeps
  <1> QED  BY <1>1, <1>2, <1>3, <1>4

LEMMA SameUserOfStarts ==
    ASSUME StoreTypeOK, Basics, SessionFits, SameUser, NEW o \in Ops,
           \/ BootStart(o) \/ VerifyStart(o) \/ LogoutStart(o)
           \/ \E u \in Users : LoginStart(o, u)
    PROVE  SameUser'
  <1>0. allow' = allow
    BY DEF BootStart, VerifyStart, LogoutStart, LoginStart
  <1>1. SUFFICES ASSUME ~allow, ~switched'
                 PROVE  SameUser'
    BY <1>0, Zenon DEF SameUser
  <1>2. PICK r : AsksSession(r) /\ Ask(o, r) /\ (LoginStart(o, r.user) \/ r.kind # "login")
    <2>1. ASSUME NEW u \in Users, LoginStart(o, u)
          PROVE  LET r == [Idle EXCEPT !.kind = "login", !.user = u]
                 IN  AsksSession(r) /\ Ask(o, r) /\ LoginStart(o, r.user)
      BY <2>1 DEF LoginStart, AsksSession, Idle
    <2>2. CASE BootStart(o)
      <3>1. LET r == [Idle EXCEPT !.kind = "boot", !.stored = stored]
            IN  AsksSession(r) /\ Ask(o, r) /\ r.kind # "login"
        BY <1>1, <2>2 DEF BootStart, AsksSession, Idle
      <3> QED  BY <3>1
    <2>3. CASE VerifyStart(o)
      <3>1. LET r == [Idle EXCEPT !.kind = "verify"]
            IN  AsksSession(r) /\ Ask(o, r) /\ r.kind # "login"
        BY <2>3 DEF VerifyStart, AsksSession, Idle
      <3> QED  BY <3>1
    <2>4. CASE LogoutStart(o)
      <3>1. LET r == [Idle EXCEPT !.kind = "logout"]
            IN  AsksSession(r) /\ Ask(o, r) /\ r.kind # "login"
        BY <2>4 DEF LogoutStart, AsksSession, Idle
      <3> QED  BY <3>1
    <2> QED  BY <2>1, <2>2, <2>3, <2>4
  <1>3. /\ UNCHANGED <<writes, cookie, env, auth>> /\ (stored' = stored \/ stored' = auth)
        /\ r.kind = "login" => auth.user = None /\ stored' = auth
    BY <1>1, <1>2 DEF BootStart, VerifyStart, LogoutStart, LoginStart, AtLogin, SameAuth,
                      serverVars, authVars
  <1>4. /\ Reading' = Reading /\ Changing' = Changing \union {o} /\ op'[o] = r
        /\ ~switched /\ Reading = {} /\ Changing = {} /\ r.stage = "asked"
    BY <1>1, <1>2, <1>3, SessionAsksKeeps
  <1>5. r.stored = None \/ r.stored = stored
    BY <1>2 DEF AsksSession, Idle
  <1>6. cookie # None =>
           /\ Mine(auth)' /\ Mine(stored)'
           /\ \A q \in Changing' : Mine(op[q].stored)'
    BY <1>1, <1>3, <1>4, <1>5 DEF SameUser, Mine
  <1>7. \A p \in Parts : env'[p].of # None => CanHydrate(auth)' /\ env'[p].of = auth'.user
    BY <1>1, <1>3, <1>4 DEF SameUser, CanHydrate
  <1>8. \A q \in Changing' : q = o /\ op'[q] = r
    BY <1>4
  <1> QED  BY <1>3, <1>4, <1>6, <1>7, <1>8 DEF SameUser

LEMMA SameUserOfServe ==
    ASSUME StoreTypeOK, Basics, SessionFits, SameUser, NEW o \in Ops, ServeSession(o)
    PROVE  SameUser'
  <1>1. /\ Reading' = Reading /\ Changing' = Changing /\ o \in Changing
        /\ op'[o].kind = op[o].kind /\ op'[o].stored = op[o].stored /\ op'[o].answer = cookie'
        /\ cookie' = Served(op[o].kind, op[o].user) /\ op[o].stage = "asked"
        /\ op[o].kind = "login" => op[o].user \in Users
        /\ UNCHANGED <<allow, env, auth, stored, switched>>
        /\ op[o].kind = "verify" => cookie # None
    BY ServeSessionKeeps DEF ServeSession, authVars, history
  <1>2. SUFFICES ASSUME ~allow, ~switched
                 PROVE  SameUser'
    BY <1>1 DEF SameUser
  <1>3. Changing = {o} /\ Reading = {}
    BY <1>1, <1>2, AloneChanging
  <1>4. /\ op[o].kind \in {"boot", "login", "verify", "logout"}
        /\ op[o].kind # "boot" => op[o].stored = None
    BY <1>1 DEF Changing, ChangesSession, Basics, OpsFit, OpFits
  <1>5. cookie' # None => Mine(auth)' /\ Mine(stored)' /\ Mine(op[o].stored)'
    <2>1. CASE op[o].kind = "boot"
      BY <1>1, <1>2, <2>1 DEF Served, SameUser, Mine
    <2>2. CASE op[o].kind = "verify"
      <3>1. cookie' = [cookie EXCEPT !.full = TRUE] /\ cookie \in Session
        BY <1>1, <2>2 DEF Served, StoreTypeOK
      <3>2. cookie'.user = cookie.user
        BY <3>1 DEF Session
      <3> QED  BY <1>1, <1>2, <1>4, <2>2, <3>2 DEF SameUser, Mine
    <2>3. CASE op[o].kind = "login"
      BY <1>1, <1>2, <1>4, <2>3 DEF SameUser, Mine
    <2>4. CASE op[o].kind = "logout"
      BY <1>1, <2>4 DEF Served
    <2> QED  BY <1>4, <2>1, <2>2, <2>3, <2>4
  <1>6. \A p \in Parts : env'[p].of # None => CanHydrate(auth)' /\ env'[p].of = auth'.user
    BY <1>1, <1>2 DEF SameUser, CanHydrate
  <1>7. op'[o].kind = "login" => auth'.user = None /\ (stored' # None => stored'.user = None)
    BY <1>1, <1>2 DEF SameUser
  <1> QED  BY <1>1, <1>3, <1>5, <1>6, <1>7 DEF SameUser

\* An outcome of an operation on the session, which was alone and nobody in the views: the
\* tab takes a for the session, and what reads has read nothing yet.
LEMMA SameUserOfOutcome ==
    ASSUME Basics, SessionFits, SameUser, NEW o \in Changing, op[o].kind # "logout",
           NEW a, auth' = a, stored' = a, UNCHANGED <<cookie, allow, env>>, switched => switched',
           Changing' = Changing \ {o},
           \A q \in Reading' : q \in Reading \/ \A p \in Parts : op'[q].got[p] = None,
           ~allow /\ ~switched /\ cookie # None => Mine(a)
    PROVE  SameUser'
  <1>1. SUFFICES ASSUME ~allow, ~switched, ~switched'
                 PROVE  SameUser'
    BY DEF SameUser
  <1>2. Changing' = {} /\ Reading = {} /\ ~CanHydrate(auth)
    BY <1>1, AloneChanging
  <1>3. \A p \in Parts : env'[p].of = None
    BY <1>1, <1>2 DEF SameUser
  <1>4. cookie' # None => Mine(auth)' /\ Mine(stored)'
    BY <1>1 DEF Mine
  <1> QED  BY <1>2, <1>3, <1>4 DEF SameUser

LEMMA SameUserOfAnswers ==
    ASSUME StoreTypeOK, Basics, SessionFits, SameUser, NEW o \in Ops,
           SessionAnswered(o) \/ SessionRefused(o) \/ SessionFails(o) \/ LogoutEnds(o)
    PROVE  SameUser'
  <1>1. CASE SessionAnswered(o)
    <2> DEFINE a == FromServer(op[o].kind, op[o].answer)
    <2>1. /\ o \in Running /\ HydrateOrEnd(o, a) /\ op[o].stage = "served"
          /\ op[o].kind \in {"boot", "login", "verify"}
          /\ auth' = a /\ stored' = a /\ UNCHANGED <<cookie, allow, env>>
      BY <1>1 DEF SessionAnswered, At, SetAuth, serverVars
    <2>2. o \in Changing /\ op[o].answer \in Session \union {None}
      BY <2>1, RunningTyped DEF Changing, ChangesSession, Op
    <2>3. a \in Auth
      BY <2>2, FromServerTyped
    <2>4. ASSUME ~allow, ~switched, cookie # None PROVE Mine(a)
      <3>1. op[o].answer # None /\ op[o].answer.user = cookie.user
        BY <2>1, <2>2, <2>4 DEF SameUser
      <3>2. a.user \in {None, cookie.user}
        BY <3>1 DEF FromServer, SignedOut, NoAuth
      <3> QED  BY <3>2 DEF Mine
    <2> HIDE DEF a
    <2>5. CASE CanHydrate(a)
      <3>1. /\ Changing' = Changing \ {o} /\ (~switched' => ~switched)
            /\ \A q \in Reading' : q \in Reading \/ \A p \in Parts : op'[q].got[p] = None
        BY <2>1, <2>3, <2>5, HydrateSets
      <3> QED  BY <2>1, <2>2, <2>4, <3>1, SameUserOfOutcome
    <2>6. CASE ~CanHydrate(a)
      <3>1. Ends(o) /\ UNCHANGED switched
        BY <2>1, <2>6 DEF HydrateOrEnd
      <3>2. Changing' = Changing \ {o} /\ Reading' \subseteq Reading
        BY <2>1, <3>1, EndsSets
      <3> QED  BY <2>1, <2>2, <2>4, <3>1, <3>2, SameUserOfOutcome
    <2> QED  BY <2>5, <2>6
  <1>2. CASE SessionRefused(o)
    <2>1. /\ o \in Running /\ Ends(o) /\ UNCHANGED <<cookie, allow, env, auth, switched>>
          /\ stored' = auth
      BY <1>2 DEF SessionRefused, At, SameAuth, serverVars, history
    <2>2. /\ \A q \in Changing' : q \in Changing /\ op'[q] = op[q]
          /\ \A q \in Reading' : q \in Reading /\ op'[q].got = op[q].got
      BY <2>1, EndsSets DEF Changing, Reading
    <2> QED  BY <2>1, <2>2, SameUserKeeps
  <1>3. CASE SessionFails(o)
    <2> DEFINE a == AfterFailure(op[o])
    <2>1. o \in Running /\ Ends(o) /\ UNCHANGED <<cookie, allow, env, switched>>
      BY <1>3 DEF SessionFails, serverVars, history
    <2>2. /\ auth' = a /\ stored' = a /\ a \in Auth
          /\ op[o].kind \in {"boot", "login", "verify"} /\ op[o].stage # "reading"
      BY <1>3, <2>1, FailureTyped DEF SetAuth, Basics
    <2>3. o \in Changing
      BY <2>1, <2>2 DEF Changing, ChangesSession
    <2>4. ASSUME ~allow, ~switched, cookie # None PROVE Mine(a)
      <3>1. Mine(auth) /\ Mine(op[o].stored) /\ auth \in Auth
        BY <2>3, <2>4 DEF SameUser, StoreTypeOK
      <3>2. auth # None
        BY <3>1, NoneFacts
      <3>3. CASE op[o].kind = "boot"
        <4>1. op[o].stored \in Auth \union {None}
          BY <2>1, RunningTyped DEF Op
        <4>2. a = Restored(op[o].stored)
          BY <3>3 DEF AfterFailure
        <4>3. a.user \in {None, cookie.user}
          BY <3>1, <3>2, <4>1, <4>2 DEF Restored, Auth, Mine
        <4> QED  BY <4>3 DEF Mine
      <3>4. CASE op[o].kind = "login"
        BY <2>4, <3>1, <3>4 DEF AfterFailure
      <3>5. CASE op[o].kind = "verify"
        <4>1. a = auth \/ a = [auth EXCEPT !.hydrated = TRUE, !.full = TRUE, !.asks = FALSE]
          BY <3>5 DEF AfterFailure
        <4>2. a.user \in {None, cookie.user}
          BY <3>1, <3>2, <4>1 DEF Auth, Mine
        <4> QED  BY <4>2 DEF Mine
      <3> QED  BY <2>2, <3>3, <3>4, <3>5
    <2> HIDE DEF a
    <2>5. Changing' = Changing \ {o} /\ Reading' \subseteq Reading
      BY <2>1, EndsSets
    <2> QED  BY <2>1, <2>2, <2>3, <2>4, <2>5, SameUserOfOutcome
  <1>4. CASE LogoutEnds(o)
    <2>1. /\ o \in Running /\ Ends(o) /\ UNCHANGED <<cookie, allow, switched>>
          /\ auth' = SignedOut /\ stored' = SignedOut /\ env' = Sample("mock") /\ o \in Changing
      BY <1>4 DEF LogoutEnds, SetAuth, serverVars, history, Changing, ChangesSession
    <2>2. SUFFICES ASSUME ~allow, ~switched
                   PROVE  SameUser'
      BY <2>1 DEF SameUser
    <2>3. Changing' = {} /\ Reading' = {}
      BY <2>1, <2>2, AloneChanging, EndsSets
    <2>4. SignedOut.user = None /\ \A p \in Parts : env'[p].of = None
      BY <2>1 DEF SignedOut, NoAuth, Sample
    <2>5. Mine(auth)' /\ Mine(stored)'
      BY <2>1, <2>4 DEF Mine
    <2> QED  BY <2>3, <2>4, <2>5 DEF SameUser
  <1> QED  BY <1>1, <1>2, <1>3, <1>4

LEMMA SameUserOfOutside ==
    ASSUME StoreTypeOK, Basics, SessionFits, SameUser, Outside \/ UNCHANGED storeVars
    PROVE  SameUser'
  <1>1. CASE StartDemo \/ (\E p \in Parts : LocalChange(p)) \/ CreateEvent
    <2>1. /\ UNCHANGED <<allow, auth, cookie, switched, op>> /\ stored' = auth
          /\ StartDemo => env' = Sample("mock")
      BY <1>1 DEF StartDemo, LocalChange, CreateEvent, SameAuth, serverVars, history
    <2>2. \A p \in Parts : env'[p].of \in {None, env[p].of}
      BY <1>1, <2>1, LocalIsEdited DEF Edited, Sample
    <2>3. Reading' = Reading /\ Changing' = Changing
      BY <2>1 DEF Running, Reading, Changing
    <2> QED  BY <2>1, <2>2, <2>3, SameUserKeeps
  <1>2. CASE CookieEnds \/ SetupConfirmed \/ UNCHANGED storeVars
    <2>1. UNCHANGED <<allow, env, auth, stored, switched, op>>
      BY <1>2 DEF CookieEnds, SetupConfirmed, authVars, history, storeVars
    <2>2. cookie' # None => cookie # None /\ cookie'.user = cookie.user
      BY <1>2 DEF CookieEnds, SetupConfirmed, storeVars, StoreTypeOK, Session
    <2>3. Reading' = Reading /\ Changing' = Changing
      BY <2>1 DEF Running, Reading, Changing
    <2> QED  BY <2>1, <2>2, <2>3, SameUserKeeps
  <1>3. CASE ResetDemoData
    <2>1. /\ auth' = NoAuth /\ stored' = NoAuth /\ UNCHANGED <<op, cookie, allow>> /\ CanHydrate(auth)
          /\ ~switched' => ~switched /\ Reading = {}
          /\ env' = Sample("mock")
      BY <1>3 DEF ResetDemoData, SetAuth, InViews, CanHydrate, serverVars
    <2>2. Reading' = Reading /\ Changing' = Changing
      BY <2>1 DEF Running, Reading, Changing
    <2>3. ~switched' => \A q \in Changing : op[q].kind = "logout"
      BY <2>1 DEF SessionFits
    <2>4. NoAuth.user = None /\ \A p \in Parts : env'[p].of = None
      BY <2>1 DEF NoAuth, Sample
    <2>5. Mine(auth)' /\ Mine(stored)'
      BY <2>1, <2>4 DEF Mine
    <2>6. ~allow /\ ~switched /\ cookie # None => \A q \in Changing' : Mine(op[q].stored)'
      BY <2>1, <2>2 DEF SameUser, Mine
    <2> QED  BY <2>1, <2>2, <2>3, <2>4, <2>5, <2>6 DEF SameUser
  <1>4. CASE Reload
    <2>1. /\ auth' = NoAuth /\ Running' = {} /\ UNCHANGED <<stored, cookie, allow>>
          /\ ~switched' => ~switched
          /\ env' = Sample("mock")
      BY <1>4 DEF Reload, Running, serverVars
    <2>2. Reading' = {} /\ Changing' = {}
      BY <2>1 DEF Reading, Changing
    <2>3. NoAuth.user = None /\ \A p \in Parts : env'[p].of = None
      BY <2>1 DEF NoAuth, Sample
    <2>4. ~allow /\ ~switched /\ cookie # None => Mine(auth)' /\ Mine(stored)'
      BY <2>1, <2>3 DEF SameUser, Mine
    <2> QED  BY <2>1, <2>2, <2>3, <2>4 DEF SameUser
  <1> QED  BY <1>1, <1>2, <1>3, <1>4 DEF Outside

LEMMA SameUserStep ==
    ASSUME StoreTypeOK, Basics, SessionFits, SameUser, [StoreNext]_storeVars
    PROVE  SameUser'
  BY SameUserOfReads, SameUserOfWrites, SameUserOfStarts, SameUserOfServe, SameUserOfAnswers,
     SameUserOfOutside DEF StoreNext, Starts, GoesOn, Outside

-----------------------------------------------------------------------------
(* Indicators *)

LEMMA OnesIndicators ==
    ASSUME isHydrating' => Reading' # {},
           \A k \in loading' : \/ \E q \in Running' : k \in Indicators(q)'
                               \/ k = "hydrate" /\ Reading' # {}
    PROVE  IndicatorsEnd'
  <1> DEFINE S == {Indicators(q)' : q \in Running'}
             H == IF Reading' = {} THEN {} ELSE {"hydrate"}
  <1>1. ASSUME NEW k \in loading'
        PROVE  k \in UNION S \/ k \in H
    <2>1. ASSUME NEW q \in Running', k \in Indicators(q)'
          PROVE  k \in UNION S
      <3>1. Indicators(q)' \in S
        BY Zenon
      <3> QED  BY <2>1, <3>1, Zenon
    <2>2. CASE k = "hydrate" /\ Reading' # {}
      BY <2>2, Zenon
    <2> HIDE DEF S, H
    <2> QED  BY <2>1, <2>2
  <1>2. loading' \subseteq (UNION S) \union H
    <2> HIDE DEF S, H
    <2> QED  BY <1>1
  <1> QED  BY <1>2 DEF IndicatorsEnd

LEMMA IndicatorOwner ==
    ASSUME IndicatorsEnd, NEW k \in loading
    PROVE  (\E q \in Running : k \in Indicators(q)) \/ (k = "hydrate" /\ Reading # {})
  <1> DEFINE S == {Indicators(q) : q \in Running}
             H == IF Reading = {} THEN {} ELSE {"hydrate"}
  <1>1. loading \subseteq (UNION S) \union H
    BY Zenon DEF IndicatorsEnd
  <1>2. ASSUME k \in UNION S
        PROVE  \E q \in Running : k \in Indicators(q)
    BY <1>2, Zenon
  <1>3. k \in H => k = "hydrate" /\ Reading # {}
    OBVIOUS
  <1>4. k \in UNION S \/ k \in H
    <2> HIDE DEF S, H
    <2> QED  BY <1>1
  <1> QED  BY <1>2, <1>3, <1>4

\* The indicators of operations that go on are still theirs.
LEMMA IndicatorsKeep ==
    ASSUME IndicatorsEnd, loading' \subseteq loading, isHydrating' => isHydrating,
           \A q \in Running : q \in Running' /\ op'[q].key = op[q].key,
           Reading \subseteq Reading'
    PROVE  IndicatorsEnd'
  <1>1. \A q \in Running : Indicators(q)' = Indicators(q)
    BY DEF Indicators
  <1> QED  BY <1>1 DEF IndicatorsEnd

\* An operation that ends takes its indicators with it.
LEMMA IndicatorsOfEnd ==
    ASSUME StoreTypeOK, IndicatorsEnd, NEW o \in Running, Ends(o),
           loading' \subseteq loading \ Indicators(o), isHydrating' => isHydrating,
           o \in Reading /\ Reading = {o} => ~isHydrating' /\ "hydrate" \notin loading'
    PROVE  IndicatorsEnd'
  <1>1. /\ Running' = Running \ {o} /\ Reading' = Reading \ {o}
        /\ \A q \in Running' : op'[q] = op[q]
    BY EndsSets
  <1>2. \A q \in Running' : Indicators(q)' = Indicators(q)
    BY <1>1 DEF Indicators
  <1>3. Reading' = {} => Reading = {} \/ (o \in Reading /\ Reading = {o})
    BY <1>1
  <1>4. isHydrating' => Reading' # {}
    BY <1>3 DEF IndicatorsEnd
  <1>5. ASSUME NEW k \in loading'
        PROVE  (\E q \in Running' : k \in Indicators(q)') \/ (k = "hydrate" /\ Reading' # {})
    <2>1. k \in loading /\ k \notin Indicators(o)
      OBVIOUS
    <2>2. CASE \E q \in Running : k \in Indicators(q)
      BY <1>1, <1>2, <2>1, <2>2
    <2>3. CASE k = "hydrate" /\ Reading # {}
      BY <1>3, <2>3
    <2> QED  BY <2>1, <2>2, <2>3, IndicatorOwner
  <1> QED  BY <1>4, <1>5, OnesIndicators

\* One that begins, or begins to hydrate, shows its own.
LEMMA IndicatorsOfMove ==
    ASSUME StoreTypeOK, IndicatorsEnd, NEW o, NEW x, Moves(o, x), x # None,
           o \in Running => x.key = op[o].key,
           o \in Reading => x.stage = "reading",
           loading' \subseteq loading \union (IF x.key = None THEN {} ELSE {x.key})
                                 \union (IF x.stage = "reading" THEN {"hydrate"} ELSE {}),
           isHydrating' => isHydrating \/ x.stage = "reading"
    PROVE  IndicatorsEnd'
  <1>1. /\ Running \union {o} = Running' /\ op'[o] = x
        /\ x.stage = "reading" => o \in Reading'
        /\ Reading \subseteq Reading'
    BY MovesSets
  <1>2. ASSUME NEW q \in Running PROVE Indicators(q) = Indicators(q)'
    <2>1. op'[q].key = op[q].key
      BY <1>1, MovesSets, RunningTyped
    <2> QED  BY <2>1 DEF Indicators
  <1>3. Indicators(o)' = IF x.key = None THEN {} ELSE {x.key}
    BY <1>1 DEF Indicators
  <1>4. isHydrating' => Reading' # {}
    BY <1>1 DEF IndicatorsEnd
  <1>5. ASSUME NEW k \in loading'
        PROVE  (\E q \in Running' : k \in Indicators(q)') \/ (k = "hydrate" /\ Reading' # {})
    <2>1. CASE \E q \in Running : k \in Indicators(q)
      BY <1>1, <1>2, <2>1
    <2>2. CASE k = "hydrate" /\ Reading # {}
      BY <1>1, <2>2
    <2>3. CASE k \notin loading
      BY <1>1, <1>3, <2>3
    <2> QED  BY <2>1, <2>2, <2>3, IndicatorOwner
  <1> QED  BY <1>4, <1>5, OnesIndicators

LEMMA IndicatorsOfHydrate ==
    ASSUME StoreTypeOK, Basics, IndicatorsEnd, NEW o \in Running, NEW a \in Auth,
           HydrateOrEnd(o, a), op[o].stage = "served"
    PROVE  IndicatorsEnd'
  <1>1. o \notin Reading
    BY DEF Reading
  <1>2. CASE CanHydrate(a)
    <2> DEFINE x == [op[o] EXCEPT !.stage = "reading"]
    <2>1. Moves(o, x) /\ op[o] \in Op
      BY <1>2, HydrateMoves, RunningTyped DEF Basics
    <2>2. x \in Op /\ x.key = op[o].key /\ x.stage = "reading"
      BY <2>1 DEF Op
    <2> HIDE DEF x
    <2>3. loading' = loading \union {"hydrate"} /\ x # None
      BY <1>2, <2>2, NoneFacts DEF HydrateOrEnd
    <2> QED  BY <1>1, <2>1, <2>2, <2>3, IndicatorsOfMove
  <1>3. CASE ~CanHydrate(a)
    <2>1. Ends(o) /\ loading' = loading \ Indicators(o) /\ UNCHANGED isHydrating
      BY <1>3 DEF HydrateOrEnd
    <2> QED  BY <1>1, <2>1, IndicatorsOfEnd
  <1> QED  BY <1>2, <1>3

LEMMA IndicatorsStep ==
    ASSUME StoreTypeOK, Basics, IndicatorsEnd, [StoreNext]_storeVars
    PROVE  IndicatorsEnd'
  <1>1. ASSUME NEW o \in Ops, Starts(o) PROVE IndicatorsEnd'
    <2>1. ASSUME NEW key \in Keys \union {None}, Refresh(o, key) PROVE IndicatorsEnd'
      <3> DEFINE x == [Idle EXCEPT !.kind = "refresh", !.key = key, !.stage = "reading"]
      <3>1. Moves(o, x) /\ x.key = key /\ x.stage = "reading" /\ x \in Op
        <4>1. x \in Op
          BY DEF Idle, Op, Kind
        <4> QED  BY <2>1, <4>1, RefreshMoves DEF Idle
      <3> HIDE DEF x
      <3>2. /\ loading' = loading \union {"hydrate"} \union (IF key = None THEN {} ELSE {key})
            /\ o \notin Running /\ x # None /\ o \notin Reading
        BY <2>1, <3>1, NoneFacts DEF Refresh, Reading
      <3> QED  BY <3>1, <3>2, IndicatorsOfMove
    <2>2. ASSUME NEW p \in Parts, OnboardStart(o, p) \/ \E key \in Keys : WriteStart(o, key, p)
          PROVE  IndicatorsEnd'
      <3>1. PICK x \in Op :
              /\ Moves(o, x) /\ Ask(o, x) /\ x.stage = "asked"
              /\ IF x.kind = "write" THEN x.key \in Keys /\ loading' = loading \union {x.key}
                                     ELSE x.key = None /\ loading' = loading
              /\ UNCHANGED isHydrating
        BY <2>2, WriteAsks
      <3>2. o \notin Running /\ o \notin Reading /\ x # None
        BY <3>1, NoneFacts DEF Ask, Reading
      <3>3. loading' \subseteq loading \union (IF x.key = None THEN {} ELSE {x.key})
        BY <3>1, NoneFacts
      <3> QED  BY <3>1, <3>2, <3>3, IndicatorsOfMove
    <2>3. CASE BootStart(o) \/ VerifyStart(o) \/ LogoutStart(o) \/ \E u \in Users : LoginStart(o, u)
      <3>1. UNCHANGED <<loading, isHydrating, writes>>
        BY <2>3 DEF BootStart, VerifyStart, LogoutStart, LoginStart, metaVars
      <3>2. CASE op' = op
        BY <3>1, <3>2, IndicatorsKeep DEF Running, Reading
      <3>3. CASE op' # op
        <4>1. PICK r : AsksSession(r) /\ Ask(o, r)
          BY <2>3, <3>3, SessionStarts
        <4>2. /\ \A q \in Ops : q # o => op'[q] = op[q]
              /\ \A q : q # o => (q \in Running' <=> q \in Running)
              /\ Reading' = Reading /\ o \notin Running
          BY <3>1, <4>1, SessionAsksKeeps
        <4> QED  BY <3>1, <4>2, IndicatorsKeep DEF Running
      <3> QED  BY <3>2, <3>3
    <2> QED  BY <1>1, <2>1, <2>2, <2>3 DEF Starts
  <1>2. ASSUME NEW o \in Ops, GoesOn(o) PROVE IndicatorsEnd'
    <2>1. ASSUME (\E p \in Parts : ReadPart(o, p) \/ KeepPart(o, p)) \/ ServeWrite(o) \/ ServeSession(o)
          PROVE  IndicatorsEnd'
      <3>1. /\ Running' = Running /\ Reading' = Reading
            /\ \A q \in Ops : op'[q].key = op[q].key
        BY <2>1, PartGets, GetsKeeps, ServeWriteKeeps, ServeSessionKeeps
      <3>2. UNCHANGED <<loading, isHydrating>>
        BY <2>1 DEF ReadPart, KeepPart, ServeWrite, ServeSession, metaVars
      <3> QED  BY <3>1, <3>2, IndicatorsKeep DEF Running
    <2>2. CASE HydrationFails(o) \/ HydrationLands(o)
      <3>1. /\ o \in Running /\ Ends(o) /\ isHydrating' = FALSE
            /\ loading' = loading \ ({"hydrate"} \union Indicators(o))
        BY <2>2 DEF HydrationFails, HydrationLands, At
      <3> QED  BY <3>1, IndicatorsOfEnd
    <2>3. CASE WriteFails(o)
      <3>1. /\ o \in Running /\ Ends(o) /\ UNCHANGED isHydrating
            /\ loading' = loading \ Indicators(o) /\ o \notin Reading
        BY <2>3 DEF WriteFails, Reading
      <3> QED  BY <3>1, IndicatorsOfEnd
    <2>4. CASE SessionRefused(o) \/ SessionFails(o) \/ LogoutEnds(o)
      <3>1. /\ o \in Running /\ Ends(o) /\ UNCHANGED <<isHydrating, loading>>
            /\ op[o].kind \in {"boot", "login", "verify", "logout"} /\ o \notin Reading
        BY <2>4 DEF SessionRefused, SessionFails, LogoutEnds, At, metaVars, Reading
      <3>2. Indicators(o) = {}
        BY <3>1 DEF Indicators, Basics, OpsFit, OpFits
      <3> QED  BY <3>1, <3>2, IndicatorsOfEnd
    <2>5. CASE WriteAnswered(o)
      BY <2>5, IndicatorsOfHydrate DEF WriteAnswered, At, StoreTypeOK
    <2>6. CASE SessionAnswered(o)
      <3> DEFINE a == FromServer(op[o].kind, op[o].answer)
      <3>1. o \in Running /\ HydrateOrEnd(o, a) /\ op[o].stage = "served"
        BY <2>6 DEF SessionAnswered, At
      <3>2. op[o].answer \in Session \union {None}
        BY <3>1, RunningTyped DEF Op
      <3>3. a \in Auth
        BY <3>2, FromServerTyped
      <3> HIDE DEF a
      <3> QED  BY <3>1, <3>3, IndicatorsOfHydrate
    <2> QED  BY <1>2, <2>1, <2>2, <2>3, <2>4, <2>5, <2>6 DEF GoesOn
  <1>3. CASE StartDemo \/ (\E p \in Parts : LocalChange(p)) \/ CreateEvent \/ CookieEnds
             \/ SetupConfirmed \/ UNCHANGED storeVars
    <2>1. UNCHANGED <<op, loading, isHydrating>>
      BY <1>3 DEF StartDemo, LocalChange, CreateEvent, CookieEnds, SetupConfirmed, metaVars, storeVars
    <2> QED  BY <2>1, IndicatorsKeep DEF Running, Reading
  <1>4. CASE ResetDemoData \/ Reload
    BY <1>4 DEF ResetDemoData, Reload, IndicatorsEnd
  <1> QED  BY <1>1, <1>2, <1>3, <1>4 DEF StoreNext

-----------------------------------------------------------------------------
(* API mode *)

LEMMA ApiModeStep ==
    ASSUME StoreTypeOK, Basics, ApiModeShowsServerData, [StoreNext]_storeVars
    PROVE  ApiModeShowsServerData'
  <1>1. ASSUME isApiMode' => isApiMode,
               isApiMode => \A p \in Parts : env'[p].from \in {env[p].from, "unguarded"}
        PROVE  ApiModeShowsServerData'
    BY <1>1, PartsFacts DEF ApiModeShowsServerData
  <1>2. ASSUME NEW o \in Ops, Starts(o) PROVE ApiModeShowsServerData'
    <2>1. UNCHANGED <<isApiMode, env>>
      BY <1>2 DEF Starts, Refresh, WriteStart, OnboardStart, BootStart, VerifyStart, LogoutStart,
                  LoginStart, Ask, metaVars, history
    <2> QED  BY <1>1, <2>1
  <1>3. ASSUME NEW o \in Ops, GoesOn(o) PROVE ApiModeShowsServerData'
    <2>1. CASE HydrationLands(o)
      <3>1. /\ o \in Running
            /\ \A p \in Required : env'[p] = op[o].got[p] /\ op[o].got[p] # None
        BY <2>1, BundleFacts, PartsFacts DEF HydrationLands, At, Afterwards
      <3> QED  BY <3>1 DEF ApiModeShowsServerData, Basics, OpsFit, OpFits
    <2>2. CASE HydrationFails(o)
      <3>1. o \in Running /\ Afterwards(o, FALSE) /\ UNCHANGED isApiMode
        BY <2>2 DEF HydrationFails, At
      <3> QED  BY <1>1, <3>1, PatchKeepsOwner
    <2>3. CASE WriteAnswered(o)
      <3>1. /\ o \in Running /\ (Afterwards(o, FALSE) \/ env' = env)
            /\ UNCHANGED isApiMode
        BY <2>3 DEF WriteAnswered, At
      <3> QED  BY <1>1, <3>1, PatchKeepsOwner
    <2>4. CASE WriteFails(o)
      <3>1. o \in Running /\ UNCHANGED isApiMode
        BY <2>4 DEF WriteFails
      <3> QED  BY <1>1, <2>4, <3>1, LocalIsEdited DEF Edited
    <2>5. CASE LogoutEnds(o)
      BY <2>5 DEF LogoutEnds, ApiModeShowsServerData
    <2>6. CASE (\E p \in Parts : ReadPart(o, p) \/ KeepPart(o, p)) \/ ServeWrite(o) \/ ServeSession(o)
               \/ SessionAnswered(o) \/ SessionRefused(o) \/ SessionFails(o)
      <3>1. UNCHANGED <<isApiMode, env>>
        BY <2>6 DEF ReadPart, KeepPart, ServeWrite, ServeSession, SessionAnswered, SessionRefused,
                    SessionFails, metaVars, history
      <3> QED  BY <1>1, <3>1
    <2> QED  BY <1>3, <2>1, <2>2, <2>3, <2>4, <2>5, <2>6 DEF GoesOn
  <1>4. CASE StartDemo \/ (\E p \in Parts : LocalChange(p)) \/ CreateEvent \/ CookieEnds
             \/ SetupConfirmed \/ UNCHANGED storeVars
    <2>1. /\ UNCHANGED isApiMode /\ (StartDemo => ~isApiMode)
          /\ ~(StartDemo \/ (\E p \in Parts : LocalChange(p)) \/ CreateEvent) => env' = env
      BY <1>4 DEF StartDemo, LocalChange, CreateEvent, CookieEnds, SetupConfirmed, authVars,
                  metaVars, storeVars
    <2> QED  BY <1>1, <2>1, LocalIsEdited DEF Edited
  <1>5. CASE ResetDemoData \/ Reload
    BY <1>5 DEF ResetDemoData, Reload, ApiModeShowsServerData
  <1> QED  BY <1>2, <1>3, <1>4, <1>5 DEF StoreNext

-----------------------------------------------------------------------------
(* The theorems *)

LEMMA TypesStep ==
    ASSUME StoreTypeOK, Basics, [StoreNext]_storeVars
    PROVE  StoreTypeOK'
  <1>1. CASE UNCHANGED storeVars
    BY <1>1 DEF storeVars, StoreTypeOK
  <1> QED  BY <1>1, ReadsTyped, WritesTyped, SessionsTyped, OutsideTyped
           DEF StoreNext, Starts, GoesOn, Outside, Basics

LEMMA StoreStarts == StoreInit => StoreInv
  <1> SUFFICES ASSUME StoreInit PROVE StoreInv
    OBVIOUS
  <1>1. StoreTypeOK
    <2>1. db \in [Users -> [Parts -> SUBSET Write]]
      BY DEF StoreInit
    <2>2. env \in [Parts -> Part]
      BY DEF StoreInit, Sample, Part
    <2>3. op \in [Ops -> Op \union {None}]
      BY DEF StoreInit
    <2>4. auth \in Auth
      BY DEF StoreInit, Auth, NoAuth
    <2>5. acts \in 0..MaxActs /\ writes \in 0..MaxWrites
      BY StoreAssumption DEF StoreInit
    <2> QED  BY <2>1, <2>2, <2>3, <2>4, <2>5 DEF StoreInit, StoreTypeOK
  <1>2. Running = {} /\ Reading = {} /\ Changing = {} /\ Pending = {}
    BY DEF StoreInit, Running, Reading, Changing, Pending
  <1>3. Basics
    BY <1>2 DEF StoreInit, Basics, OpsFit, ChangesAlone, ReadsAlone, WritesFit
  <1>4. SessionFits
    BY <1>2 DEF StoreInit, SessionFits
  <1>5. NoAuth.user = None /\ \A p \in Parts : env[p].from = "mock" /\ env[p].of = None
    BY DEF StoreInit, Sample, NoAuth
  <1>6. SavedRead
    BY <1>2, <1>5, PartsFacts DEF SavedRead
  <1>7. SameUser
    BY <1>2, <1>5 DEF StoreInit, SameUser, Mine
  <1>8. IndicatorsEnd /\ ApiModeShowsServerData
    BY DEF StoreInit, IndicatorsEnd, ApiModeShowsServerData
  <1> QED  BY <1>1, <1>3, <1>4, <1>6, <1>7, <1>8 DEF StoreInv

\* The inductive invariant of the store: types; what an operation has and what it is to the
\* others; what the tab knows of the session; whose the data are and which writes they
\* contain; indicators and API mode.
THEOREM StoreInvariant == StoreSpec => []StoreInv
  <1>1. StoreInv /\ [StoreNext]_storeVars => StoreInv'
    <2> SUFFICES ASSUME StoreInv, [StoreNext]_storeVars
                 PROVE  StoreInv'
      OBVIOUS
    <2>1. StoreTypeOK' /\ Basics'
      BY TypesStep, BasicsStep DEF StoreInv
    <2> QED  BY <2>1, SessionStep, SavedStep, SameUserStep, IndicatorsStep, ApiModeStep
             DEF StoreInv
  <1> QED  BY <1>1, StoreStarts, PTL DEF StoreSpec

\* The server, the tab and its operations keep their types (securityConsoleStore).
THEOREM StoreTypeCorrect == StoreSpec => []StoreTypeOK
  BY StoreInvariant, PTL DEF StoreInv

\* Every loading indicator is that of an operation under way, whatever fails or overlaps
\* (the finally blocks of the operations, hydrateEnvironmentFromApi).
THEOREM IndicatorsAlwaysEnd == StoreSpec => []IndicatorsEnd
  BY StoreInvariant, PTL DEF StoreInv

\* In API mode no collection that a hydration cannot do without is a sample, or changed by
\* an operation that asks allowDemoFallback, in whatever order operations and hydrations
\* end; the exceptions are those of the property (hydrateEnvironmentFromApi,
\* buildApiEnvironmentBundle, createEvent, completeOnboarding).
THEOREM ApiModeIsServerData == StoreSpec => []ApiModeShowsServerData
  BY StoreInvariant, PTL DEF StoreInv

\* In a production build what is shown of the server's data, be it changed or kept, is
\* that of the user who is signed in, unless the session was changed while data were read
\* (hydrateEnvironmentFromApi and its getSimulations().catch, logout).
THEOREM DataStayTheUsers == StoreSpec => []DataBelongToUser
  <1>1. StoreInv => DataBelongToUser
    BY DEF StoreInv, SameUser, DataBelongToUser
  <1> QED  BY <1>1, StoreInvariant, PTL

\* A write that was reported as saved is in the data of its user that a quiet console
\* without an error shows, unless hydrations overlapped or the session changed meanwhile:
\* in the collections that no hydration does without, and that nothing here has changed.
THEOREM SavedWritesShown == StoreSpec => []SavedIsShown
  <1>1. StoreInv => SavedIsShown
    BY DEF StoreInv, SavedRead, SavedIsShown, Reading
  <1> QED  BY <1>1, StoreInvariant, PTL
=============================================================================
