----------------------------- MODULE RateLimit -----------------------------
(***************************************************************************)
(* The limits on signing in, codes, invitations and checks                 *)
(* (auth/rate-limit.ts): fixed windows in Redis, reached by a pipeline of  *)
(* three commands that other pipelines may interleave with, and, outside   *)
(* production, windows in memory when Redis fails.  The windows of a       *)
(* policy are all consumed, whatever one of them says.                     *)
(*                                                                         *)
(* Time is counted in ticks longer than UPSTASH_TIMEOUT_MS: no pipeline    *)
(* lasts from one tick to the next but one.                                *)
(***************************************************************************)
EXTENDS Naturals

CONSTANTS
    Windows,    \* windows of the policy
    Requests,   \* requests at work
    Unset,
    Limit,      \* requests per window
    Length,     \* ticks of a window
    MaxErrors   \* bound: commands that fail, answers that are lost

ASSUME RateLimitAssumption ==
    /\ Limit \in Nat \ {0} /\ Length \in Nat \ {0, 1} /\ MaxErrors \in Nat

VARIABLES
    production, \* NODE_ENV
    redis,      \* redis[w]: the key of the window
    memory,     \* memory[w]: the entry of rateLimitStore
    request,    \* request[h][w]: where the request stands with window w
    errors

rateVars == <<production, redis, memory, request, errors>>

-----------------------------------------------------------------------------
\* A counter, and the ticks it has left: Unset when it has no expiry.  Counts above
\* the limit are not told apart.
Counter == [count : 0..(Limit + 1), left : 0..Length \union {Unset}]
Absent  == [count |-> 0, left |-> Unset]

\* count, left: the results of INCR and PTTL; bad: one of the commands failed, or the
\* answer is lost; old: it was sent before the last tick.
Call == [at : {"incr", "expire", "ttl", "answer", "yes", "no"}, count : 0..(Limit + 1),
         left : 0..Length \union {Unset}, bad : BOOLEAN, old : BOOLEAN]
NewCall == [at |-> "incr", count |-> 0, left |-> Unset, bad |-> FALSE, old |-> FALSE]

RateTypeOK ==
    /\ production \in BOOLEAN
    /\ redis \in [Windows -> Counter] /\ memory \in [Windows -> Counter]
    /\ request \in [Requests -> [Windows -> Call \union {Unset}]]
    /\ errors \in 0..MaxErrors

RateInit ==
    /\ production \in BOOLEAN
    /\ redis = [w \in Windows |-> Absent] /\ memory = [w \in Windows |-> Absent]
    /\ request = [h \in Requests |-> [w \in Windows |-> Unset]] /\ errors = 0

OneMore(n) == IF n > Limit THEN n ELSE n + 1
Standing(h, w, at) == request[h][w] # Unset /\ request[h][w].at = at
Fails == errors < MaxErrors /\ errors' = errors + 1

-----------------------------------------------------------------------------
Ask(h) ==
    /\ \A w \in Windows : request[h][w] = Unset
    /\ request' = [request EXCEPT ![h] = [w \in Windows |-> NewCall]]
    /\ UNCHANGED <<production, redis, memory, errors>>

\* A command has its effect, or answers with an error; the next is tried all the same.
Incr(h, w) ==
    /\ Standing(h, w, "incr")
    /\ \/ /\ redis' = [redis EXCEPT ![w].count = OneMore(@)]
          /\ request' = [request EXCEPT ![h][w].at = "expire",
                                        ![h][w].count = OneMore(redis[w].count)]
          /\ UNCHANGED errors
       \/ /\ Fails
          /\ request' = [request EXCEPT ![h][w].at = "expire", ![h][w].bad = TRUE]
          /\ UNCHANGED redis
    /\ UNCHANGED <<production, memory>>

\* Mutation: the expiry is set whether the key has one or not.
MutSetExpiry(w) == redis' = [redis EXCEPT ![w].left = IF redis[w].count = 0 THEN Unset ELSE Length]

\* PEXPIRE NX: a key that has an expiry keeps it, one that does not exist gets none.
SetExpiry(w) ==
    redis' = [redis EXCEPT ![w].left = IF redis[w].count > 0 /\ @ = Unset THEN Length ELSE @]

Expire(h, w) ==
    /\ Standing(h, w, "expire")
    /\ \/ SetExpiry(w) /\ request' = [request EXCEPT ![h][w].at = "ttl"] /\ UNCHANGED errors
       \/ /\ Fails
          /\ request' = [request EXCEPT ![h][w].at = "ttl", ![h][w].bad = TRUE]
          /\ UNCHANGED redis
    /\ UNCHANGED <<production, memory>>

Ttl(h, w) ==
    /\ Standing(h, w, "ttl")
    /\ request' = [request EXCEPT ![h][w].at = "answer", ![h][w].left = redis[w].left]
    /\ UNCHANGED <<production, redis, memory, errors>>

\* The answer is lost or comes after the timeout; the commands are carried out.
AnswerLost(h, w) ==
    /\ Standing(h, w, "answer") /\ ~request[h][w].bad
    /\ Fails
    /\ request' = [request EXCEPT ![h][w].bad = TRUE]
    /\ UNCHANGED <<production, redis, memory>>

Decide(h, w, ok) ==
    request' = [request EXCEPT ![h][w] = [NewCall EXCEPT !.at = IF ok THEN "yes" ELSE "no"]]

\* consumeMemoryRateLimit; a request it refuses is not counted.
FromMemory(h, w) ==
    LET entry == memory[w]
    IN /\ Decide(h, w, entry.count < Limit)
       /\ memory' = [memory EXCEPT ![w] =
                        IF entry = Absent THEN [count |-> 1, left |-> Length]
                        ELSE IF entry.count < Limit THEN [entry EXCEPT !.count = @ + 1]
                        ELSE entry]

\* A window without an expiry, or that has just ended, is no answer.  Production then
\* refuses.
Answered(h, w) ==
    LET r == request[h][w]
    IN /\ Standing(h, w, "answer")
       /\ IF r.bad \/ r.left = Unset \/ r.count = 0
          THEN IF production THEN Decide(h, w, FALSE) /\ UNCHANGED memory
               ELSE FromMemory(h, w)
          ELSE Decide(h, w, r.count <= Limit) /\ UNCHANGED memory
       /\ UNCHANGED <<production, redis, errors>>

\* consumeRateLimitPolicy: one window that refuses is enough.
Settled(h) ==
    /\ \A w \in Windows : Standing(h, w, "yes") \/ Standing(h, w, "no")
    /\ request' = [request EXCEPT ![h] = [w \in Windows |-> Unset]]
    /\ UNCHANGED <<production, redis, memory, errors>>

Older(c) == IF c.left = Unset THEN c
            ELSE IF c.left <= 1 THEN Absent ELSE [c EXCEPT !.left = @ - 1]

Pending(c) == c # Unset /\ c.at \in {"incr", "expire", "ttl", "answer"}

TickOfClock ==
    /\ \A h \in Requests, w \in Windows : Pending(request[h][w]) => ~request[h][w].old
    /\ redis' = [w \in Windows |-> Older(redis[w])]
    /\ memory' = [w \in Windows |-> Older(memory[w])]
    /\ request' = [h \in Requests |-> [w \in Windows |->
                     IF Pending(request[h][w]) THEN [request[h][w] EXCEPT !.old = TRUE]
                     ELSE request[h][w]]]
    /\ UNCHANGED <<production, errors>>

RateStep(h) ==
    \/ Ask(h) \/ Settled(h)
    \/ \E w \in Windows : Incr(h, w) \/ Expire(h, w) \/ Ttl(h, w) \/ Answered(h, w)

RateNext ==
    \/ \E h \in Requests : RateStep(h) \/ \E w \in Windows : AnswerLost(h, w)
    \/ TickOfClock

\* Somebody keeps asking, requests go on, and time passes.
RateFairness == (\A h \in Requests : WF_rateVars(RateStep(h))) /\ WF_rateVars(TickOfClock)

RateSpec == RateInit /\ [][RateNext]_rateVars /\ RateFairness

-----------------------------------------------------------------------------
(* Properties *)

\* Whoever keeps asking is let through again and again by every window: a counter that
\* was left without an expiry by a failed command gets one, and asking while refused
\* does not put off the end of the window (PEXPIRE ... NX).
WindowsReopen ==
    \A w \in Windows : []<>(\E h \in Requests : Standing(h, w, "yes"))
=============================================================================
