------------------------------- MODULE OneShot -------------------------------
(***************************************************************************)
(* What a link or a code that stands for one act promises: it is issued,   *)
(* lets at most one request pass, and lets none pass once it is withdrawn. *)
(*                                                                         *)
(* HCSC's recovery codes and password links are claimed with an update     *)
(* whose condition is that they are unused (recovery-codes.ts, account.ts);*)
(* Account implements this specification with both.                        *)
(***************************************************************************)
EXTENDS Naturals

CONSTANT Tokens

VARIABLES
    state,    \* state[t]: "unborn", "ready", "used", or "gone" (withdrawn)
    passes    \* passes[t]: requests that t has let pass

oneShotVars == <<state, passes>>

In(s) == {t \in Tokens : state[t] = s}

Marked(W, N) == [t \in Tokens |-> IF t \in W THEN "gone"
                                  ELSE IF t \in N THEN "ready" ELSE state[t]]

OneShotInit ==
    /\ state \in [Tokens -> {"unborn", "ready"}]
    /\ passes = [t \in Tokens |-> 0]

\* The tokens W are withdrawn and the tokens N issued.
Replace(W, N) ==
    /\ W \subseteq In("ready") \union In("used")
    /\ N \subseteq In("unborn")
    /\ state' = Marked(W, N)
    /\ UNCHANGED passes

\* A request passes by t, and the tokens W are withdrawn with it.
Pass(t, W) ==
    /\ state[t] = "ready"
    /\ W \subseteq (In("ready") \union In("used")) \ {t}
    /\ state' = [Marked(W, {}) EXCEPT ![t] = "used"]
    /\ passes' = [passes EXCEPT ![t] = @ + 1]

OneShotNext ==
    \E W \in SUBSET Tokens :
        \/ \E N \in SUBSET Tokens : Replace(W, N)
        \/ \E t \in Tokens : Pass(t, W)

OneShotSpec == OneShotInit /\ [][OneShotNext]_oneShotVars

\* A token lets at most one request pass, and only a used or withdrawn one has.
OneShotInv ==
    /\ state \in [Tokens -> {"unborn", "ready", "used", "gone"}]
    /\ passes \in [Tokens -> {0, 1}]
    /\ \A t \in Tokens : passes[t] = 1 => state[t] \in {"used", "gone"}
=============================================================================
