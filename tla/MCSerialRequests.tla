-------------------------- MODULE MCSerialRequests --------------------------
(***************************************************************************)
(* One run and two findings served by a single request slot: a request     *)
(* starts only when the one before it has ended.  f1 is always high risk,  *)
(* f2 never is.                                                            *)
(***************************************************************************)
EXTENDS SecurityTestRun, TLC

CONSTANTS r1, x1, x2, f1, f2, h1

MCDemo     == (f1 :> "high") @@ (f2 :> "low")
MCPayloads == {<<>>, f1 :> "high", f2 :> "low", MCDemo}
=============================================================================
