----------------------- MODULE MCOverlappingRequests -----------------------
(***************************************************************************)
(* One run worked on by two requests at a time, any of which may fail once *)
(* between two of its steps.  The provider reports one finding at a time,   *)
(* which lets two transactions on the run overlap without a common row.    *)
(***************************************************************************)
EXTENDS SecurityTestRun, TLC

CONSTANTS r1, x1, f1, f2, h1, h2

MCDemo     == (f1 :> "high") @@ (f2 :> "low")
MCPayloads == {f1 :> "low", f2 :> "high"}

Interchangeable == Permutations({h1, h2})
=============================================================================
