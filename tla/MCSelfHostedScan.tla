-------------------------- MODULE MCSelfHostedScan --------------------------
(***************************************************************************)
(* One scan, two requests at a time, one finding, and one of each fault: a *)
(* crash or error in HCSC, a lost answer, a restart of the runner.         *)
(***************************************************************************)
EXTENDS SelfHostedScan, TLC

CONSTANTS r1, x1, f1, h1, h2

MCDemo     == f1 :> "high"
MCPayloads == {<<>>, f1 :> "high"}
=============================================================================
