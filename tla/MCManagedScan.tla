--------------------------- MODULE MCManagedScan ---------------------------
(***************************************************************************)
(* One run, two requests at a time, a scan that may find one high-risk     *)
(* vulnerability, and one failing request on either side.                  *)
(***************************************************************************)
EXTENDS ManagedScan, TLC

CONSTANTS r1, x1, f1, h1, h2

MCDemo     == f1 :> "high"
MCPayloads == {<<>>, f1 :> "high"}
=============================================================================
