--------------------------- MODULE MCConsoleStore ---------------------------
(***************************************************************************)
(* Two users, one of them known to the demo and the other signed in        *)
(* without a second factor; a collection of each kind, a write with a      *)
(* local form and one without, and two operations at a time.               *)
(***************************************************************************)
EXTENDS ConsoleStore, TLC

CONSTANTS alice, bob, reports, runs, rules, o1, o2

Interchangeable == Permutations({o1, o2})
=============================================================================
