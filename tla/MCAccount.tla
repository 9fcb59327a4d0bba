------------------------------ MODULE MCAccount ------------------------------
(***************************************************************************)
(* One account with two sessions, two recovery codes issued one at a time, *)
(* two password links, and two requests in flight.                         *)
(***************************************************************************)
EXTENDS Account, TLC

CONSTANTS s1, s2, c1, c2, l1, l2, h1, h2

Interchangeable == Permutations({s1, s2}) \union Permutations({c1, c2})
                   \union Permutations({l1, l2}) \union Permutations({h1, h2})
=============================================================================
