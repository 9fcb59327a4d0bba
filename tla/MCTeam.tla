------------------------------- MODULE MCTeam -------------------------------
(***************************************************************************)
(* Three users, one of them in another workspace too and one the system    *)
(* owner, two invites, and two requests in flight.                         *)
(***************************************************************************)
EXTENDS Team, TLC

CONSTANTS u1, u2, u3, i1, i2, h1, h2

Interchangeable == Permutations({i1, i2}) \union Permutations({h1, h2})
=============================================================================
