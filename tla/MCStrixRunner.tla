---------------------------- MODULE MCStrixRunner ----------------------------
(***************************************************************************)
(* Three scans and as many job ids: two can wait while one is worked on, and *)
(* a scan forgotten in a restart can be posted again under another id.      *)
(***************************************************************************)
EXTENDS StrixRunner

CONSTANTS s1, s2, s3, j1, j2, j3
=============================================================================
