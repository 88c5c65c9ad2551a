---------------------------- MODULE MCJobQueue ----------------------------
(* The job queue on a small instance.                                      *)
EXTENDS JobQueue, TLC

CONSTANTS j1, j2, j3, s1, s2

Interchangeable == Permutations({j1, j2, j3}) \cup Permutations({s1, s2})
=============================================================================
