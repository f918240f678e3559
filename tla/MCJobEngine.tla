---------------------------- MODULE MCJobEngine ----------------------------
(* Two jobs, two workers and two attempts, all interchangeable.            *)
EXTENDS JobEngine, TLC

CONSTANTS j1, j2, w1, w2

MCSymmetry == Permutations(Jobs) \cup Permutations(Workers)
=============================================================================
