--------------------------- MODULE MCConfirmation ---------------------------
(* Previews with different contents, turns and clicks, all alike.          *)
EXTENDS Confirmation, TLC

CONSTANTS r1, r2, r3, r4, t1, t2, d1, d2, q1, q2

MCSymmetry == Permutations(Rows) \cup Permutations(Turns) \cup Permutations(Digests)
                  \cup Permutations(Requests)
=============================================================================
