-------------------------- MODULE MCDelegatedWorker --------------------------
(* Incarnations of one hub process: w1 may be killed, w2 is left alone.    *)
EXTENDS DelegatedWorker

CONSTANTS j1, w1, w2
=============================================================================
