----------------------------- MODULE MCActionPlan -----------------------------
(* Three steps: the second needs a confirmation, the others can be undone, *)
(* the third after a confirmation of its own.                              *)
EXTENDS ActionPlan

CONSTANTS x1, x2, u1, u2
=============================================================================
