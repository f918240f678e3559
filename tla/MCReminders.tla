----------------------------- MODULE MCReminders -----------------------------
(* One source, whose kind Init chooses, and the processes that race for it. *)
EXTENDS Reminders, TLC

CONSTANTS s1, p1, p2, p3
=============================================================================
