----------------------------- MODULE MCGoalLoop -----------------------------
(* Small instances of GoalLoop; the configurations give the bounds.        *)
EXTENDS GoalLoop
=============================================================================
