----------------------------- MODULE MCScheduler -----------------------------
(* A small instance of Scheduler: one task asks for two minutes of the day, *)
(* the cron expression of the other names no hour.                          *)
EXTENDS Scheduler, TLC

CONSTANTS twice, unread
MCTimes == (twice :> {0, 3}) @@ (unread :> {})
=============================================================================
