----------------------------- MODULE MCScheduler -----------------------------
(* Instances of Scheduler for TLC. *)
EXTENDS Scheduler

TwoJobs == 1..2
OneJob == {1}
=============================================================================
