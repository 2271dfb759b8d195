---------------------------- MODULE MCScheduler ----------------------------
(***************************************************************************)
(* Instances of Scheduler.  One configuration has a daily job and catches  *)
(* up after a restart: at the time of the job, a tick later, which is not  *)
(* too late, or two ticks later, which is.  The other one has two daily    *)
(* jobs and a job at every start.                                          *)
(***************************************************************************)
EXTENDS Scheduler

CONSTANTS Twice, Once
Settings == {[times |-> Once, start |-> "catch_up"], [times |-> Twice, start |-> "run_on_start"]}
=============================================================================
