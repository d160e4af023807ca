---------------------------- MODULE MCScheduler ----------------------------
(* Values for the constants of Scheduler.  Two schedules that fire in the  *)
(* first minute fill a queue of one slot; one schedule alone fills it when *)
(* the dispatcher is slow.                                                 *)
EXTENDS Scheduler

EveryMinute == [s \in Schedules |-> 0..Horizon]
FirstMinuteOnly == [s \in Schedules |-> {0}]
=============================================================================
