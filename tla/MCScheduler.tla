---------------------------- MODULE MCScheduler ----------------------------
(***************************************************************************)
(* Constants for model checking Scheduler: hourly is one unit of time, any other interval two.    *)
(***************************************************************************)
EXTENDS Scheduler, TLC

MCDelta == [i \in Intervals |-> IF i = "hourly" THEN 1 ELSE 2]

=============================================================================
