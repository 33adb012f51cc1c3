----------------------------- MODULE MCSchedule -----------------------------
(* Instances of ScheduleProcessor for TLC.                                 *)
EXTENDS ScheduleProcessor
=============================================================================
