------------------------ MODULE MCTelemetryScheduler ------------------------
(***************************************************************************)
(* TelemetryScheduler for TLC.                                             *)
(***************************************************************************)
EXTENDS TelemetryScheduler

\* A behaviour has one kind of trouble besides lost status writes.
VARIABLE trouble

InScope ==
  /\ world.miner \in {"up", trouble}
  /\ trouble # "stop" => ~Stopping
  /\ trouble # "unpair" => world.unpairs = 0
  /\ trouble # "refresh" => \A r \in Refreshers : proc[r] = Idle

MCInit == Init /\ trouble \in {"down", "busy", "stop", "unpair", "refresh"}
MCNext == Next /\ UNCHANGED trouble /\ InScope'
MCSpec == MCInit /\ [][MCNext]_<<vars, trouble>> /\ Fairness
=============================================================================
