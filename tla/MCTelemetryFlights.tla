------------------------ MODULE MCTelemetryFlights --------------------------
(* Instances of TelemetryFlights for TLC.                                  *)
EXTENDS TelemetryFlights

\* A behaviour has a refresh or a removal of the device, not both.
InScope == generation = 0 \/ \A r \in Refreshers : refresh[r].pc = "new"

MCNext == Next /\ InScope'
MCSpec == Init /\ [][MCNext]_vars /\ Fairness
=============================================================================
