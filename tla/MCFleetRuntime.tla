--------------------------- MODULE MCFleetRuntime ---------------------------
(* Instances of FleetRuntime for TLC.                                      *)
EXTENDS FleetRuntime
=============================================================================
