-------------------------- MODULE MCFleetNodeAgent --------------------------
(* Instances of FleetNodeAgent for TLC.                                    *)
EXTENDS FleetNodeAgent
=============================================================================
