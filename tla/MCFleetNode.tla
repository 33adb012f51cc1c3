---------------------------- MODULE MCFleetNode -----------------------------
(* Instances of FleetNodeSession for TLC.                                  *)
EXTENDS FleetNodeSession, TLC

Symmetry == Permutations(Handshakes) \cup Permutations(Streams)
=============================================================================
