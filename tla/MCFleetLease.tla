---------------------------- MODULE MCFleetLease ----------------------------
\* FleetLease on two hosts and two database servers whose clocks differ.
EXTENDS FleetLease, TLC

CONSTANTS s1, s2, p1, p2, c1, c2

MCSkew == [s \in Servers |-> IF s = s1 THEN 0 ELSE 1]
Symmetry == Permutations(Procs) \cup Permutations(Clusters)

\* A behaviour has one kind of trouble besides crashes and failovers.
VARIABLE trouble

InScope ==
  /\ trouble = "rebuilt DCS" => orphans = {}
  /\ trouble = "renewal" => \A o \in orphans : o.kind = "renew"
  /\ trouble # "rebuilt DCS" => \E c \in Clusters : \A d \in Clusters \ {c} : gens[d] = 0
  /\ trouble # "renewal" => \A p \in Procs : pc[p] \notin Renewing

MCInit == Init /\ trouble \in {"late statement", "rebuilt DCS", "renewal"}
MCNext == Next /\ UNCHANGED trouble /\ InScope'
MCSpec == MCInit /\ [][MCNext]_<<vars, trouble>>
=============================================================================
