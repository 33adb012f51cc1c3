-------------------------- MODULE RuntimeOwnership --------------------------
(***************************************************************************)
(* What the HA component promises to the rest of fleetd, without leases,   *)
(* clocks or databases: at most one holder dispatches at a time, every     *)
(* term is won by a holder that never held one before and carries a        *)
(* newer fencing token, and a term that has lapsed comes back only if no   *)
(* other term has begun since.                                             *)
(***************************************************************************)
EXTENDS Naturals

CONSTANTS Holders, Clusters

VARIABLES
  owner,   \* holder of the last term
  live,    \* holders that dispatch now
  term     \* [Clusters -> token of its last term]

vars == <<owner, live, term>>

Newer(t, u) == t.gen > u.gen \/ (t.gen = u.gen /\ t.epoch > u.epoch)

Init ==
  /\ owner = 0
  /\ live = {}
  /\ term = [c \in Clusters |-> [gen |-> 0, epoch |-> 0]]

Begin(c) ==
  /\ live = {}
  /\ owner' \in Holders \ {owner}
  /\ live' = {owner'}
  /\ term' = [term EXCEPT ![c] = term'[c]]
  /\ Newer(term'[c], term[c])

Lapse ==
  /\ live = {owner}
  /\ live' = {}
  /\ UNCHANGED <<owner, term>>

Resume ==
  /\ live = {}
  /\ live' = {owner}
  /\ UNCHANGED <<owner, term>>

Next == (\E c \in Clusters : Begin(c)) \/ Lapse \/ Resume

Spec == Init /\ [][Next]_vars
=============================================================================
