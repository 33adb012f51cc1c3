------------------------------ MODULE MCRollout ------------------------------
(* Small instances of RolloutEnforcement.                                  *)
EXTENDS RolloutEnforcement, TLC

CONSTANTS d1, d2, f1, f2, f3

\* Miners are interchangeable.
Symmetry == Permutations(Devices)
\* So are artifacts of one version.
Lookalikes == Permutations(Alike)
=============================================================================
