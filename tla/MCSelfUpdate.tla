---------------------------- MODULE MCSelfUpdate ----------------------------
(* Instances of SelfUpdate for TLC.                                        *)
EXTENDS SelfUpdate
=============================================================================
