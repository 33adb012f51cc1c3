------------------------------ MODULE MCCommand ------------------------------
(* One batch for one of two devices, for TLC.                               *)
EXTENDS CommandDispatch, TLC

CONSTANTS b1, d1, d2, r1, r2

OneDevice == (b1 :> {d1})
=============================================================================
