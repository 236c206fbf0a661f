----------------------------- MODULE MCFxRates -----------------------------
(* Instances of FxRates for TLC. *)
EXTENDS FxRates, TLC

CONSTANTS t1, t2, t3
=============================================================================
