---------------------------- MODULE MCRateState ----------------------------
(* Instances of RateState for TLC. *)
EXTENDS RateState, TLC

CONSTANTS t1, t2, a, b

Symmetry == Permutations({t1, t2}) \cup Permutations({a, b})

(* The order of cooldown_secs, shrunk: none for a parse failure, the shortest *)
(* for a timeout, longer for a quota.                                         *)
ErrorTypes == {"parse", "timeout", "rpm"}
Cooldowns == [parse |-> 0, timeout |-> 1, rpm |-> 3]
=============================================================================
