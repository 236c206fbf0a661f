--------------------------- MODULE MCUsageTracker ---------------------------
(* Instances of UsageTracker for TLC. *)
EXTENDS UsageTracker, TLC

CONSTANTS c1, c2, c3, m1, k1, k2

Symmetry == Permutations({c1, c2, c3}) \cup Permutations({k1, k2})

(* A model that is never capped next to caps that a reload may lower. *)
SmallCaps == {NoCap, 1, 2}
=============================================================================
