---------------------------- MODULE MCBatchQueue ----------------------------
(* Instances of BatchQueue for TLC. *)
EXTENDS BatchQueue, TLC

CONSTANTS c1, c2, u1, u2, m1, m2, k1

Symmetry == Permutations({u1, u2})

OneSlot == [m \in Model |-> 1]

=============================================================================
