---------------------------- MODULE MCSplitFlow ----------------------------
(* Instances of SplitFlow for TLC. *)
EXTENDS SplitFlow

CONSTANTS c1, m1, s1, s2

(* A model with two slots whose other limits are unknown. *)
TwoSlots == [m \in {m1} |-> 2]
=============================================================================
