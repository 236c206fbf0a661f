----------------------------- MODULE MCRanking -----------------------------
(* Instances of Ranking for TLC. *)
EXTENDS Ranking, TLC

CONSTANTS t1, t2, a1, a2, g, h, A, G, H

Brands == (a1 :> A) @@ (a2 :> A) @@ (g :> G) @@ (h :> H)

(* One brand is due twice the traffic of another. *)
Weights == (A :> 1) @@ (G :> 2) @@ (H :> 1)

(* Two models of one brand with a quota, one each of two brands without. *)
Limits == (a1 :> 2) @@ (a2 :> 2) @@ (g :> None) @@ (h :> None)
Merits == (a1 :> 0) @@ (a2 :> 0) @@ (g :> 0) @@ (h :> 0)
Priorities == (a1 :> 1) @@ (a2 :> 2) @@ (g :> 3) @@ (h :> 4)

Reports == [m \in Model |-> IF Limits[m] = None THEN {None} ELSE {None, 1}]

GroupOf(members, sticks, cost, quality) ==
  [members |-> members, sticky |-> sticks,
   cost |-> cost, latency |-> None, quality |-> quality]

(* A group for which cost is all, one without stickiness, and one whose *)
(* weights add up to 84.                                                *)
Groups == {GroupOf({a1, a2}, TRUE, 100, None),
           GroupOf({a1, a2}, FALSE, None, None),
           GroupOf({g, h}, TRUE, None, 4)}

Tasks == Permutations(Task)
=============================================================================
