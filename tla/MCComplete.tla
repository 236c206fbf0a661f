----------------------------- MODULE MCComplete -----------------------------
(* Instances of Complete for TLC. *)
EXTENDS Complete

CONSTANTS t1, t2, m1, m2

Caps == [m \in Model |-> IF m = m1 THEN 1 ELSE NoLimit]

(* One model may lack its key; the other's payload may be bad. *)
Unready == [m \in Model |-> {"ready"} \cup IF m = m1 THEN {"no_key"}
                                          ELSE {"bad_payload"}]

Ask(models, pin, pin_wait, budget) ==
  [models |-> models, pin |-> pin, pin_wait |-> pin_wait, budget |-> budget]

AskMixed == {Ask(Model, FALSE, FALSE, NoLimit), Ask({m1}, TRUE, TRUE, 2)}
=============================================================================
