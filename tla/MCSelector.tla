----------------------------- MODULE MCSelector -----------------------------
(* Instances of Selector for TLC. *)
EXTENDS Selector, TLC

CONSTANTS t1, t2, m1, m2, m3, B1, B2, k1, k2, plain, open, pair, off, empty

Symmetry == Permutations({t1, t2})

OneKey == [b \in Brand |-> IF b = B1 THEN <<k1>> ELSE <<>>]
TwoKeys == [b \in Brand |-> IF b = B1 THEN <<k1, k2>> ELSE <<>>]
Caps == [m \in Model |-> IF m = m2 THEN NoLimit ELSE 1]
Latencies == [m \in Model |-> CASE m = m1 -> 2 [] m = m2 -> 3 [] m = m3 -> 5]

(* m1 and m2 are models of a brand with keys, m3 is of one without that is   *)
(* not known not to train.                                                   *)
ModelRow(m) ==
  [brand |-> IF m = m3 THEN B2 ELSE B1, enabled |-> TRUE, context |-> 2,
   category |-> "text", languages |-> IF m = m1 THEN {"en"} ELSE None,
   functions |-> TRUE, json |-> m = m1, streaming |-> FALSE,
   quality |-> IF m = m1 THEN 2 ELSE None,
   trains |-> IF m = m3 THEN None ELSE FALSE]

Members2(m, n) == <<[model |-> m, enabled |-> TRUE], [model |-> n, enabled |-> TRUE]>>

(* The step plain has rules, the step open has none.  The group pair has a   *)
(* ceiling, empty has no members, off is not active.                         *)
SmallCatalog ==
  [brands |-> [b \in Brand |-> [active |-> TRUE, priority |-> IF b = B2 THEN 0 ELSE 1,
                                openrouter |-> b = B2]],
   models |-> [m \in Model |-> ModelRow(m)],
   rules |-> [s \in Step |-> IF s = open THEN <<>>
                             ELSE <<RuleFor(m2, TRUE), RuleFor(m1, TRUE)>>],
   groups |-> [g \in Group |->
                 [active |-> g # off, max_ms |-> IF g = pair THEN 4 ELSE None, ratio |-> None,
                  members |-> IF g = pair THEN Members2(m1, m3) ELSE <<>>]],
   measured |-> [x \in Model \X Step |-> IF x[1] = m3 THEN 2 ELSE None]]

Ask ==
  [step |-> open, group |-> None, pin |-> None, tokens |-> 1, functions |-> FALSE,
   json |-> FALSE, streaming |-> None, quality_min |-> 0, exclude |-> {},
   categories |-> {}, languages |-> {}, no_training |-> FALSE, gateway |-> FALSE,
   max_ms |-> None, ratio |-> None]

AskRouted ==
  {[Ask EXCEPT !.streaming = FALSE, !.categories = {"text"}],
   [Ask EXCEPT !.group = pair, !.languages = {"en"}],
   [Ask EXCEPT !.pin = {m1, m3}, !.exclude = {m1}, !.ratio = 2,
               !.no_training = TRUE, !.gateway = TRUE, !.quality_min = 2],
   [Ask EXCEPT !.no_training = TRUE, !.tokens = 2],
   [Ask EXCEPT !.group = off],
   [Ask EXCEPT !.group = empty]}

AskSiblings == {[Ask EXCEPT !.step = plain]}
=============================================================================
