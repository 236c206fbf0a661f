------------------------------- MODULE Routing -------------------------------
(***************************************************************************)
(* crates/core/src/selector.rs: which models a request may be given, and in*)
(* which order they are looked at.  It follows from the request and from   *)
(* the catalog in the cache, which cannot change during a select; what     *)
(* moves meanwhile is Selector's.                                          *)
(*                                                                         *)
(* Abstracted: priorities, which reload sorts the rules by and the score   *)
(* uses; weights; texts that are compared are members of small sets.       *)
(***************************************************************************)
EXTENDS Integers, Sequences

LOCAL INSTANCE SequencesExt

CONSTANTS
  Model, Brand,
  Step,      \* the steps requests are for
  Group,     \* the groups of models
  Language,
  Category,  \* the categories of models
  None       \* no value

(* The categories that need not be asked for. *)
General == Category \cap {"text", "code", "vision"}

Rules == [model : Model, max_ctx : Nat \cup {None}, enabled : BOOLEAN]
Brands == [active : BOOLEAN, priority : Nat, openrouter : BOOLEAN]
Models ==
  [brand : Brand, enabled : BOOLEAN, context : Nat, category : Category \cup {None},
   languages : SUBSET Language \cup {None}, functions : BOOLEAN, json : BOOLEAN,
   streaming : BOOLEAN, quality : Nat \cup {None}, trains : BOOLEAN \cup {None}]
Members == [model : Model, enabled : BOOLEAN]
Groups == [active : BOOLEAN, max_ms : Nat \cup {None}, ratio : Nat \cup {None},
           members : Seq(Members)]

(* What reload has put into the cache: rules and members in the order of     *)
(* their brand's priority and their own; the quality measured for a step.    *)
(* The rows are read one table after the other: a rule or member may be of a *)
(* model, and a model of a brand, that is not there.                         *)
IsCatalog(c) ==
  /\ DOMAIN c.brands \subseteq Brand /\ \A b \in DOMAIN c.brands : c.brands[b] \in Brands
  /\ DOMAIN c.models \subseteq Model /\ \A m \in DOMAIN c.models : c.models[m] \in Models
  /\ c.rules \in [Step -> Seq(Rules)]
  /\ DOMAIN c.groups \subseteq Group /\ \A g \in DOMAIN c.groups : c.groups[g] \in Groups
  /\ c.measured \in [Model \X Step -> Nat \cup {None}]

(* A request: pin is the models its text names, by brand and slug or by a     *)
(* canonical key they share; gateway if /complete makes the call itself.      *)
Requests ==
  [step : Step, group : Group \cup {None}, pin : SUBSET Model \cup {None}, tokens : Nat,
   functions : BOOLEAN, json : BOOLEAN, streaming : BOOLEAN \cup {None},
   quality_min : Nat, exclude : SUBSET Model, categories : SUBSET Category,
   languages : SUBSET Language, no_training : BOOLEAN, gateway : BOOLEAN,
   max_ms : Nat \cup {None}, ratio : Nat \cup {None}]
-----------------------------------------------------------------------------
(* The rules a request is looked up by. *)

RuleFor(m, enabled) == [model |-> m, max_ctx |-> None, enabled |-> enabled]

HasBrand(c, m) == c.models[m].brand \in DOMAIN c.brands
PriorityOf(c, m) == c.brands[c.models[m].brand].priority

(* All models, those of a brand with a lower priority value first. *)
EveryModel(c) ==
  LET models == SetToSortSeq({m \in DOMAIN c.models : HasBrand(c, m)},
                             LAMBDA m, n : PriorityOf(c, m) < PriorityOf(c, n))
  IN  [i \in DOMAIN models |-> RuleFor(models[i], TRUE)]

(* A pin comes before a group, a group before the rules of the step. *)
ByGroup(r) == r.pin = None /\ r.group # None

GroupNotFound(c, r) ==
  ByGroup(r) /\ ~(r.group \in DOMAIN c.groups /\ c.groups[r.group].active)

MemberRules(c, g) ==
  [i \in DOMAIN c.groups[g].members |->
     RuleFor(c.groups[g].members[i].model, c.groups[g].members[i].enabled)]

(* A step without rules, of whatever state, may be given every model. *)
StepRules(c, step) == IF c.rules[step] = <<>> THEN EveryModel(c) ELSE c.rules[step]

(* A plausible bug for mutation: a group without members, too. *)
RulesOfNonEmpty(c, r) ==
  CASE r.pin # None -> EveryModel(c)
    [] ByGroup(r) /\ c.groups[r.group].members # <<>> -> MemberRules(c, r.group)
    [] OTHER -> StepRules(c, r.step)

RulesOf(c, r) ==
  CASE r.pin # None -> EveryModel(c)
    [] ByGroup(r) -> MemberRules(c, r.group)
    [] OTHER -> StepRules(c, r.step)

(* The request's own ceilings, or those of its group; zero is none. *)
MaxMs(c, r) ==
  LET ms == IF r.max_ms = None /\ ByGroup(r) THEN c.groups[r.group].max_ms ELSE r.max_ms
  IN  IF ms = 0 THEN None ELSE ms
Ratio(c, r) ==
  LET ratio == IF r.ratio = None /\ ByGroup(r) THEN c.groups[r.group].ratio ELSE r.ratio
  IN  IF ratio = 0 THEN None ELSE ratio
-----------------------------------------------------------------------------
(* The filters of Pass 1 that nothing but the catalog decides. *)

InService(c, rule) ==
  /\ rule.enabled
  /\ rule.model \in DOMAIN c.models /\ c.models[rule.model].enabled
  /\ HasBrand(c, rule.model) /\ c.brands[c.models[rule.model].brand].active

Fits(model, rule, r) ==
  /\ r.tokens <= model.context
  /\ rule.max_ctx = None \/ r.tokens <= rule.max_ctx

(* A special category has to be asked for. *)
InCategory(model, r) ==
  IF r.categories # {} THEN model.category \in r.categories
  ELSE model.category \in General \cup {None}

(* A model that declares no languages takes any. *)
Speaks(model, r) ==
  r.languages = {} \/ model.languages = None \/ model.languages \cap r.languages # {}

Capable(model, r) ==
  /\ r.functions => model.functions
  /\ r.json => model.json
  /\ r.streaming = None \/ model.streaming = r.streaming

(* What was measured for the step counts more than what was declared. *)
EffectiveQuality(c, m, step) ==
  IF c.measured[m, step] # None THEN c.measured[m, step] ELSE c.models[m].quality

GoodEnough(c, m, r) ==
  LET quality == EffectiveQuality(c, m, r.step)
  IN  r.quality_min = 0 \/ (quality # None /\ quality >= r.quality_min)

(* What is not known not to train is not safe, unless the gateway itself can *)
(* forbid it.                                                                *)
Untrained(c, m, r) ==
  r.no_training => \/ c.models[m].trains = FALSE
                   \/ r.gateway /\ c.brands[c.models[m].brand].openrouter

Passes(c, rule, r) ==
  LET m == rule.model
      model == c.models[m] IN
  /\ InService(c, rule)
  /\ r.pin = None \/ m \in r.pin
  /\ Fits(model, rule, r) /\ InCategory(model, r) /\ Speaks(model, r)
  /\ Capable(model, r) /\ GoodEnough(c, m, r) /\ Untrained(c, m, r)

(* The models a select goes through, by the position of their rules. *)
Routed(c, r) ==
  LET rules == RulesOf(c, r)
  IN  [i \in {j \in DOMAIN rules : Passes(c, rules[j], r)} |-> rules[i].model]
=============================================================================
