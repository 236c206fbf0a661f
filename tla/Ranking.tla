------------------------------- MODULE Ranking -------------------------------
(***************************************************************************)
(* Pass 2 of select_inner in crates/core/src/selector.rs: how a candidate's*)
(* fast headroom, its brand's share of the recent traffic and the          *)
(* stickiness of its group make up its score, and what each selection      *)
(* records for the next ones.  The weighted sum of the other components    *)
(* (quality, cost, latency, slow headroom, member priority) is a model's   *)
(* merit and stands still: nothing reports times, there are no daily       *)
(* limits and no catalog edits.  Scores are integers, a weight being a     *)
(* percent and a component at most Unit.  A behaviour is about one group;  *)
(* its members have no caps, keys or cooldowns, which Selector has.        *)
(***************************************************************************)
EXTENDS UsageWindows, Integers, FiniteSets

LOCAL INSTANCE FiniteSetsExt

CONSTANTS
  Task,         \* callers that select, call and report
  Model,
  Brand,
  BrandOf,      \* the brand of each model
  Weight,       \* each brand's traffic_weight
  Rpm,          \* each model's rpm_limit
  Merit,        \* the rest of each model's score
  Priority,     \* each member's place in the group, which breaks ties
  Group,        \* groups a behaviour may be about: members, stickiness and
                \* the weights of cost, latency and quality they override
  None,         \* no limit, no model, nothing reported
  Remaining,    \* what each model's provider may report as remaining requests
  TrafficSpan,  \* ticks of the traffic window (300 s in the code)
  StickyTtl,    \* ticks a group stays sticky (300 s in the code)
  TrafficBound  \* bound: selections in the window when a select begins

ASSUME RankingAssumption ==
  /\ IsFiniteSet(Task) /\ IsFiniteSet(Model) /\ IsFiniteSet(Brand)
  /\ BrandOf \in [Model -> Brand]
  /\ Weight \in [Brand -> Nat]
  /\ None \notin Nat \cup Model
  /\ Rpm \in [Model -> (Nat \ {0}) \cup {None}]
  /\ Merit \in [Model -> Nat] /\ Priority \in [Model -> Nat]
  /\ Group \subseteq [members : (SUBSET Model) \ {{}}, sticky : BOOLEAN,
                      cost : Nat \cup {None}, latency : Nat \cup {None},
                      quality : Nat \cup {None}]
  /\ Remaining \in [Model -> SUBSET (Nat \cup {None}) \ {{}}]
  /\ {TrafficSpan, StickyTtl} \subseteq Nat \ {0}
  /\ TrafficBound \in Nat

VARIABLES
  group,      \* the group of this behaviour
  usage,      \* the bucket of each model
  remaining,  \* the remaining requests its provider reported last
  traffic,    \* selections of each brand in the window, by age in ticks
  sticky,     \* the group's last selection and its age (sticky_last)
  op,         \* what each task is doing
  free        \* history: models with room ever since a task's select began

vars == <<group, usage, remaining, traffic, sticky, op, free>>

Idle == [pc |-> "idle", headroom |-> <<>>, model |-> None]

Init ==
  /\ group \in Group
  /\ usage = [m \in Model |-> NewBucket]
  /\ remaining = [m \in Model |-> None]
  /\ traffic = [b \in Brand |-> [age \in 0..(TrafficSpan - 1) |-> 0]]
  /\ sticky = [model |-> None, age |-> 0]
  /\ op = [t \in Task |-> Idle]
  /\ free = [t \in Task |-> {}]
-----------------------------------------------------------------------------
(* The components of a score.  Headroom runs from -Unit to Unit. *)

Unit == 120

(* The requests of the last minute, or what the provider says was used. *)
Effective(m) ==
  LET count == Len(Drained(usage[m].rpm))
  IN  IF remaining[m] = None \/ Rpm[m] = None THEN count
      ELSE Max({count, SaturatingSub(Rpm[m], remaining[m])})

(* headroom_ratio of the requests with this one, unlimited being Unit. *)
HeadroomFast(m) ==
  LET projected == Effective(m) + usage[m].in_flight + 1
  IN  IF Rpm[m] = None THEN Unit
      ELSE Unit - (Unit * projected) \div Rpm[m]

Normalised(headroom) == (Max({headroom, -Unit}) + Unit) \div 2

Recent(b) == MapThenSumSet(LAMBDA age : traffic[b][age], 0..(TrafficSpan - 1))

(* target share over actual share.  A brand without traffic is, in floating *)
(* point, out of the others' reach.                                         *)
BalanceRatio(b, total) ==
  IF Recent(b) = 0 THEN Weight[b] * 1000000
  ELSE (Weight[b] * total * 60) \div Recent(b)

(* Its min-max normalisation over the brands of the pool. *)
TrafficScore(b) ==
  LET pool == {BrandOf[m] : m \in group.members}
      total == MapThenSumSet(Recent, pool)
      ratios == {BalanceRatio(c, total) : c \in pool}
  IN  IF Max(ratios) = Min(ratios) THEN Unit \div 2
      ELSE (Unit * (BalanceRatio(b, total) - Min(ratios)))
             \div (Max(ratios) - Min(ratios))

(* resolve_weights divides all weights by their sum: the built-in ones, 15 of *)
(* cost, 10 of latency and 20 of quality among 100, or the group's own.       *)
Part(override, base) == IF override = None THEN base ELSE Min({override, 100})

TotalWeight ==
  55 + Part(group.cost, 15) + Part(group.latency, 10) + Part(group.quality, 20)

(* A plausible bug for mutation: the bonus is less than what it must outweigh. *)
SmallerBonus == (9 * TotalWeight * Unit) \div 100

(* STICKY_BONUS comes after the division, so the other terms are scaled to it. *)
StickyBonus == (12 * TotalWeight * Unit) \div 100

(* A plausible bug for mutation: a drained model keeps its bonus. *)
AlwaysComfortable(headroom) == TRUE

(* STICKY_MIN_HEADROOM *)
Comfortable(headroom) == headroom > Unit \div 5

Fresh == group.sticky /\ sticky.model # None /\ sticky.age < StickyTtl

(* The score of a request that uses the members' priorities. *)
Score(m, headroom) ==
  Merit[m] + 20 * Normalised(headroom) + 10 * TrafficScore(BrandOf[m])
    + IF Fresh /\ sticky.model = m /\ Comfortable(headroom) THEN StickyBonus ELSE 0

(* The first of the candidates, sorted by score and then by priority. *)
Winner(headroom) ==
  LET score == [m \in group.members |-> Score(m, headroom[m])]
      best == {m \in group.members : \A n \in group.members : score[n] <= score[m]}
  IN  CHOOSE m \in best : \A n \in best : Priority[m] <= Priority[n]
-----------------------------------------------------------------------------
Become(t, o) == op' = [op EXCEPT ![t] = o]

HasRoom(m) == HeadroomFast(m) >= 0

(* The history: a select begins with the models that have room, ... *)
Begins(t) ==
  free' = [s \in Task |-> IF s = t THEN {m \in group.members : HasRoom(m)}
                         ELSE free[s]]

(* ... and loses those that run out of it. *)
Continue(begun) ==
  free' = [s \in Task |-> IF s \in begun THEN {m \in free[s] : HasRoom(m)'} ELSE {}]

Selecting == {t \in Task : op[t].pc = "pass1"}

(* The end of Pass 1 for one member after the other: its headroom is read, *)
(* and its windows drained, while other selects go on.                     *)
ReadHeadroom(t, m) ==
  /\ op[t].pc \in {"idle", "pass1"}
  /\ m \in group.members \ DOMAIN op[t].headroom
  /\ \A n \in group.members \ DOMAIN op[t].headroom : Priority[m] <= Priority[n]
  /\ op[t].pc = "idle" => MapThenSumSet(Recent, Brand) < TrafficBound
  /\ usage' = [usage EXCEPT ![m] = Scored(@)]
  /\ Become(t, [op[t] EXCEPT
       !.pc = "pass1",
       !.headroom = [n \in DOMAIN @ \cup {m} |->
                       IF n = m THEN HeadroomFast(m) ELSE @[n]]])
  /\ IF op[t].pc = "idle" THEN Begins(t) ELSE UNCHANGED free
  /\ UNCHANGED <<group, remaining, traffic, sticky>>

(* Pass 2: the traffic and the sticky record are read, the winner reserved. *)
Rank(t) ==
  LET m == Winner(op[t].headroom) IN
  /\ op[t].pc = "pass1" /\ DOMAIN op[t].headroom = group.members
  /\ usage' = [usage EXCEPT ![m] = TryReserved(@)]
  /\ Become(t, [op[t] EXCEPT !.pc = "record", !.model = m, !.headroom = <<>>])
  /\ UNCHANGED <<group, remaining, traffic, sticky>>
  /\ Continue(Selecting \ {t})

(* The selection enters the brand's window, ... *)
RecordTraffic(t) ==
  /\ op[t].pc = "record"
  /\ traffic' = [traffic EXCEPT ![BrandOf[op[t].model]][0] = @ + 1]
  /\ Become(t, [op[t] EXCEPT !.pc = IF group.sticky THEN "remember" ELSE "calling"])
  /\ UNCHANGED <<group, usage, remaining, sticky, free>>

(* ... and a sticky group remembers it. *)
RememberModel(t) ==
  /\ op[t].pc = "remember"
  /\ sticky' = [model |-> op[t].model, age |-> 0]
  /\ Become(t, [op[t] EXCEPT !.pc = "calling"])
  /\ UNCHANGED <<group, usage, remaining, traffic, free>>

(* Calls of model m that count nowhere: given back, not yet recorded. *)
Pushing(m) == {t \in Task : op[t].pc = "push" /\ op[t].model = m}

(* report_success gives the slot back, ... *)
ReportSuccess(t) ==
  /\ op[t].pc = "calling"
  /\ usage' = [usage EXCEPT ![op[t].model] = CancelledReservation(@)]
  /\ Become(t, [op[t] EXCEPT !.pc = "push"])
  /\ UNCHANGED <<group, remaining, traffic, sticky>>
  /\ Continue(Selecting)

(* ... records the call in the windows ... *)
Push(t) ==
  /\ op[t].pc = "push"
  /\ usage' = [usage EXCEPT ![op[t].model] = Recorded(@)]
  /\ Become(t, [op[t] EXCEPT !.pc = "anchor"])
  /\ UNCHANGED <<group, remaining, traffic, sticky>>
  /\ Continue(Selecting)

(* anchor_remaining: the provider's last word stays until its next one. *)
Anchored(left, reported) == IF reported = None THEN left ELSE reported

(* ... and keeps what the provider says is left.  There is no ceiling to raise. *)
Anchor(t, left) ==
  LET m == op[t].model IN
  /\ op[t].pc = "anchor" /\ left \in Remaining[m]
  /\ remaining' = [remaining EXCEPT ![m] = Anchored(@, left)]
  /\ Become(t, Idle)
  /\ UNCHANGED <<group, usage, traffic, sticky>>
  /\ Continue(Selecting)

(* Time passes; selects are over long before it is noticed. *)
Tick ==
  /\ \A t \in Task : op[t].pc # "pass1"
  /\ usage' = [m \in Model |-> Aged(usage[m])]
  /\ traffic' = [b \in Brand |-> [age \in 0..(TrafficSpan - 1) |->
                                    IF age = 0 THEN 0 ELSE traffic[b][age - 1]]]
  /\ sticky' = [sticky EXCEPT !.age = Min({@ + 1, StickyTtl})]
  /\ UNCHANGED <<group, remaining, op, free>>

Next ==
  \/ \E t \in Task :
       \/ \E m \in Model : ReadHeadroom(t, m)
       \/ Rank(t)
       \/ RecordTraffic(t)
       \/ RememberModel(t)
       \/ ReportSuccess(t)
       \/ Push(t)
       \/ \E left \in UNION {Remaining[m] : m \in Model} : Anchor(t, left)
  \/ Tick

Spec == Init /\ [][Next]_vars
-----------------------------------------------------------------------------
TypeOK ==
  /\ group \in Group
  /\ usage \in [Model -> [in_flight : Nat, rpm : Seq(0..(Span + 1)),
                          tpm : Seq(0..(Span + 1)),
                          learned : Nat \cup {NotLearned}, since : 0..Span,
                          announced : BOOLEAN]]
  /\ remaining \in [Model -> Nat \cup {None}]
  /\ traffic \in [Brand -> [0..(TrafficSpan - 1) -> Nat]]
  /\ sticky \in [model : Model \cup {None}, age : 0..StickyTtl]
  /\ \A t \in Task :
       op[t].pc \in {"idle", "pass1", "record", "remember", "calling", "push",
                     "anchor"}

(* A candidate that differs from m in nothing but its headroom. *)
Peer(n, m) ==
  n \in group.members /\ BrandOf[n] = BrandOf[m] /\ Merit[n] >= Merit[m]

(* README.md: a sticky bonus "can't keep a rate-limited or headroom-drained *)
(* model winning, so rotation under load is unaffected"; headroom is a soft *)
(* limit that selects read before they reserve, and a report takes its call *)
(* out of one count before it puts it into the other.  Together: selects    *)
(* and reports that race, sticky or not, overrun a model's quota by one     *)
(* call each at most, those that count nowhere included, while a model like *)
(* it has room all the time.                                                *)
QuotaSpilled ==
  [][\A t \in Task, m \in Model :
       (Rank(t) /\ op'[t].model = m /\ Rpm[m] # None
        /\ \E n \in free[t] : Peer(n, m))
         => Used(usage'[m]) + Cardinality(Pushing(m))
              <= Rpm[m] + Cardinality(Task) - 1]_vars

(* selector.rs, STICKY_BONUS: "enough to win a tie or a near-tie (so        *)
(* consecutive calls clump on one provider)".  The balance of traffic pulls *)
(* the other way with every call: as long as overrides leave the weights a  *)
(* sum of at least 84, it alone never takes a call from a warm model, which *)
(* loses only to more headroom or merit.                                    *)
WarmModelKept ==
  [][\A t \in Task :
       (Rank(t) /\ Fresh /\ TotalWeight >= 84
        /\ sticky.model \in group.members
        /\ Comfortable(op[t].headroom[sticky.model]))
         => LET m == op'[t].model IN
            \/ m = sticky.model
            \/ Merit[m] > Merit[sticky.model]
            \/ op[t].headroom[m] > op[t].headroom[sticky.model]]_vars
=============================================================================
