--------------------------- MODULE SelectorProofs ---------------------------
(***************************************************************************)
(* For every catalog, every set of requests and any number of tasks: what  *)
(* a select may serve, whatever reports, cooldowns and other selects do    *)
(* between its steps, and that its slots are those of SlotPool.            *)
(*                                                                         *)
(* The argument has three parts.  Inv is the types and the counters.       *)
(* SelectInv is what is known of the buckets a select has found so far, of *)
(* the model whose keys it tries and of the keys it has passed over: facts *)
(* about what was true at every moment since it began, which later moments *)
(* can only take from.  Covered is the converse, that no bucket that could *)
(* serve all the time is overlooked; it holds of each brand's first key.   *)
(***************************************************************************)
EXTENDS Selector, FiniteSetTheorems, TLAPS

LOCAL INSTANCE SequencesExt

(* A model's brand is a brand, its pool a sequence of distinct keys. *)
LEMMA PoolType ==
  ASSUME NEW m \in Model
  PROVE  /\ BrandOf[m] \in Brand
         /\ Pool[BrandOf[m]] \in Seq(Key)
         /\ KeysOf(m) = {Pool[BrandOf[m]][i] : i \in DOMAIN Pool[BrandOf[m]]}
         /\ DOMAIN Pool[BrandOf[m]] \subseteq Nat
         /\ KeysOf(m) \subseteq Key
<1>1. Catalog.models[m] \in Models
  BY SelectorAssumption DEF IsCatalog
<1>2. BrandOf[m] \in Brand
  BY <1>1 DEF BrandOf, Models
<1>3. Pool[BrandOf[m]] \in Seq(Key)
  BY <1>2, SelectorAssumption
<1>4. KeysOf(m) = {Pool[BrandOf[m]][i] : i \in DOMAIN Pool[BrandOf[m]]}
  BY DEF KeysOf, ToSet
<1> QED
  BY <1>2, <1>3, <1>4

(* A bucket is a model with one of the keys that serve it. *)
LEMMA BucketType ==
  /\ \A b \in Bucket : /\ b = <<b[1], b[2]>>
                       /\ b[1] \in Model
                       /\ b[2] \in ServingKeys(b[1])
                       /\ b[2] \in Key \cup {NoKey}
  /\ \A m \in Model : \A k \in ServingKeys(m) : <<m, k>> \in Bucket
<1>1. \A b : b \in Bucket <=> \E m \in Model : \E k \in ServingKeys(m) : b = <<m, k>>
  BY DEF Bucket
<1>2. \A m \in Model : ServingKeys(m) \subseteq Key \cup {NoKey}
  BY PoolType DEF ServingKeys
<1> QED
  BY <1>1, <1>2

(* A request that is served has terms, and the models it is routed to exist. *)
LEMMA ServedType ==
  ASSUME NEW r \in Served
  PROVE  /\ \A i \in DOMAIN r.rules : r.rules[i] \in Model
         /\ Admitted(r) \subseteq Model
<1>1. PICK q \in Request : r = Terms(q)
  BY DEF Served
<1>2. r.rules = Routed(Catalog, q)
  BY <1>1 DEF Terms
<1>3. ASSUME NEW i \in DOMAIN r.rules
      PROVE  r.rules[i] \in Model
  BY <1>2, SelectorAssumption DEF Routed, Passes, InService
<1> QED
  BY <1>3 DEF Admitted
-----------------------------------------------------------------------------
(* What the history variables of a task become: what is true now, and as     *)
(* long as its select lasts nothing that was not true before.                *)
LEMMA HistoryMoves ==
  ASSUME History, NEW t \in Task
  PROVE  /\ free'[t] \subseteq {b \in Bucket : Reachable(b)'}
         /\ closed'[t] \subseteq Limits'
         /\ Selecting(op[t]) => free'[t] \subseteq free[t] /\ closed'[t] \subseteq closed[t]
         /\ ~Selecting(op[t]) => free'[t] \subseteq Asked(op'[t].req)
         /\ ~Selecting(op'[t]) => free'[t] = {} /\ closed'[t] = {}
<1> DEFINE asked == IF Selecting(op'[t]) THEN Asked(op'[t].req) ELSE {}
<1>1. free'[t] = Since(free, t, asked, {b \in Bucket : Reachable(b)'})
  BY DEF History
<1>2. closed'[t] = Since(closed, t, UNION {LimitsOn(b) : b \in asked}, Limits')
  BY DEF History
<1> QED
  BY <1>1, <1>2 DEF Since

(* The limits there may be. *)
AllLimits ==
  ({"model"} \X Model) \cup ({"brand"} \X Brand) \cup ({"key", "quota"} \X Key)

(* The history variables keep their types. *)
LEMMA HistoryType ==
  ASSUME History,
         model_limited' \subseteq Model, brand_limited' \subseteq Brand,
         key_limited' \subseteq Key, quota_limited' \subseteq Key
  PROVE  /\ free' \in [Task -> SUBSET Bucket]
         /\ closed' \in [Task -> SUBSET AllLimits]
<1>1. Limits' \subseteq AllLimits
  BY DEF Limits, AllLimits
<1>2. \A t \in Task : free'[t] \subseteq Bucket /\ closed'[t] \subseteq AllLimits
  BY <1>1, HistoryMoves
<1>3. free' = [t \in Task |-> free'[t]] /\ closed' = [t \in Task |-> closed'[t]]
  BY DEF History
<1> QED
  BY <1>2, <1>3
-----------------------------------------------------------------------------
(* What a task may be doing, read from its state ... *)
LEMMA OpFields ==
  ASSUME NEW o \in Op
  PROVE  /\ o.pc \in {"check", "pick", "admit", "reserve", "exhausted"} => o.req \in Served
         /\ o.pc \in {"check", "pick", "admit"} =>
              o.todo \subseteq DOMAIN o.req.rules /\ o.cands \subseteq Bucket
         /\ o.pc = "pick" => /\ o \in PickOp(o.req, o.model)
                            /\ o.model \in Model
                            /\ o.keys \subseteq DOMAIN Pool[BrandOf[o.model]]
         /\ o.pc = "reserve" => /\ o \in ReserveOp(o.req)
                               /\ o.left \subseteq Bucket /\ o.left # {}
                               /\ o.fallback \in BOOLEAN
         /\ o.pc \in {"admit", "holding", "details"} => o.bucket \in Bucket
<1>1. CASE o \in OtherOp
  BY <1>1 DEF OtherOp, Idle
<1>2. CASE o \notin OtherOp
  <2>1. PICK r \in Served : o \in SelectOp(r)
    BY <1>2 DEF Op
  <2>2. CASE o \in [pc : {"check"}, req : {r}, todo : SUBSET DOMAIN r.rules,
                     cands : SUBSET Bucket]
    BY <2>2
  <2>3. ASSUME NEW m \in Model, o \in PickOp(r, m)
        PROVE  /\ o.pc = "pick" /\ o.req = r /\ o.model = m
               /\ o.todo \subseteq DOMAIN r.rules /\ o.cands \subseteq Bucket
               /\ o.keys \subseteq DOMAIN Pool[BrandOf[m]]
    BY <2>3 DEF PickOp
  <2>4. CASE o \in [pc : {"admit"}, req : {r}, todo : SUBSET DOMAIN r.rules,
                     cands : SUBSET Bucket, bucket : Bucket]
    BY <2>4
  <2>5. CASE o \in ReserveOp(r)
    BY <2>5 DEF ReserveOp
  <2>6. CASE o \in [pc : {"exhausted"}, req : {r}]
    BY <2>6
  <2> QED
    BY <2>1, <2>2, <2>3, <2>4, <2>5, <2>6 DEF SelectOp
<1> QED
  BY <1>1, <1>2

(* ... and the states it may be put into. *)
LEMMA OtherForms ==
  /\ Idle \in Op /\ [pc |-> "not_found"] \in Op
  /\ \A b \in Bucket : Holding(b) \in Op /\ [pc |-> "details", bucket |-> b] \in Op
BY DEF Op, OtherOp, Holding

(* The states a select may be put into. *)
LEMMA SelectForms ==
  ASSUME NEW r \in Served
  PROVE  /\ [pc |-> "exhausted", req |-> r] \in Op
         /\ ReserveOp(r) \subseteq Op
         /\ \A m \in Model : PickOp(r, m) \subseteq Op
         /\ \A todo, cands : todo \subseteq DOMAIN r.rules /\ cands \subseteq Bucket =>
              /\ Checking(r, todo, cands) \in Op
              /\ \A b \in Bucket :
                   [pc |-> "admit", req |-> r, todo |-> todo, cands |-> cands,
                    bucket |-> b] \in Op
<1>1. SelectOp(r) \subseteq Op
  BY DEF Op
<1>2. /\ [pc |-> "exhausted", req |-> r] \in SelectOp(r)
      /\ ReserveOp(r) \subseteq SelectOp(r)
      /\ \A m \in Model : PickOp(r, m) \subseteq SelectOp(r)
  BY DEF SelectOp
<1>3. ASSUME NEW todo, NEW cands, todo \subseteq DOMAIN r.rules, cands \subseteq Bucket
      PROVE  /\ Checking(r, todo, cands) \in SelectOp(r)
             /\ \A b \in Bucket :
                  [pc |-> "admit", req |-> r, todo |-> todo, cands |-> cands,
                   bucket |-> b] \in SelectOp(r)
  BY <1>3 DEF SelectOp, Checking
<1> QED
  BY <1>1, <1>2, <1>3

(* A task that is put into a state there is leaves the others alone. *)
OpStep(t) == op'[t] \in Op /\ op' = [op EXCEPT ![t] = op'[t]]

(* What Become does to the other tasks: nothing. *)
LEMMA BecomeType ==
  ASSUME op \in [Task -> Op], NEW t \in Task, NEW o \in Op, Become(t, o)
  PROVE  OpStep(t) /\ op'[t] = o
BY DEF Become, OpStep
-----------------------------------------------------------------------------
(* Every step of a task is of that kind. *)
LEMMA TaskType ==
  ASSUME op \in [Task -> Op], NEW t \in Task, TaskStep(t)
  PROVE  OpStep(t)
<1>0. op[t] \in Op
  OBVIOUS
<1>1. ASSUME NEW r \in Request, Select(t, r)
      PROVE  OpStep(t)
  <2>1. CASE GroupNotFound(Catalog, r)
    BY <1>1, <2>1, OtherForms, BecomeType DEF Select
  <2>2. CASE ~GroupNotFound(Catalog, r)
    <3>1. Terms(r) \in Served
      BY <2>2 DEF Served
    <3>2. Checking(Terms(r), DOMAIN Terms(r).rules, {}) \in Op
      BY <3>1, SelectForms
    <3> QED
      BY <1>1, <2>2, <3>2, BecomeType DEF Select
  <2> QED
    BY <2>1, <2>2
<1>2. CASE Check(t)
  <2>1. /\ op[t].pc = "check" /\ op[t].req \in Served
        /\ op[t].todo \subseteq DOMAIN op[t].req.rules /\ op[t].cands \subseteq Bucket
    BY <1>0, <1>2, OpFields DEF Check
  <2>2. PICK i \in Least(op[t].todo) : CheckRule(t, i)
    BY <1>2 DEF Check
  <2> DEFINE m == op[t].req.rules[i]
             todo == op[t].todo \ {i}
  <2>3. m \in Model /\ todo \subseteq DOMAIN op[t].req.rules
    BY <2>1, ServedType DEF Least
  <2>4. Checking(op[t].req, todo, op[t].cands) \in Op
    BY <2>1, <2>3, SelectForms
  <2>5. [pc |-> "pick", req |-> op[t].req, todo |-> todo, cands |-> op[t].cands,
         model |-> m, keys |-> DOMAIN Pool[BrandOf[m]]] \in PickOp(op[t].req, m)
    BY <2>1, <2>3 DEF PickOp
  <2>6. [pc |-> "pick", req |-> op[t].req, todo |-> todo, cands |-> op[t].cands,
         model |-> m, keys |-> DOMAIN Pool[BrandOf[m]]] \in Op
    BY <2>1, <2>3, <2>5, SelectForms
  <2> QED
    BY <2>2, <2>4, <2>6, BecomeType DEF CheckRule
<1>3. CASE TryKey(t)
  <2> DEFINE m == op[t].model
             pool == Pool[BrandOf[m]]
  <2>1. /\ op[t].pc = "pick" /\ op[t].req \in Served /\ m \in Model
        /\ op[t].todo \subseteq DOMAIN op[t].req.rules /\ op[t].cands \subseteq Bucket
        /\ op[t].keys \subseteq DOMAIN pool
        /\ op[t] \in PickOp(op[t].req, m)
    BY <1>0, <1>3, OpFields DEF TryKey
  <2>2. ASSUME NEW k \in ServingKeys(m), Pick(t, k)
        PROVE  OpStep(t)
    <3>1. <<m, k>> \in Bucket
      BY <2>1, BucketType
    <3>2. [pc |-> "admit", req |-> op[t].req, todo |-> op[t].todo, cands |-> op[t].cands,
           bucket |-> <<m, k>>] \in Op
      BY <2>1, <3>1, SelectForms
    <3> QED
      BY <2>2, <3>2, BecomeType DEF Pick
  <2>3. ASSUME NEW i \in Least(op[t].keys), TryKeyAt(t, i)
        PROVE  OpStep(t)
    <3>1. i \in DOMAIN pool
      BY <2>1 DEF Least
    <3>2. pool[i] \in KeysOf(m)
      BY <2>1, <3>1, PoolType
    <3>3. pool[i] \in ServingKeys(m)
      BY <3>2 DEF ServingKeys
    <3>4. [op[t] EXCEPT !.keys = @ \ {i}] \in PickOp(op[t].req, m)
      BY <2>1 DEF PickOp
    <3>5. [op[t] EXCEPT !.keys = @ \ {i}] \in Op
      BY <2>1, <3>4, SelectForms
    <3> QED
      BY <2>2, <2>3, <3>3, <3>5, BecomeType DEF TryKeyAt
  <2>4. ASSUME NoKeyLeft(t)
        PROVE  OpStep(t)
    <3>1. Checking(op[t].req, op[t].todo, op[t].cands \cup {}) \in Op
      BY <2>1, SelectForms
    <3> QED
      BY <2>2, <2>4, <3>1, BecomeType DEF NoKeyLeft, ServingKeys, NextRule
  <2> QED
    BY <1>3, <2>3, <2>4 DEF TryKey
<1>4. CASE Admit(t)
  <2>1. /\ op[t].pc = "admit" /\ op[t].req \in Served /\ op[t].bucket \in Bucket
        /\ op[t].todo \subseteq DOMAIN op[t].req.rules /\ op[t].cands \subseteq Bucket
    BY <1>0, <1>4, OpFields DEF Admit
  <2>2. \A found \in SUBSET Bucket :
          Checking(op[t].req, op[t].todo, op[t].cands \cup found) \in Op
    BY <2>1, SelectForms
  <2>3. (IF AtCapacity(op[t].bucket) THEN {} ELSE {op[t].bucket}) \in SUBSET Bucket
    BY <2>1
  <2> QED
    BY <1>4, <2>2, <2>3, BecomeType DEF Admit, NextRule
<1>5. CASE Decide(t)
  <2> DEFINE r == op[t].req
             fast == {b \in op[t].cands : WithinCeiling(r, b)}
             left == IF fast = {} THEN op[t].cands ELSE fast
  <2>1. op[t].pc = "check" /\ r \in Served /\ op[t].cands \subseteq Bucket
    BY <1>0, <1>5, OpFields DEF Decide
  <2>2. (fast = {}) \in BOOLEAN
    OBVIOUS
  <2>3. op[t].cands # {} => left # {} /\ left \in SUBSET Bucket
    BY <2>1
  <2>4. IF op[t].cands = {}
        THEN Become(t, [pc |-> "exhausted", req |-> r])
        ELSE Become(t, [pc |-> "reserve", req |-> r, fallback |-> fast = {}, left |-> left])
    BY <1>5 DEF Decide, Exhausted
  <2> HIDE DEF fast, left
  <2>5. op[t].cands # {} =>
          [pc |-> "reserve", req |-> r, fallback |-> fast = {}, left |-> left] \in ReserveOp(r)
    BY <2>2, <2>3 DEF ReserveOp
  <2> QED
    BY <2>1, <2>4, <2>5, SelectForms, BecomeType
<1>6. CASE Fail(t)
  BY <1>6, OtherForms, BecomeType DEF Fail
<1>7. ASSUME NEW b \in Bucket, Reserve(t, b)
      PROVE  OpStep(t)
  <2>1. /\ op[t].pc = "reserve" /\ op[t].req \in Served
        /\ op[t] \in ReserveOp(op[t].req) /\ op[t].left # {}
    BY <1>0, <1>7, OpFields DEF Reserve
  <2>2. op[t].left # {b} => [op[t] EXCEPT !.left = @ \ {b}] \in ReserveOp(op[t].req)
    BY <2>1 DEF ReserveOp
  <2>3. op[t].left # {b} => [op[t] EXCEPT !.left = @ \ {b}] \in Op
    BY <2>1, <2>2, SelectForms
  <2>4. [pc |-> "exhausted", req |-> op[t].req] \in Op
    BY <2>1, SelectForms
  <2> QED
    BY <1>7, <2>3, <2>4, OtherForms, BecomeType DEF Reserve, Exhausted
<1>8. CASE ReportSuccess(t) \/ CancelReservation(t)
  BY <1>8, OtherForms, BecomeType DEF ReportSuccess, CancelReservation
<1>9. ASSUME NEW e \in ErrorType, ReportRateLimit(t, e) \/ ReportError(t, e)
      PROVE  OpStep(t)
  <2>1. op[t].bucket \in Bucket
    BY <1>0, <1>9, OpFields DEF ReportRateLimit, ReportError
  <2> QED
    BY <1>9, <2>1, OtherForms, BecomeType DEF ReportRateLimit, ReportError
<1>10. ASSUME NEW retry \in BOOLEAN, NEW brand_quota \in BOOLEAN,
              ReportQuotaDetails(t, retry, brand_quota)
       PROVE  OpStep(t)
  BY <1>10, OtherForms, BecomeType DEF ReportQuotaDetails
<1> QED
  BY <1>1, <1>2, <1>3, <1>4, <1>5, <1>6, <1>7, <1>8, <1>9, <1>10 DEF TaskStep
-----------------------------------------------------------------------------
(* The limits and the learned ceilings keep their types: what is limited is  *)
(* always the model, the brand or the key of a bucket, never the missing key.*)
LimitsOK ==
  /\ model_limited \subseteq Model /\ brand_limited \subseteq Brand
  /\ key_limited \subseteq Key /\ quota_limited \subseteq Key
  /\ learned \in [Bucket -> {"none", "room", "spent"}]

(* Every step keeps the types of the limits. *)
LEMMA LimitsType ==
  ASSUME op \in [Task -> Op], LimitsOK,
         \/ Expire
         \/ \E b \in Bucket : LearnedMoves(b)
         \/ \E t \in Task : TaskStep(t)
  PROVE  LimitsOK'
<1> USE DEF LimitsOK, limits
<1>1. CASE Expire
  BY <1>1 DEF Expire
<1>2. ASSUME NEW b \in Bucket, LearnedMoves(b)
      PROVE  LimitsOK'
  BY <1>2 DEF LearnedMoves
<1>3. ASSUME NEW t \in Task,
             (\E r \in Request : Select(t, r)) \/ Check(t) \/ TryKey(t) \/ Admit(t)
               \/ Decide(t) \/ Fail(t) \/ (\E b \in Bucket : Reserve(t, b))
               \/ CancelReservation(t)
      PROVE  LimitsOK'
  <2>1. UNCHANGED <<limits, learned>>
    BY <1>3 DEF Select, Check, TryKey, Admit, Decide, Fail, Reserve, CancelReservation
  <2> QED
    BY <2>1
<1>4. ASSUME NEW t \in Task, NEW e,
             ReportSuccess(t) \/ ReportRateLimit(t, e) \/ ReportError(t, e)
      PROVE  LimitsOK'
  <2>1. op[t].bucket \in Bucket
    BY <1>4, OpFields DEF ReportSuccess, ReportRateLimit, ReportError
  <2>2. op[t].bucket[1] \in Model /\ (op[t].bucket[2] # NoKey => op[t].bucket[2] \in Key)
    BY <2>1, BucketType
  <2>3. model_limited' \subseteq Model /\ key_limited' \subseteq Key
    BY <1>4, <2>2 DEF ReportSuccess, ReportRateLimit, ReportError, Mark
  <2>4. UNCHANGED <<brand_limited, quota_limited>>
    BY <1>4 DEF ReportSuccess, ReportRateLimit, ReportError
  <2>5. learned' \in [Bucket -> {"none", "room", "spent"}]
    BY <1>4, <2>1 DEF ReportSuccess, ReportRateLimit, ReportError
  <2> QED
    BY <2>3, <2>4, <2>5
<1>5. ASSUME NEW t \in Task, NEW retry, NEW brand_quota,
             ReportQuotaDetails(t, retry, brand_quota)
      PROVE  LimitsOK'
  <2>1. op[t].bucket \in Bucket
    BY <1>5, OpFields DEF ReportQuotaDetails
  <2>2. /\ op[t].bucket[1] \in Model /\ BrandOf[op[t].bucket[1]] \in Brand
        /\ op[t].bucket[2] # NoKey => op[t].bucket[2] \in Key
    BY <2>1, BucketType, PoolType
  <2> QED
    BY <1>5, <2>2 DEF ReportQuotaDetails
<1> QED
  BY <1>1, <1>2, <1>3, <1>4, <1>5 DEF TaskStep
-----------------------------------------------------------------------------
(* A task takes a slot, gives its slot back, or leaves the slots alone. *)
Takes(t, b) ==
  /\ op[t].pc = "reserve" /\ ~Full(b)
  /\ in_flight' = [in_flight EXCEPT ![b] = @ + 1] /\ op'[t] = Holding(b)
Gives(t) ==
  op[t].pc = "holding" /\ GiveBack(op[t].bucket) /\ op'[t].pc # "holding"
Keeps(t) ==
  op[t].pc # "holding" /\ op'[t].pc # "holding" /\ UNCHANGED in_flight

(* Every step of a task takes a slot, gives one back or keeps them. *)
LEMMA SlotCases ==
  ASSUME op \in [Task -> Op], NEW t \in Task, TaskStep(t)
  PROVE  (\E b \in Bucket : Takes(t, b)) \/ Gives(t) \/ Keeps(t)
<1>1. \A o : Become(t, o) => op'[t] = o
  BY DEF Become
<1>2. ASSUME NEW r \in Request, Select(t, r)
      PROVE  Keeps(t)
  BY <1>1, <1>2 DEF Keeps, Select, Idle, Checking
<1>3. CASE Check(t) \/ TryKey(t) \/ Admit(t)
  <2>1. ASSUME NEW i, CheckRule(t, i)
        PROVE  op'[t].pc # "holding"
    BY <1>1, <2>1 DEF CheckRule, Checking
  <2>2. \A k : Pick(t, k) => op'[t].pc # "holding"
    BY <1>1 DEF Pick
  <2>3. \A found : NextRule(t, found) => op'[t].pc # "holding"
    BY <1>1 DEF NextRule, Checking
  <2>4. ASSUME NEW i, TryKeyAt(t, i), op[t].pc = "pick"
        PROVE  op'[t].pc # "holding"
    <3>1. op[t] \in PickOp(op[t].req, op[t].model)
      BY <2>4, OpFields
    <3>2. [op[t] EXCEPT !.keys = @ \ {i}].pc = "pick"
      BY <2>4, <3>1 DEF PickOp
    <3> QED
      BY <1>1, <2>2, <2>4, <3>2 DEF TryKeyAt
  <2> QED
    BY <1>3, <2>1, <2>2, <2>3, <2>4 DEF Keeps, Check, TryKey, Admit, NoKeyLeft
<1>4. CASE Decide(t) \/ Fail(t)
  BY <1>1, <1>4 DEF Keeps, Decide, Fail, Exhausted, Idle
<1>5. ASSUME NEW b \in Bucket, Reserve(t, b)
      PROVE  Takes(t, b) \/ Keeps(t)
  <2>1. op[t].pc = "reserve" /\ op[t] \in ReserveOp(op[t].req)
    BY <1>5, OpFields DEF Reserve
  <2> DEFINE rest == [op[t] EXCEPT !.left = @ \ {b}]
  <2>2. rest.pc = "reserve"
    BY <2>1 DEF ReserveOp
  <2>3. CASE ~Full(b)
    BY <1>1, <1>5, <2>1, <2>3 DEF Reserve, Takes
  <2>4. CASE Full(b)
    <3>1. \/ op'[t] = [pc |-> "exhausted", req |-> op[t].req]
          \/ op'[t] = rest
      BY <1>1, <1>5, <2>4 DEF Reserve, Exhausted
    <3>2. UNCHANGED in_flight
      BY <1>5, <2>4 DEF Reserve
    <3> HIDE DEF rest
    <3>3. op'[t].pc # "holding"
      BY <2>2, <3>1
    <3> QED
      BY <2>1, <3>2, <3>3 DEF Keeps
  <2> QED
    BY <2>3, <2>4
<1>6. ASSUME NEW e, ReportSuccess(t) \/ CancelReservation(t) \/ ReportRateLimit(t, e)
                      \/ ReportError(t, e)
      PROVE  Gives(t)
  BY <1>1, <1>6
     DEF Gives, ReportSuccess, CancelReservation, ReportRateLimit, ReportError, Idle
<1>7. ASSUME NEW retry, NEW brand_quota, ReportQuotaDetails(t, retry, brand_quota)
      PROVE  Keeps(t)
  BY <1>1, <1>7 DEF Keeps, ReportQuotaDetails, Idle
<1> QED
  BY <1>2, <1>3, <1>4, <1>5, <1>6, <1>7 DEF TaskStep
-----------------------------------------------------------------------------
(* The tasks that hold a slot of a bucket, and how the steps move them. *)
HoldersOf(b) == {t \in Task : op[t].pc = "holding" /\ op[t].bucket = b}

(* A bucket has finitely many holders. *)
LEMMA HoldersFinite == \A b : IsFiniteSet(HoldersOf(b)) /\ Cardinality(HoldersOf(b)) \in Nat
<1>1. \A b : HoldersOf(b) \subseteq Task
  BY DEF HoldersOf
<1> QED
  BY <1>1, FS_Subset, FS_CardinalityType, SelectorAssumption

(* How a step of a task moves the holders of a bucket. *)
LEMMA HoldersMove ==
  ASSUME op \in [Task -> Op], NEW t \in Task, OpStep(t), NEW b \in Bucket
  PROVE  /\ \A c : Takes(t, c) =>
              t \notin HoldersOf(b) /\ HoldersOf(b)' = IF b = c THEN HoldersOf(b) \cup {t}
                                                     ELSE HoldersOf(b)
         /\ Gives(t) => /\ b = op[t].bucket <=> t \in HoldersOf(b)
                       /\ HoldersOf(b)' = HoldersOf(b) \ {t}
         /\ Keeps(t) => HoldersOf(b)' = HoldersOf(b)
BY DEF OpStep, HoldersOf, Takes, Gives, Keeps, Holding

Counted == \A b \in Bucket : in_flight[b] = Cardinality(HoldersOf(b))

(* A step of a task keeps the counters those of the tasks that hold a slot: *)
(* what is given back was taken, so no counter falls below zero.            *)
LEMMA CountedKept ==
  ASSUME op \in [Task -> Op], in_flight \in [Bucket -> Nat], Counted,
         NEW t \in Task, TaskStep(t)
  PROVE  in_flight' \in [Bucket -> Nat] /\ Counted'
<1>1. OpStep(t)
  BY TaskType
<1>2. ASSUME NEW b \in Bucket, Takes(t, b)
      PROVE  in_flight' \in [Bucket -> Nat] /\ Counted'
  <2>1. in_flight' \in [Bucket -> Nat]
    BY <1>2 DEF Takes
  <2>2. ASSUME NEW c \in Bucket
        PROVE  in_flight'[c] = Cardinality(HoldersOf(c)')
    <3>1. t \notin HoldersOf(c) /\ HoldersOf(c)' = IF c = b THEN HoldersOf(c) \cup {t}
                                                  ELSE HoldersOf(c)
      BY <1>1, <1>2, HoldersMove
    <3>2. Cardinality(HoldersOf(c) \cup {t}) = Cardinality(HoldersOf(c)) + 1
      BY <3>1, HoldersFinite, FS_AddElement
    <3> QED
      BY <1>2, <3>1, <3>2 DEF Takes, Counted
  <2> QED
    BY <2>1, <2>2 DEF Counted
<1>3. CASE Gives(t)
  <2> DEFINE b == op[t].bucket
  <2>1. b \in Bucket
    BY <1>3, OpFields DEF Gives
  <2>2. t \in HoldersOf(b)
    BY <1>1, <1>3, <2>1, HoldersMove
  <2>3. ASSUME NEW c \in Bucket
        PROVE  in_flight'[c] \in Nat /\ in_flight'[c] = Cardinality(HoldersOf(c)')
    <3>1. /\ c = b <=> t \in HoldersOf(c)
          /\ HoldersOf(c)' = HoldersOf(c) \ {t}
      BY <1>1, <1>3, HoldersMove
    <3>2. CASE c = b
      <4>1. Cardinality(HoldersOf(c)') = Cardinality(HoldersOf(c)) - 1
        <5>1. t \in HoldersOf(c) /\ IsFiniteSet(HoldersOf(c))
          BY <3>1, <3>2, HoldersFinite
        <5>2. Cardinality(HoldersOf(c) \ {t}) = Cardinality(HoldersOf(c)) - 1
          BY <5>1, FS_RemoveElement
        <5> QED
          BY <3>1, <5>2
      <4>2. Cardinality(HoldersOf(c)') \in Nat
        <5>1. IsFiniteSet(HoldersOf(c) \ {t})
          BY HoldersFinite, FS_RemoveElement
        <5> QED
          BY <3>1, <5>1, FS_CardinalityType
      <4> QED
        BY <1>3, <2>1, <3>2, <4>1, <4>2 DEF Gives, GiveBack, Counted
    <3>3. CASE c # b
      <4>1. HoldersOf(c)' = HoldersOf(c)
        BY <3>1, <3>3
      <4> QED
        BY <1>3, <3>3, <4>1 DEF Gives, GiveBack, Counted
    <3> QED
      BY <3>2, <3>3
  <2>4. in_flight' = [c \in Bucket |-> in_flight'[c]]
    BY <1>3 DEF Gives, GiveBack
  <2> QED
    BY <2>3, <2>4 DEF Counted
<1>4. CASE Keeps(t)
  BY <1>1, <1>4, HoldersMove DEF Keeps, Counted
<1> QED
  BY <1>2, <1>3, <1>4, SlotCases
-----------------------------------------------------------------------------
(* The types hold and the counters are those of the tasks with a slot. *)
Inv == TypeOK /\ Counted

(* At the start no task holds a slot. *)
LEMMA InvInit == Init => Inv
<1> SUFFICES ASSUME Init PROVE Inv
  OBVIOUS
<1>1. op \in [Task -> Op]
  BY OtherForms DEF Init
<1>2. \A b : HoldersOf(b) = {}
  BY DEF Init, HoldersOf, Idle
<1>3. Counted
  BY <1>2, FS_EmptySet DEF Init, Counted
<1> QED
  BY <1>1, <1>3 DEF Inv, TypeOK, Init

(* Every step keeps Inv. *)
LEMMA InvNext == Inv /\ [Next]_vars => Inv'
<1> SUFFICES ASSUME Inv, [Next]_vars PROVE Inv'
  OBVIOUS
<1>0. op \in [Task -> Op] /\ in_flight \in [Bucket -> Nat] /\ Counted /\ LimitsOK
  BY DEF Inv, TypeOK, LimitsOK
<1>1. CASE Next
  <2>1. LimitsOK'
    BY <1>0, <1>1, LimitsType DEF Next
  <2>2. free' \in [Task -> SUBSET Bucket] /\ closed' \in [Task -> SUBSET AllLimits]
    BY <1>1, <2>1, HistoryType DEF Next, LimitsOK
  <2>3. op' \in [Task -> Op] /\ in_flight' \in [Bucket -> Nat] /\ Counted'
    <3>1. CASE Expire \/ \E b \in Bucket : LearnedMoves(b)
      <4>1. UNCHANGED <<op, in_flight>>
        BY <3>1 DEF Expire, LearnedMoves
      <4> QED
        BY <1>0, <4>1 DEF Counted, HoldersOf
    <3>2. ASSUME NEW t \in Task, TaskStep(t)
          PROVE  op' \in [Task -> Op] /\ in_flight' \in [Bucket -> Nat] /\ Counted'
      <4>1. OpStep(t)
        BY <1>0, <3>2, TaskType
      <4>2. op' \in [Task -> Op]
        BY <1>0, <4>1 DEF OpStep
      <4> QED
        BY <1>0, <3>2, <4>2, CountedKept
    <3> QED
      BY <1>1, <3>1, <3>2 DEF Next
  <2> QED
    BY <2>1, <2>2, <2>3 DEF Inv, TypeOK, LimitsOK, AllLimits
<1>2. CASE UNCHANGED vars
  BY <1>0, <1>2 DEF vars, limits, Inv, TypeOK, Counted, HoldersOf
<1> QED
  BY <1>1, <1>2

(* Every variable keeps its type. *)
THEOREM TypeCorrect == Spec => []TypeOK
<1>1. Inv => TypeOK
  BY DEF Inv
<1> QED
  BY <1>1, InvInit, InvNext, PTL DEF Spec

(* What try_reserve compares with the cap, a bucket's counter, is the number *)
(* of the tasks that hold one of its slots: none is lost or counted twice by *)
(* selects, reports and cancellations in any order.                          *)
THEOREM CountersAreHolders == Spec => []InFlightCountsHolders
<1>1. Inv => InFlightCountsHolders
  BY DEF Inv, Counted, HoldersOf, InFlightCountsHolders
<1> QED
  BY <1>1, InvInit, InvNext, PTL DEF Spec
-----------------------------------------------------------------------------
(* SlotPool counts sets as FiniteSets does. *)
LEMMA SlotsCardinality == ASSUME NEW S PROVE Slots!Cardinality(S) = Cardinality(S)
BY DEF Slots!Cardinality, Cardinality

(* Steps that move no holder are invisible to the pool. *)
LEMMA SlotsStutter ==
  ASSUME \A b : HoldersOf(b)' = HoldersOf(b)
  PROVE  UNCHANGED Slots!vars
BY DEF Slots!vars, HoldersOf

(* Every step is a step of the pool or invisible to it. *)
LEMMA SlotsNext == Inv /\ [Next]_vars => [Slots!Next]_(Slots!vars)
<1> SUFFICES ASSUME Inv, [Next]_vars
             PROVE  Slots!Next \/ UNCHANGED Slots!vars
  OBVIOUS
<1>0. op \in [Task -> Op] /\ in_flight \in [Bucket -> Nat] /\ Counted
  BY DEF Inv, TypeOK
<1>1. CASE (Expire \/ \E b \in Bucket : LearnedMoves(b)) \/ UNCHANGED vars
  <2>1. UNCHANGED op
    BY <1>1 DEF Expire, LearnedMoves, vars
  <2> QED
    BY <2>1, SlotsStutter DEF HoldersOf
<1>2. ASSUME NEW t \in Task, TaskStep(t)
      PROVE  Slots!Next \/ UNCHANGED Slots!vars
  <2>0. OpStep(t)
    BY <1>0, <1>2, TaskType
  <2>1. ASSUME NEW b \in Bucket, Takes(t, b)
        PROVE  Slots!Next
    <3>1. b \in Model \X (Key \cup {NoKey}) /\ b[1] \in Model
      BY BucketType
    <3>2. \A d : t \notin HoldersOf(d)
      BY <2>1 DEF Takes, HoldersOf
    <3>3. Slots!Allows(Cap[b[1]], Cardinality(HoldersOf(b)) + 1)
      <4>1. in_flight[b] = Cardinality(HoldersOf(b)) /\ in_flight[b] \in Nat
        BY <1>0 DEF Counted
      <4>2. Cap[b[1]] = NoLimit \/ (Cap[b[1]] \in Nat /\ ~(in_flight[b] >= Cap[b[1]]))
        BY <2>1, <3>1, SelectorAssumption DEF Takes, Full
      <4> QED
        BY <4>1, <4>2 DEF Slots!Allows
    <3>4. \A d : HoldersOf(d)' = IF d = b THEN HoldersOf(d) \cup {t} ELSE HoldersOf(d)
      BY <1>0, <2>0, <2>1 DEF OpStep, HoldersOf, Takes, Holding
    <3>5. [d \in Model \X (Key \cup {NoKey}) |-> HoldersOf(d)']
            = [[d \in Model \X (Key \cup {NoKey}) |-> HoldersOf(d)] EXCEPT ![b] = @ \cup {t}]
      BY <3>1, <3>4
    <3>6. Slots!Acquire(t, b) /\ b \in Slots!Bucket
      BY <3>1, <3>2, <3>3, <3>5, SlotsCardinality
         DEF Slots!Acquire, Slots!Bucket, HoldersOf
    <3> QED
      BY <3>6 DEF Slots!Next
  <2>2. ASSUME NEW b, b = op[t].bucket, Gives(t)
        PROVE  Slots!Next
    <3>1. b \in Bucket /\ b \in Model \X (Key \cup {NoKey})
      BY <1>0, <2>2, OpFields, BucketType DEF Gives
    <3>2. t \in HoldersOf(b) /\ \A d : d # b => t \notin HoldersOf(d)
      BY <2>2 DEF Gives, HoldersOf
    <3>3. \A d : HoldersOf(d)' = HoldersOf(d) \ {t}
      BY <1>0, <2>0, <2>2 DEF OpStep, HoldersOf, Gives
    <3>4. [d \in Model \X (Key \cup {NoKey}) |-> HoldersOf(d)']
            = [[d \in Model \X (Key \cup {NoKey}) |-> HoldersOf(d)] EXCEPT ![b] = @ \ {t}]
      BY <3>1, <3>2, <3>3
    <3>5. Slots!Return(t, b) /\ b \in Slots!Bucket
      BY <3>1, <3>2, <3>4 DEF Slots!Return, Slots!Bucket, HoldersOf
    <3> QED
      BY <3>5 DEF Slots!Next
  <2>3. CASE Keeps(t)
    <3>1. \A d : HoldersOf(d)' = HoldersOf(d)
      BY <1>0, <2>0, <2>3 DEF OpStep, HoldersOf, Keeps
    <3> QED
      BY <3>1, SlotsStutter
  <2> QED
    <3>1. (\E b \in Bucket : Takes(t, b)) \/ Gives(t) \/ Keeps(t)
      BY <1>0, <1>2, SlotCases
    <3> QED
      BY <2>1, <2>2, <2>3, <3>1
<1> QED
  BY <1>1, <1>2 DEF Next

(* The pool starts empty. *)
LEMMA SlotsInit == Init => Slots!Init
<1> SUFFICES ASSUME Init PROVE Slots!Init
  OBVIOUS
<1>1. \A b : HoldersOf(b) = {}
  BY DEF Init, HoldersOf, Idle
<1>2. Cap \in [Model -> {Cap[m] : m \in Model}]
  BY SelectorAssumption
<1> QED
  BY <1>1, <1>2 DEF Slots!Init, Slots!Bucket, HoldersOf

(* Selects, reports and cancellations use the slots as SlotPool says: one at *)
(* most for each task, below the cap when it is taken, given back once.      *)
THEOREM ImplementsSlots == Spec => SlotsSpec
BY SlotsInit, SlotsNext, InvInit, InvNext, PTL DEF Spec, SlotsSpec, Slots!Spec
-----------------------------------------------------------------------------
(* The steps of a select, read from the state of its task before and after. *)
Same(t) == Selecting(op'[t]) /\ op'[t].req = op[t].req
Begins(t) ==
  /\ op[t] = Idle /\ op'[t].pc = "check" /\ op'[t].req \in Served
  /\ op'[t].todo = DOMAIN op'[t].req.rules /\ op'[t].cands = {}
Drops(t, i) ==
  LET m == op[t].req.rules[i] IN
  /\ op[t].pc = "check" /\ i \in op[t].todo
  /\ m \in op[t].req.exclude \/ KeyBlocked(m) \/ ModelBlocked(m)
  /\ Same(t) /\ op'[t].pc = "check"
  /\ op'[t].todo = op[t].todo \ {i} /\ op'[t].cands = op[t].cands
Opens(t, i) ==
  LET m == op[t].req.rules[i] IN
  /\ op[t].pc = "check" /\ i \in op[t].todo
  /\ m \notin op[t].req.exclude /\ ~KeyBlocked(m) /\ ~ModelBlocked(m)
  /\ Same(t) /\ op'[t].pc = "pick" /\ op'[t].model = m
  /\ op'[t].todo = op[t].todo \ {i} /\ op'[t].cands = op[t].cands
  /\ op'[t].keys = DOMAIN Pool[BrandOf[m]]
SkipsKey(t, i) ==
  /\ op[t].pc = "pick" /\ i \in op[t].keys
  /\ ~KeyServes(op[t].model, Pool[BrandOf[op[t].model]][i])
  /\ Same(t) /\ op'[t].pc = "pick" /\ op'[t].model = op[t].model
  /\ op'[t].todo = op[t].todo /\ op'[t].cands = op[t].cands
  /\ op'[t].keys = op[t].keys \ {i}
Picks(t, k) ==
  /\ op[t].pc = "pick"
  /\ \/ k = NoKey /\ KeysOf(op[t].model) = {}
     \/ \E i \in Least(op[t].keys) : /\ k = Pool[BrandOf[op[t].model]][i]
                                    /\ KeyServes(op[t].model, k)
  /\ Same(t) /\ op'[t].pc = "admit" /\ op'[t].bucket = <<op[t].model, k>>
  /\ op'[t].todo = op[t].todo /\ op'[t].cands = op[t].cands
NoneServes(t) ==
  /\ op[t].pc = "pick" /\ op[t].keys = {} /\ KeysOf(op[t].model) # {}
  /\ Same(t) /\ op'[t].pc = "check"
  /\ op'[t].todo = op[t].todo /\ op'[t].cands = op[t].cands
Admits(t) ==
  /\ op[t].pc = "admit"
  /\ Same(t) /\ op'[t].pc = "check" /\ op'[t].todo = op[t].todo
  /\ op'[t].cands = op[t].cands \cup IF AtCapacity(op[t].bucket) THEN {} ELSE {op[t].bucket}
GivesUp(t) ==
  op[t].pc = "check" /\ op[t].todo = {} /\ op[t].cands = {} /\ Same(t) /\ op'[t].pc = "exhausted"
Decides(t) ==
  /\ op[t].pc = "check" /\ op[t].todo = {} /\ Same(t) /\ op'[t].pc = "reserve"
  /\ \/ /\ op'[t].fallback /\ op'[t].left = op[t].cands
        /\ \A b \in op[t].cands : ~WithinCeiling(op[t].req, b)
     \/ /\ ~op'[t].fallback
        /\ op'[t].left = {b \in op[t].cands : WithinCeiling(op[t].req, b)}
Loses(t, b) ==
  /\ op[t].pc = "reserve" /\ b \in op[t].left /\ Full(b) /\ Same(t)
  /\ \/ op[t].left = {b} /\ op'[t].pc = "exhausted"
     \/ /\ op'[t].pc = "reserve" /\ op'[t].left = op[t].left \ {b}
        /\ op'[t].fallback = op[t].fallback

SelectStep(t) ==
  /\ UNCHANGED <<limits, in_flight, learned>>
  /\ \/ Begins(t) \/ NoneServes(t) \/ Admits(t) \/ GivesUp(t) \/ Decides(t)
     \/ \E i : Drops(t, i) \/ Opens(t, i) \/ SkipsKey(t, i)
     \/ \E k : Picks(t, k)
     \/ \E b \in Bucket : Loses(t, b)

(* Every step that leaves a task in its select is one of these. *)
LEMMA SelectCases ==
  ASSUME op \in [Task -> Op], NEW t \in Task, TaskStep(t), Selecting(op'[t])
  PROVE  SelectStep(t)
<1>0. op[t] \in Op /\ \A o : Become(t, o) => op'[t] = o
  BY DEF Become
<1>1. ASSUME NEW r \in Request, Select(t, r)
      PROVE  SelectStep(t)
  <2>1. ~GroupNotFound(Catalog, r)
    BY <1>0, <1>1 DEF Select, Selecting
  <2>2. Terms(r) \in Served
    BY <2>1 DEF Served
  <2> QED
    BY <1>0, <1>1, <2>1, <2>2 DEF Select, SelectStep, Begins, Checking
<1>2. CASE Check(t)
  <2>1. /\ op[t].pc = "check" /\ op[t].req \in Served
        /\ op[t].todo \subseteq DOMAIN op[t].req.rules
        /\ UNCHANGED <<limits, in_flight, learned>>
    BY <1>0, <1>2, OpFields DEF Check
  <2>2. PICK i \in Least(op[t].todo) : CheckRule(t, i)
    BY <1>2 DEF Check
  <2>3. i \in op[t].todo
    BY <2>1 DEF Least
  <2> DEFINE m == op[t].req.rules[i]
             todo == op[t].todo \ {i}
             skipped == m \in op[t].req.exclude \/ KeyBlocked(m) \/ ModelBlocked(m)
  <2>4. op'[t] = IF skipped THEN Checking(op[t].req, todo, op[t].cands)
                 ELSE [pc |-> "pick", req |-> op[t].req, todo |-> todo,
                       cands |-> op[t].cands, model |-> m, keys |-> DOMAIN Pool[BrandOf[m]]]
    BY <1>0, <2>2 DEF CheckRule
  <2>5. ASSUME skipped
        PROVE  Drops(t, i)
    <3>1. op'[t] = Checking(op[t].req, todo, op[t].cands)
      BY <2>4, <2>5
    <3>2. /\ op'[t].pc = "check" /\ op'[t].req = op[t].req
          /\ op'[t].todo = todo /\ op'[t].cands = op[t].cands
      BY <3>1 DEF Checking
    <3>3. Same(t)
      BY <3>2 DEF Same, Selecting
    <3> QED
      BY <2>1, <2>3, <2>5, <3>2, <3>3 DEF Drops
  <2>6. ASSUME ~skipped
        PROVE  Opens(t, i)
    <3>1. op'[t] = [pc |-> "pick", req |-> op[t].req, todo |-> todo,
                    cands |-> op[t].cands, model |-> m, keys |-> DOMAIN Pool[BrandOf[m]]]
      BY <2>4, <2>6
    <3>2. /\ op'[t].pc = "pick" /\ op'[t].req = op[t].req
          /\ op'[t].todo = todo /\ op'[t].cands = op[t].cands
          /\ op'[t].model = m /\ op'[t].keys = DOMAIN Pool[BrandOf[m]]
      <4> HIDE DEF m, todo
      <4> QED
        BY <3>1
    <3>3. Same(t)
      BY <3>2 DEF Same, Selecting
    <3> QED
      BY <2>1, <2>3, <2>6, <3>2, <3>3 DEF Opens
  <2> QED
    BY <2>1, <2>5, <2>6 DEF SelectStep
<1>3. CASE TryKey(t)
  <2> DEFINE m == op[t].model
             pool == Pool[BrandOf[m]]
  <2>1. /\ op[t].pc = "pick" /\ m \in Model
        /\ op[t].keys \subseteq DOMAIN pool
        /\ op[t] \in PickOp(op[t].req, m)
        /\ UNCHANGED <<limits, in_flight, learned>>
    BY <1>0, <1>3, OpFields DEF TryKey
  <2>2. ASSUME NEW i \in Least(op[t].keys), TryKeyAt(t, i)
        PROVE  SkipsKey(t, i) \/ Picks(t, pool[i])
    <3> DEFINE rest == [op[t] EXCEPT !.keys = @ \ {i}]
    <3>1. /\ rest.pc = "pick" /\ rest.req = op[t].req /\ rest.model = m
          /\ rest.todo = op[t].todo /\ rest.cands = op[t].cands
          /\ rest.keys = op[t].keys \ {i}
      BY <2>1 DEF PickOp
    <3>2. CASE KeyServes(m, pool[i])
      <4>1. op'[t] = [pc |-> "admit", req |-> op[t].req, todo |-> op[t].todo,
                      cands |-> op[t].cands, bucket |-> <<m, pool[i]>>]
        BY <1>0, <2>2, <3>2 DEF TryKeyAt, Pick
      <4>2. /\ op'[t].pc = "admit" /\ op'[t].req = op[t].req
            /\ op'[t].todo = op[t].todo /\ op'[t].cands = op[t].cands
            /\ op'[t].bucket = <<m, pool[i]>>
        BY <4>1
      <4>3. Same(t)
        BY <4>2 DEF Same, Selecting
      <4> QED
        BY <2>1, <2>2, <3>2, <4>2, <4>3 DEF Picks
    <3>3. CASE ~KeyServes(m, pool[i])
      <4>1. op'[t] = rest
        BY <1>0, <2>2, <3>3 DEF TryKeyAt
      <4> HIDE DEF rest
      <4> QED
        BY <2>1, <3>1, <3>3, <4>1 DEF SkipsKey, Same, Selecting, Least
    <3> QED
      BY <3>2, <3>3
  <2>3. ASSUME NoKeyLeft(t)
        PROVE  Picks(t, NoKey) \/ NoneServes(t)
    BY <1>0, <2>1, <2>3
       DEF NoKeyLeft, Pick, NextRule, Checking, Picks, NoneServes, Same, Selecting
  <2> QED
    BY <1>3, <2>1, <2>2, <2>3 DEF TryKey, SelectStep
<1>4. CASE Admit(t)
  BY <1>0, <1>4 DEF Admit, NextRule, Checking, SelectStep, Admits, Same, Selecting
<1>5. CASE Decide(t)
  <2> DEFINE r == op[t].req
             fast == {b \in op[t].cands : WithinCeiling(r, b)}
  <2>1. op[t].pc = "check" /\ op[t].todo = {} /\ UNCHANGED <<limits, in_flight, learned>>
    BY <1>5 DEF Decide
  <2>2. CASE op[t].cands = {}
    BY <1>0, <1>5, <2>1, <2>2 DEF Decide, Exhausted, SelectStep, GivesUp, Same, Selecting
  <2>3. CASE op[t].cands # {}
    <3> DEFINE slow == fast = {}
               left == IF fast = {} THEN op[t].cands ELSE fast
    <3>1. op'[t] = [pc |-> "reserve", req |-> r, fallback |-> slow, left |-> left]
      BY <1>0, <1>5, <2>3 DEF Decide
    <3>2. slow <=> \A b \in op[t].cands : ~WithinCeiling(r, b)
      OBVIOUS
    <3>3. left = IF slow THEN op[t].cands ELSE fast
      OBVIOUS
    <3> HIDE DEF slow, left
    <3>4. op'[t].pc = "reserve" /\ op'[t].req = r /\ op'[t].left = left
      BY <3>1
    <3>5. op'[t].fallback = slow
      <4>1. ASSUME NEW n, NEW x, n = [pc |-> "reserve", req |-> r, fallback |-> x, left |-> left]
            PROVE  n.fallback = x
        BY <4>1
      <4> QED
        BY <3>1, <4>1
    <3>6. Same(t)
      BY <3>4 DEF Same, Selecting
    <3>7. Decides(t)
      BY <2>1, <3>2, <3>3, <3>4, <3>5, <3>6, Zenon DEF Decides
    <3> QED
      BY <2>1, <3>7 DEF SelectStep
  <2> QED
    BY <2>2, <2>3
<1>6. ASSUME NEW b \in Bucket, Reserve(t, b)
      PROVE  SelectStep(t)
  <2>1. op[t].pc = "reserve" /\ op[t] \in ReserveOp(op[t].req)
    BY <1>0, <1>6, OpFields DEF Reserve
  <2> DEFINE rest == [op[t] EXCEPT !.left = @ \ {b}]
  <2>2. /\ rest.pc = "reserve" /\ rest.req = op[t].req
        /\ rest.left = op[t].left \ {b} /\ rest.fallback = op[t].fallback
    BY <2>1 DEF ReserveOp
  <2>3. b \in op[t].left /\ Full(b) /\ UNCHANGED <<limits, in_flight, learned>>
    BY <1>0, <1>6 DEF Reserve, First, Holding, Selecting
  <2>4. \/ op[t].left = {b} /\ op'[t] = [pc |-> "exhausted", req |-> op[t].req]
        \/ op'[t] = rest
    BY <1>0, <1>6, <2>3 DEF Reserve, Exhausted
  <2> HIDE DEF rest
  <2>5. Loses(t, b)
    BY <2>1, <2>2, <2>3, <2>4 DEF Loses, Same, Selecting
  <2> QED
    BY <2>3, <2>5 DEF SelectStep
<1>7. ASSUME NEW e, \/ Fail(t) \/ ReportSuccess(t) \/ CancelReservation(t)
                    \/ ReportRateLimit(t, e) \/ ReportError(t, e)
                    \/ \E retry, brand_quota \in BOOLEAN :
                          ReportQuotaDetails(t, retry, brand_quota)
      PROVE  FALSE
  BY <1>0, <1>7 DEF Fail, ReportSuccess, CancelReservation, ReportRateLimit, ReportError,
                    ReportQuotaDetails, Selecting, Idle
<1> QED
  BY <1>1, <1>2, <1>3, <1>4, <1>5, <1>6, <1>7 DEF TaskStep
(* A task that selects has made a step of its select or was left alone. *)
LEMMA TaskMoves ==
  ASSUME Inv, [Next]_vars, NEW t \in Task
  PROVE  /\ op'[t] # op[t] => TaskStep(t)
         /\ Selecting(op'[t]) => op'[t] = op[t] \/ SelectStep(t)
<1>0. op \in [Task -> Op]
  BY DEF Inv, TypeOK
<1>1. CASE Expire \/ (\E b \in Bucket : LearnedMoves(b)) \/ UNCHANGED vars
  BY <1>1 DEF Expire, LearnedMoves, vars
<1>2. ASSUME NEW u \in Task, TaskStep(u)
      PROVE  t = u \/ op'[t] = op[t]
  BY <1>0, <1>2, TaskType DEF OpStep
<1>3. op'[t] = op[t] \/ TaskStep(t)
  BY <1>1, <1>2 DEF Next
<1> QED
  BY <1>0, <1>3, SelectCases

(* What is known of the past of a select only grows less. *)
LEMMA HistoryShrinks ==
  ASSUME Inv, [Next]_vars, NEW t \in Task
  PROVE  /\ Selecting(op[t]) => free'[t] \subseteq free[t] /\ closed'[t] \subseteq closed[t]
         /\ SelectStep(t) => /\ free'[t] \subseteq {b \in Bucket : Reachable(b)}
                             /\ closed'[t] \subseteq Limits
         /\ SelectStep(t) /\ ~Selecting(op[t]) => free'[t] \subseteq Asked(op'[t].req)
<1>1. CASE UNCHANGED vars
  <2>1. ~SelectStep(t)
    <3>1. op'[t] = op[t]
      BY <1>1 DEF vars
    <3>2. op[t].pc = "check" => op[t].todo \subseteq DOMAIN op[t].req.rules
      BY OpFields DEF Inv, TypeOK
    <3>3. ~(Begins(t) \/ NoneServes(t) \/ Admits(t) \/ GivesUp(t) \/ Decides(t))
      BY <3>1 DEF Begins, Idle, NoneServes, Admits, GivesUp, Decides
    <3>4. ASSUME NEW i
          PROVE  ~(Drops(t, i) \/ Opens(t, i) \/ SkipsKey(t, i))
      BY <3>1 DEF Drops, Opens, SkipsKey
    <3>5. ASSUME NEW k
          PROVE  ~Picks(t, k)
      BY <3>1 DEF Picks
    <3>6. ASSUME NEW b \in Bucket
          PROVE  ~Loses(t, b)
      BY <3>1 DEF Loses
    <3> QED
      BY <3>3, <3>4, <3>5, <3>6 DEF SelectStep
  <2> QED
    BY <1>1, <2>1 DEF vars
<1>2. CASE History
  <2>1. SelectStep(t) => \A b \in Bucket : Reachable(b)' <=> Reachable(b)
    BY DEF SelectStep, Reachable, RateLimited, AtCapacity, Full, Limits, limits
  <2>2. SelectStep(t) => Limits' = Limits
    BY DEF SelectStep, Limits, limits
  <2> QED
    BY <1>2, <2>1, <2>2, HistoryMoves
<1> QED
  BY <1>1, <1>2 DEF Next
-----------------------------------------------------------------------------
(* The buckets a select has found. *)
Found(o) ==
  CASE o.pc \in {"check", "pick"} -> o.cands
    [] o.pc = "admit" -> o.cands \cup {o.bucket}
    [] o.pc = "reserve" -> o.left
    [] OTHER -> {}

(* Every bucket that a step adds to them was just picked for a model whose  *)
(* keys were being tried.                                                   *)
LEMMA FoundGrows ==
  ASSUME NEW t \in Task, SelectStep(t)
  PROVE  \/ Begins(t) /\ Found(op'[t]) = {}
         \/ Same(t) /\ Found(op'[t]) \subseteq Found(op[t])
         \/ \E k : Picks(t, k) /\ Found(op'[t]) = Found(op[t]) \cup {<<op[t].model, k>>}
<1>1. CASE Begins(t)
  BY <1>1 DEF Begins, Found
<1>2. CASE NoneServes(t) \/ Admits(t) \/ GivesUp(t)
  BY <1>2 DEF NoneServes, Admits, GivesUp, Found, Same
<1>3. CASE Decides(t)
  BY <1>3 DEF Decides, Found, Same
<1>4. ASSUME NEW i, Drops(t, i) \/ Opens(t, i) \/ SkipsKey(t, i)
      PROVE  Same(t) /\ Found(op'[t]) \subseteq Found(op[t])
  BY <1>4 DEF Drops, Opens, SkipsKey, Found, Same
<1>5. ASSUME NEW k, Picks(t, k)
      PROVE  Found(op'[t]) = Found(op[t]) \cup {<<op[t].model, k>>}
  BY <1>5 DEF Picks, Found
<1>6. ASSUME NEW b \in Bucket, Loses(t, b)
      PROVE  Same(t) /\ Found(op'[t]) \subseteq Found(op[t])
  BY <1>6 DEF Loses, Found, Same
<1> QED
  BY <1>1, <1>2, <1>3, <1>4, <1>5, <1>6 DEF SelectStep

(* Only a select has found anything. *)
LEMMA FoundSelecting ==
  ASSUME NEW o, Found(o) # {}
  PROVE  Selecting(o)
BY DEF Found, Selecting

(* The keys of a model are tried once it has passed the reactive blocks. *)
LEMMA PickCases ==
  ASSUME NEW t \in Task, SelectStep(t), op'[t].pc = "pick"
  PROVE  \E i : Opens(t, i) \/ SkipsKey(t, i)
BY DEF SelectStep, Begins, NoneServes, Admits, GivesUp, Decides, Drops, Picks, Loses
-----------------------------------------------------------------------------
(* No limit on what a select has found, or on the model whose keys it tries, *)
(* was in force at every moment since it began.                              *)
Spared(t) ==
  /\ \A b \in Found(op[t]) : closed[t] \cap LimitsOn(b) = {}
  /\ op[t].pc = "pick" => /\ <<"model", op[t].model>> \notin closed[t]
                          /\ <<"brand", BrandOf[op[t].model]>> \notin closed[t]

(* What a select has found, or is looking at, was asked for. *)
Allowed(t) ==
  /\ \A b \in Found(op[t]) : b[1] \in Admitted(op[t].req) \ op[t].req.exclude
  /\ op[t].pc = "pick" => op[t].model \in Admitted(op[t].req) \ op[t].req.exclude

(* No key before the one that was found, or before those that are still to   *)
(* be tried, could have served at every moment.                              *)
InOrder(t) ==
  /\ \A b \in Found(op[t]) :
       \A i, j \in DOMAIN Pool[BrandOf[b[1]]] :
         (Pool[BrandOf[b[1]]][j] = b[2] /\ i < j) =>
           <<b[1], Pool[BrandOf[b[1]]][i]>> \notin free[t]
  /\ op[t].pc = "pick" =>
       \A i \in DOMAIN Pool[BrandOf[op[t].model]] \ op[t].keys :
         <<op[t].model, Pool[BrandOf[op[t].model]][i]>> \notin free[t]

(* Without the fallback only what is within the ceiling is left. *)
WithinOrFallback(t) ==
  op[t].pc = "reserve" /\ ~op[t].fallback =>
    \A b \in op[t].left : WithinCeiling(op[t].req, b)

SelectInv == \A t \in Task : Spared(t) /\ Allowed(t) /\ InOrder(t) /\ WithinOrFallback(t)

(* A bucket of a first key that could serve at every moment is one the select *)
(* has found, or one it will still look at; once it has decided, it is left,  *)
(* unless it is beyond the ceiling.                                           *)
Ahead(o, c) == \E i \in o.todo : o.req.rules[i] = c[1]
Covers(o, c) ==
  /\ c \in Asked(o.req)
  /\ o.pc \in {"check", "pick", "admit"} =>
       \/ c \in Found(o) \/ Ahead(o, c)
       \/ /\ o.pc = "pick" /\ o.model = c[1]
          /\ KeysOf(c[1]) # {} => \E i \in o.keys : Pool[BrandOf[c[1]]][i] = c[2]
  /\ o.pc = "reserve" =>
       /\ o.fallback => ~WithinCeiling(o.req, c)
       /\ ~o.fallback /\ WithinCeiling(o.req, c) => c \in o.left
  /\ o.pc = "exhausted" => ~WithinCeiling(o.req, c)
Covered ==
  \A t \in Task : Selecting(op[t]) =>
    \A c \in free[t] : FirstKey(c) => Covers(op[t], c)
(* What holds of a select in progress holds while others move: the buckets it *)
(* found stay, and history only shrinks.                                      *)
LEMMA SparedKept ==
  ASSUME Inv, [Next]_vars, NEW t \in Task, Spared(t)
  PROVE  Spared(t)'
<1>0. op[t] \in Op /\ op'[t] \in Op
  BY InvNext DEF Inv, TypeOK
<1>1. CASE op'[t] = op[t] \/ ~Selecting(op'[t])
  <2>1. Found(op'[t]) # {} => op'[t] = op[t] /\ Selecting(op[t])
    BY <1>1, FoundSelecting
  <2>2. op'[t].pc = "pick" => op'[t] = op[t] /\ Selecting(op[t])
    BY <1>1 DEF Selecting
  <2>3. Selecting(op[t]) => closed'[t] \subseteq closed[t]
    BY HistoryShrinks
  <2> QED
    BY <2>1, <2>2, <2>3 DEF Spared
<1>2. CASE SelectStep(t)
  <2>1. closed'[t] \subseteq Limits
    BY <1>2, HistoryShrinks
  <2>2. Selecting(op[t]) => closed'[t] \subseteq closed[t]
    BY HistoryShrinks
  <2>3. \A b \in Found(op[t]) : closed'[t] \cap LimitsOn(b) = {}
    <3>1. Found(op[t]) # {} => Selecting(op[t])
      BY FoundSelecting
    <3> QED
      BY <2>2, <3>1 DEF Spared
  <2>4. ASSUME NEW k, Picks(t, k)
        PROVE  closed'[t] \cap LimitsOn(<<op[t].model, k>>) = {}
    <3>1. <<"model", op[t].model>> \notin closed'[t] /\ <<"brand", BrandOf[op[t].model]>> \notin closed'[t]
      BY <2>2, <2>4 DEF Spared, Picks, Selecting
    <3>2. k \notin key_limited /\ k \notin quota_limited
      <4>1. CASE k = NoKey
        BY <4>1, SelectorAssumption DEF Inv, TypeOK
      <4>2. CASE k # NoKey
        BY <2>4, <4>2 DEF Picks, KeyServes, KeyLimited
      <4> QED
        BY <4>1, <4>2
    <3>3. <<"key", k>> \notin closed'[t] /\ <<"quota", k>> \notin closed'[t]
      BY <2>1, <3>2 DEF Limits
    <3> QED
      BY <3>1, <3>3 DEF LimitsOn
  <2>5. \A b \in Found(op'[t]) : closed'[t] \cap LimitsOn(b) = {}
    BY <1>2, <2>3, <2>4, FoundGrows
  <2>6. ASSUME op'[t].pc = "pick"
        PROVE  /\ <<"model", op'[t].model>> \notin closed'[t]
               /\ <<"brand", BrandOf[op'[t].model]>> \notin closed'[t]
    <3>1. PICK i : Opens(t, i) \/ SkipsKey(t, i)
      BY <1>2, <2>6, PickCases
    <3>2. CASE Opens(t, i)
      <4>1. ~ModelBlocked(op'[t].model)
        BY <3>2 DEF Opens
      <4> QED
        BY <2>1, <4>1 DEF Limits, ModelBlocked
    <3>3. CASE SkipsKey(t, i)
      BY <2>2, <3>3 DEF SkipsKey, Spared, Selecting
    <3> QED
      BY <3>1, <3>2, <3>3
  <2> QED
    BY <2>5, <2>6 DEF Spared
<1> QED
  BY <1>1, <1>2, TaskMoves

(* A select goes on admitting only buckets its request allows. *)
LEMMA AllowedKept ==
  ASSUME Inv, [Next]_vars, NEW t \in Task, Allowed(t)
  PROVE  Allowed(t)'
<1>1. CASE op'[t] = op[t] \/ ~Selecting(op'[t])
  <2>1. Found(op'[t]) # {} => op'[t] = op[t]
    BY <1>1, FoundSelecting
  <2>2. op'[t].pc = "pick" => op'[t] = op[t]
    BY <1>1 DEF Selecting
  <2> QED
    BY <2>1, <2>2 DEF Allowed
<1>2. CASE SelectStep(t)
  <2>1. \A b \in Found(op'[t]) : b[1] \in Admitted(op'[t].req) \ op'[t].req.exclude
    BY <1>2, FoundGrows DEF Allowed, Picks, Same
  <2>2. ASSUME op'[t].pc = "pick"
        PROVE  op'[t].model \in Admitted(op'[t].req) \ op'[t].req.exclude
    <3>1. PICK i : Opens(t, i) \/ SkipsKey(t, i)
      BY <1>2, <2>2, PickCases
    <3>2. CASE Opens(t, i)
      <4>1. i \in DOMAIN op[t].req.rules
        BY <3>2, OpFields DEF Inv, TypeOK, Opens
      <4> QED
        BY <3>2, <4>1 DEF Opens, Same, Admitted
    <3>3. CASE SkipsKey(t, i)
      BY <3>3 DEF SkipsKey, Same, Allowed
    <3> QED
      BY <3>1, <3>2, <3>3
  <2> QED
    BY <2>1, <2>2 DEF Allowed
<1> QED
  BY <1>1, <1>2, TaskMoves

(* A select goes on passing over keys in their order only. *)
LEMMA InOrderKept ==
  ASSUME Inv, [Next]_vars, NEW t \in Task, InOrder(t)
  PROVE  InOrder(t)'
<1> DEFINE Ordered(b, F) ==
             \A i, j \in DOMAIN Pool[BrandOf[b[1]]] :
               (Pool[BrandOf[b[1]]][j] = b[2] /\ i < j) =>
                 <<b[1], Pool[BrandOf[b[1]]][i]>> \notin F
           Tried(o, F) ==
             \A i \in DOMAIN Pool[BrandOf[o.model]] \ o.keys :
               <<o.model, Pool[BrandOf[o.model]][i]>> \notin F
<1>0. /\ \A b \in Found(op[t]) : Ordered(b, free[t])
      /\ op[t].pc = "pick" => Tried(op[t], free[t])
  BY DEF InOrder
<1>1. SUFFICES /\ \A b \in Found(op'[t]) : Ordered(b, free'[t])
               /\ op'[t].pc = "pick" => Tried(op'[t], free'[t])
  BY DEF InOrder
<1>2. \A b, F, G : Ordered(b, F) /\ G \subseteq F => Ordered(b, G)
  OBVIOUS
<1>3. \A o, F, G : Tried(o, F) /\ G \subseteq F => Tried(o, G)
  OBVIOUS
<1>4. Selecting(op[t]) => free'[t] \subseteq free[t]
  BY HistoryShrinks
<1>5. ASSUME NEW k, Picks(t, k)
      PROVE  Ordered(<<op[t].model, k>>, free'[t])
  <2> DEFINE m == op[t].model
             pool == Pool[BrandOf[m]]
  <2>1. op[t].pc = "pick" /\ m \in Model /\ op[t].keys \subseteq DOMAIN pool
    BY <1>5, OpFields DEF Picks, Inv, TypeOK
  <2>2. BrandOf[m] \in Brand /\ DOMAIN pool \subseteq Nat /\ KeysOf(m) = {pool[i] : i \in DOMAIN pool}
    BY <2>1, PoolType
  <2>3. \A i, j \in DOMAIN pool : pool[i] = pool[j] => i = j
    BY <2>2, SelectorAssumption
  <2>4. SUFFICES ASSUME NEW i \in DOMAIN pool, NEW j \in DOMAIN pool, pool[j] = k, i < j
                 PROVE  <<m, pool[i]>> \notin free'[t]
    OBVIOUS
  <2>5. KeysOf(m) # {}
    BY <2>2
  <2>6. k # NoKey
    BY <2>1, <2>2, <2>4, PoolType, SelectorAssumption
  <2>7. j \in Least(op[t].keys)
    BY <1>5, <2>1, <2>3, <2>4, <2>6 DEF Picks, Least
  <2>8. i \notin op[t].keys
    BY <2>2, <2>4, <2>7 DEF Least
  <2>9. Selecting(op[t])
    BY <2>1 DEF Selecting
  <2> QED
    BY <1>0, <1>4, <2>1, <2>8, <2>9
<1>6. CASE op'[t] = op[t] \/ ~Selecting(op'[t])
  <2>1. Found(op'[t]) # {} => op'[t] = op[t] /\ Selecting(op[t])
    BY <1>6, FoundSelecting
  <2>2. op'[t].pc = "pick" => op'[t] = op[t] /\ Selecting(op[t])
    BY <1>6 DEF Selecting
  <2> QED
    BY <1>0, <1>2, <1>3, <1>4, <2>1, <2>2
<1>7. CASE SelectStep(t)
  <2>1. \A b \in Found(op[t]) : Ordered(b, free'[t])
    <3>1. Found(op[t]) # {} => Selecting(op[t])
      BY FoundSelecting
    <3> QED
      BY <1>0, <1>2, <1>4, <3>1
  <2>2. ASSUME op'[t].pc = "pick"
        PROVE  Tried(op'[t], free'[t])
    <3>1. PICK i : Opens(t, i) \/ SkipsKey(t, i)
      BY <1>7, <2>2, PickCases
    <3>2. CASE Opens(t, i)
      BY <3>2 DEF Opens
    <3>3. CASE SkipsKey(t, i)
      <4> DEFINE m == op[t].model
                 k == Pool[BrandOf[m]][i]
      <4>1. ~Reachable(<<m, k>>)
        <5>1. KeyLimited(k) \/ AtCapacity(<<m, k>>)
          BY <3>3 DEF SkipsKey, KeyServes
        <5>2. KeyLimited(k) => <<"key", k>> \in Limits \/ <<"quota", k>> \in Limits
          BY DEF KeyLimited, Limits
        <5>3. <<"key", k>> \in LimitsOn(<<m, k>>) /\ <<"quota", k>> \in LimitsOn(<<m, k>>)
          BY DEF LimitsOn
        <5> QED
          BY <5>1, <5>2, <5>3 DEF Reachable, RateLimited
      <4>2. <<m, k>> \notin free'[t]
        BY <1>7, <4>1, HistoryShrinks
      <4>3. Tried(op[t], free'[t])
        BY <1>0, <1>3, <1>4, <3>3 DEF SkipsKey, Selecting
      <4> QED
        BY <3>3, <4>2, <4>3 DEF SkipsKey
    <3> QED
      BY <3>1, <3>2, <3>3
  <2> HIDE DEF Ordered, Tried
  <2>3. \A b \in Found(op'[t]) : Ordered(b, free'[t])
    BY <1>5, <1>7, <2>1, FoundGrows
  <2> QED
    BY <2>2, <2>3
<1> QED
  BY <1>6, <1>7, TaskMoves

(* A select goes on to reserve within the ceiling, or as a fallback. *)
LEMMA WithinKept ==
  ASSUME Inv, [Next]_vars, NEW t \in Task, WithinOrFallback(t)
  PROVE  WithinOrFallback(t)'
<1>1. CASE op'[t] = op[t] \/ ~Selecting(op'[t])
  BY <1>1 DEF WithinOrFallback, Selecting
<1>2. CASE SelectStep(t)
  <2>1. op'[t].pc = "reserve" => Decides(t) \/ \E b : Loses(t, b)
    BY <1>2 DEF SelectStep, Begins, NoneServes, Admits, GivesUp, Drops, Opens, SkipsKey, Picks
  <2>2. Decides(t) => WithinOrFallback(t)'
    BY DEF Decides, WithinOrFallback, Same
  <2>3. ASSUME NEW b, Loses(t, b)
        PROVE  WithinOrFallback(t)'
    BY <2>3 DEF Loses, WithinOrFallback, Same
  <2> QED
    BY <2>1, <2>2, <2>3 DEF WithinOrFallback
<1> QED
  BY <1>1, <1>2, TaskMoves

(* The invariant of the selects is inductive over the types. *)
LEMMA SelectInvInductive ==
  /\ Init => SelectInv
  /\ Inv /\ SelectInv /\ [Next]_vars => SelectInv'
<1>1. Init => SelectInv
  BY DEF Init, Idle, SelectInv, Spared, Allowed, InOrder, WithinOrFallback, Found
<1>2. Inv /\ SelectInv /\ [Next]_vars => SelectInv'
  BY SparedKept, AllowedKept, InOrderKept, WithinKept DEF SelectInv
<1> QED
  BY <1>1, <1>2
(* A select overlooks no bucket of a first key that could serve at every      *)
(* moment: each step by which it stops being ahead of the select is one by    *)
(* which it is found, or shows that it is out of reach.                       *)
LEMMA CoverKept ==
  ASSUME Inv, [Next]_vars, NEW t \in Task, Selecting(op'[t]),
         NEW c \in free'[t], FirstKey(c),
         Selecting(op[t]) => \A d \in free[t] : FirstKey(d) => Covers(op[t], d)
  PROVE  Covers(op'[t], c)
<1>0. c \in Bucket
  BY InvNext DEF Inv, TypeOK
<1>1. /\ c = <<c[1], c[2]>> /\ c[1] \in Model /\ c[2] \in ServingKeys(c[1])
      /\ KeysOf(c[1]) = {} => c[2] = NoKey
      /\ KeysOf(c[1]) # {} => c[2] \in KeysOf(c[1])
  BY <1>0, BucketType DEF ServingKeys
<1>2. Selecting(op[t]) => Covers(op[t], c)
  BY HistoryShrinks
<1>3. CASE SelectStep(t)
  <2>1. Reachable(c)
    BY <1>3, HistoryShrinks
  <2>2. ~AtCapacity(c) /\ LimitsOn(c) \cap Limits = {}
    BY <2>1 DEF Reachable, RateLimited
  <2>3. ~ModelBlocked(c[1]) /\ ~KeyLimited(c[2])
    <3>1. /\ c[1] \in model_limited => <<"model", c[1]>> \in Limits
          /\ BrandOf[c[1]] \in brand_limited => <<"brand", BrandOf[c[1]]>> \in Limits
          /\ c[2] \in key_limited => <<"key", c[2]>> \in Limits
          /\ c[2] \in quota_limited => <<"quota", c[2]>> \in Limits
      BY DEF Limits
    <3>2. /\ <<"model", c[1]>> \in LimitsOn(c) /\ <<"brand", BrandOf[c[1]]>> \in LimitsOn(c)
          /\ <<"key", c[2]>> \in LimitsOn(c) /\ <<"quota", c[2]>> \in LimitsOn(c)
      BY DEF LimitsOn
    <3> QED
      BY <2>2, <3>1, <3>2 DEF ModelBlocked, KeyLimited
  <2>4. ~KeyBlocked(c[1])
    BY <1>1, <2>3 DEF KeyBlocked
  <2>5. KeyServes(c[1], c[2])
    BY <1>1, <2>2, <2>3 DEF KeyServes
  <2>6. CASE Begins(t)
    <3>1. c \in Asked(op'[t].req)
      BY <1>3, <2>6, HistoryShrinks DEF Begins, Idle, Selecting
    <3>2. Ahead(op'[t], c)
      BY <2>6, <3>1 DEF Begins, Asked, Admitted, Ahead
    <3> QED
      BY <2>6, <3>1, <3>2 DEF Begins, Covers
  <2>7. ASSUME NEW i, Drops(t, i)
        PROVE  Covers(op'[t], c)
    <3>1. Covers(op[t], c) /\ op[t].pc = "check"
      BY <1>2, <2>7 DEF Drops, Selecting
    <3>2. op[t].req.rules[i] # c[1]
      BY <2>3, <2>4, <2>7, <3>1 DEF Drops, Covers, Asked
    <3>3. c \in op[t].cands \/ Ahead(op[t], c)
      BY <3>1 DEF Covers, Found
    <3>4. Ahead(op[t], c) => Ahead(op'[t], c)
      BY <2>7, <3>2 DEF Ahead, Drops, Same
    <3> QED
      BY <2>7, <3>1, <3>3, <3>4 DEF Drops, Same, Covers, Found
  <2>8. ASSUME NEW i, Opens(t, i)
        PROVE  Covers(op'[t], c)
    <3>1. Covers(op[t], c) /\ op[t].pc = "check"
      BY <1>2, <2>8 DEF Opens, Selecting
    <3>2. c \in op[t].cands \/ Ahead(op[t], c)
      BY <3>1 DEF Covers, Found
    <3>3. Ahead(op[t], c) => Ahead(op'[t], c) \/ op'[t].model = c[1]
      BY <2>8 DEF Ahead, Opens, Same
    <3>4. op'[t].model = c[1] /\ KeysOf(c[1]) # {} =>
            \E j \in op'[t].keys : Pool[BrandOf[c[1]]][j] = c[2]
      <4>1. KeysOf(c[1]) = {Pool[BrandOf[c[1]]][j] : j \in DOMAIN Pool[BrandOf[c[1]]]}
        BY <1>1, PoolType
      <4> QED
        BY <1>1, <2>8, <4>1 DEF Opens
    <3> QED
      BY <2>8, <3>1, <3>2, <3>3, <3>4 DEF Opens, Same, Covers, Found
  <2>9. ASSUME NEW i, SkipsKey(t, i)
        PROVE  Covers(op'[t], c)
    <3>1. Covers(op[t], c) /\ op[t].pc = "pick"
      BY <1>2, <2>9 DEF SkipsKey, Selecting
    <3>2. op[t].model = c[1] => Pool[BrandOf[c[1]]][i] # c[2]
      BY <2>5, <2>9 DEF SkipsKey
    <3>3. Ahead(op[t], c) => Ahead(op'[t], c)
      BY <2>9 DEF Ahead, SkipsKey, Same
    <3> QED
      BY <2>9, <3>1, <3>2, <3>3 DEF SkipsKey, Same, Covers, Found
  <2>10. ASSUME NEW k, Picks(t, k)
         PROVE  Covers(op'[t], c)
    <3>1. /\ Covers(op[t], c) /\ op[t].pc = "pick"
          /\ op[t].keys \subseteq DOMAIN Pool[BrandOf[op[t].model]]
      BY <1>2, <2>10, OpFields DEF Picks, Selecting, Inv, TypeOK
    <3>2. Ahead(op[t], c) => Ahead(op'[t], c)
      BY <2>10 DEF Ahead, Picks, Same
    <3> DEFINE pool == Pool[BrandOf[c[1]]]
    <3>3. \/ c \in op[t].cands \/ Ahead(op[t], c)
          \/ /\ op[t].model = c[1]
             /\ KeysOf(c[1]) # {} => \E j \in op[t].keys : pool[j] = c[2]
      BY <3>1 DEF Covers, Found
    <3>4. ASSUME op[t].model = c[1],
                 KeysOf(c[1]) # {} => \E j \in op[t].keys : pool[j] = c[2]
          PROVE  k = c[2]
      <4>1. KeysOf(c[1]) = {pool[j] : j \in DOMAIN pool} /\ pool \in Seq(Key)
        BY <1>1, PoolType
      <4>2. CASE KeysOf(c[1]) = {}
        BY <1>1, <2>10, <3>1, <3>4, <4>1, <4>2 DEF Picks, Least
      <4>3. CASE KeysOf(c[1]) # {}
        <5>1. c[2] = pool[1] /\ 1 \in DOMAIN pool
          <6>1. c[2] # NoKey
            <7>1. c[2] \in Key
              BY <1>1, <4>3, PoolType
            <7> QED
              BY <7>1, SelectorAssumption
          <6>2. c[2] = pool[1]
            BY <6>1 DEF FirstKey
          <6>3. PICK j \in DOMAIN pool : TRUE
            <7> HIDE DEF pool
            <7> QED
              BY <4>1, <4>3
          <6>4. 1 \in DOMAIN pool
            <7> HIDE DEF pool
            <7>1. pool \in Seq(Key)
              BY <4>1
            <7> QED
              BY <6>3, <7>1
          <6> QED
            BY <6>2, <6>4
        <5>2. \A j \in DOMAIN pool : pool[j] = c[2] => j = 1
          BY <1>1, <5>1, PoolType, SelectorAssumption
        <5>3. 1 \in op[t].keys
          BY <3>1, <3>4, <4>3, <5>2
        <5>4. Least(op[t].keys) = {1}
          BY <3>1, <3>4, <4>1, <5>3 DEF Least
        <5> QED
          BY <2>10, <3>4, <4>3, <5>1, <5>4 DEF Picks
      <4> QED
        BY <4>2, <4>3
    <3>5. c \in Found(op'[t]) \/ Ahead(op'[t], c)
      BY <1>1, <2>10, <3>2, <3>3, <3>4 DEF Picks, Found
    <3> QED
      BY <2>10, <3>1, <3>5 DEF Picks, Same, Covers
  <2>11. CASE NoneServes(t)
    <3>1. Covers(op[t], c) /\ op[t].pc = "pick" /\ op[t].keys = {}
      BY <1>2, <2>11 DEF NoneServes, Selecting
    <3>2. c \in op[t].cands \/ Ahead(op[t], c)
      BY <2>11, <3>1 DEF NoneServes, Covers, Found
    <3>3. Ahead(op[t], c) => Ahead(op'[t], c)
      BY <2>11 DEF Ahead, NoneServes, Same
    <3> QED
      BY <2>11, <3>1, <3>2, <3>3 DEF NoneServes, Same, Covers, Found
  <2>12. CASE Admits(t)
    <3>1. Covers(op[t], c) /\ op[t].pc = "admit"
      BY <1>2, <2>12 DEF Admits, Selecting
    <3>2. c \in op[t].cands \/ c = op[t].bucket \/ Ahead(op[t], c)
      BY <3>1 DEF Covers, Found
    <3>3. Ahead(op[t], c) => Ahead(op'[t], c)
      BY <2>12 DEF Ahead, Admits, Same
    <3>4. c \in op'[t].cands \/ Ahead(op'[t], c)
      BY <2>2, <2>12, <3>2, <3>3 DEF Admits
    <3> QED
      BY <2>12, <3>1, <3>4 DEF Admits, Same, Covers, Found
  <2>13. CASE GivesUp(t)
    BY <1>2, <2>13 DEF GivesUp, Selecting, Covers, Found, Ahead
  <2>14. CASE Decides(t)
    <3>1. Covers(op[t], c) /\ c \in op[t].cands
      BY <1>2, <2>14 DEF Decides, Selecting, Covers, Found, Ahead
    <3> QED
      BY <2>14, <3>1 DEF Decides, Same, Covers
  <2>15. ASSUME NEW b \in Bucket, Loses(t, b)
         PROVE  Covers(op'[t], c)
    <3>1. Covers(op[t], c) /\ op[t].pc = "reserve"
      BY <1>2, <2>15 DEF Loses, Selecting
    <3>2. c # b
      BY <2>2, <2>15 DEF Loses, AtCapacity
    <3> QED
      BY <2>15, <3>1, <3>2 DEF Loses, Same, Covers
  <2> QED
    BY <1>3, <2>6, <2>7, <2>8, <2>9, <2>10, <2>11, <2>12, <2>13, <2>14, <2>15
       DEF SelectStep
<1> QED
  BY <1>2, <1>3, TaskMoves

(* Covered is kept by every step. *)
LEMMA CoveredInductive ==
  /\ Init => Covered
  /\ Inv /\ Covered /\ [Next]_vars => Covered'
<1>1. Init => Covered
  BY DEF Init, Idle, Covered, Selecting
<1>2. Inv /\ Covered /\ [Next]_vars => Covered'
  <2> SUFFICES ASSUME Inv, Covered, [Next]_vars, NEW t \in Task, Selecting(op'[t]),
                      NEW c \in free'[t], FirstKey(c)
               PROVE  Covers(op'[t], c)
    BY DEF Covered, FirstKey
  <2> QED
    BY CoverKept DEF Covered
<1> QED
  BY <1>1, <1>2
-----------------------------------------------------------------------------
(* All of it, at every moment. *)
LEMMA AlwaysInv == Spec => [](Inv /\ SelectInv)
BY InvInit, InvNext, SelectInvInductive, PTL DEF Spec

(* A task is served by one of the first of the buckets it has left. *)
LEMMA ServesFirst ==
  ASSUME Inv, [Next]_vars, NEW t \in Task, NEW b, Serves(t, b)
  PROVE  /\ b \in First(op[t].left, op[t].fallback)
         /\ b \in op[t].left /\ b \in Found(op[t])
         /\ op[t].req \in Served
<1>1. op[t].pc = "reserve" /\ op'[t] = Holding(b) /\ op'[t] # op[t]
  BY DEF Serves, Holding
<1>2. op[t].req \in Served
  BY <1>1, OpFields DEF Inv, TypeOK
<1>3. TaskStep(t)
  BY <1>1, TaskMoves
<1>4. PICK c \in Bucket : Reserve(t, c)
  BY <1>1, <1>3 DEF TaskStep, Select, Check, TryKey, Admit, Decide, Fail, ReportSuccess,
     CancelReservation, ReportRateLimit, ReportError, ReportQuotaDetails, Idle
<1>5. op[t] \in ReserveOp(op[t].req)
  BY <1>1, OpFields DEF Inv, TypeOK
<1>6. b = c
  <2>1. [op[t] EXCEPT !.left = @ \ {c}].pc = "reserve"
    BY <1>1, <1>5 DEF ReserveOp
  <2> QED
    BY <1>1, <1>4, <2>1 DEF Reserve, Become, Exhausted, Holding, Inv, TypeOK
<1>7. b \in First(op[t].left, op[t].fallback)
  BY <1>4, <1>6 DEF Reserve
<1> QED
  BY <1>1, <1>2, <1>7 DEF First, Found

(* What was limited all through a select does not serve it, whatever becomes *)
(* limited or free meanwhile and however the steps of others fall.           *)
THEOREM BlockedStaysOut == Spec => BlockedNeverServes
<1> DEFINE A == \A t \in Task, b \in Bucket : Serves(t, b) => closed[t] \cap LimitsOn(b) = {}
<1>1. Inv /\ SelectInv /\ [Next]_vars => A
  BY ServesFirst DEF SelectInv, Spared
<1> HIDE DEF A
<1>2. Spec => [][A]_vars
  BY <1>1, AlwaysInv, PTL DEF Spec
<1> QED
  BY <1>2 DEF BlockedNeverServes, A

(* No key is used out of the order of its pool, for pools of any length. *)
THEOREM KeysInOrder == Spec => KeyOrder
<1> DEFINE A == \A t \in Task, b \in Bucket : Serves(t, b) =>
                  LET keys == Pool[BrandOf[b[1]]] IN
                  \A i, j \in DOMAIN keys :
                    (keys[j] = b[2] /\ i < j) => <<b[1], keys[i]>> \notin free[t]
<1>1. Inv /\ SelectInv /\ [Next]_vars => A
  BY ServesFirst DEF SelectInv, InOrder
<1> HIDE DEF A
<1>2. Spec => [][A]_vars
  BY <1>1, AlwaysInv, PTL DEF Spec
<1> QED
  BY <1>2 DEF KeyOrder, A

(* The filters let nothing else through. *)
LEMMA AdmittedWanted ==
  ASSUME NEW r \in Served, NEW m \in Admitted(r), m \notin r.exclude
  PROVE  WantedBy(r.ask, m)
<1>1. PICK q \in Request : r = Terms(q) /\ ~GroupNotFound(Catalog, q)
  BY DEF Served
<1>2. r.ask = q /\ r.exclude = q.exclude /\ r.rules = Routed(Catalog, q)
  BY <1>1 DEF Terms
<1> DEFINE rules == RulesOf(Catalog, q)
<1>3. PICK i \in DOMAIN rules : Passes(Catalog, rules[i], q) /\ m = rules[i].model
  BY <1>2 DEF Admitted, Routed
<1>4. /\ InService(Catalog, rules[i])
      /\ q.pin = None \/ m \in q.pin
      /\ Untrained(Catalog, m, q)
  BY <1>3 DEF Passes
<1>5. ASSUME ByGroup(q)
      PROVE  \E j \in DOMAIN Catalog.groups[q.group].members :
               Catalog.groups[q.group].members[j] = [model |-> m, enabled |-> TRUE]
  <2> DEFINE members == Catalog.groups[q.group].members
  <2>1. Catalog.groups[q.group] \in Groups
    BY <1>1, <1>5, SelectorAssumption DEF GroupNotFound, IsCatalog
  <2>2. members \in Seq(Members)
    BY <2>1 DEF Groups
  <2>3. rules = MemberRules(Catalog, q.group)
    BY <1>5 DEF RulesOf, ByGroup
  <2>4. i \in DOMAIN members /\ rules[i] = RuleFor(members[i].model, members[i].enabled)
    BY <1>3, <2>3 DEF MemberRules
  <2>5. members[i] \in Members
    BY <2>2, <2>4
  <2>6. members[i].model = m
    <3>1. rules[i].model = members[i].model
      BY <2>4 DEF RuleFor
    <3> QED
      BY <1>3, <3>1
  <2>7. members[i].enabled = TRUE
    <3>1. rules[i].enabled
      BY <1>4 DEF InService
    <3>2. rules[i].enabled = members[i].enabled
      BY <2>4 DEF RuleFor
    <3>3. members[i].enabled \in BOOLEAN
      BY <2>5 DEF Members
    <3> QED
      BY <3>1, <3>2, <3>3
  <2>8. members[i] = [model |-> m, enabled |-> TRUE]
    BY <2>5, <2>6, <2>7 DEF Members
  <2> QED
    BY <2>4, <2>8
<1> QED
  BY <1>2, <1>3, <1>4, <1>5 DEF InService, Untrained, WantedBy

(* Whoever is served, it is within the terms of the request: no fallback is a *)
(* way around the group, the pin, the exclusions or the training policy.      *)
THEOREM ServedWithinTerms == Spec => ServesWithinTerms
<1> DEFINE A == \A t \in Task, b \in Bucket :
                  Serves(t, b) => WantedBy(op[t].req.ask, b[1])
<1>1. Inv /\ SelectInv /\ [Next]_vars => A
  BY ServesFirst, AdmittedWanted DEF SelectInv, Allowed
<1> HIDE DEF A
<1>2. Spec => [][A]_vars
  BY <1>1, AlwaysInv, PTL DEF Spec
<1> QED
  BY <1>2 DEF ServesWithinTerms, A
-----------------------------------------------------------------------------
(* A ratio of a request is a number. *)
LEMMA RatioType ==
  ASSUME NEW r \in Served
  PROVE  r.ratio \in Nat \cup {None}
<1>1. PICK q \in Request : r = Terms(q) /\ ~GroupNotFound(Catalog, q)
  BY DEF Served
<1>2. r.ratio = Ratio(Catalog, q)
  BY <1>1 DEF Terms
<1>3. q.ratio \in Nat \cup {None}
  BY SelectorAssumption DEF Requests
<1>4. ByGroup(q) => Catalog.groups[q.group].ratio \in Nat \cup {None}
  BY <1>1, SelectorAssumption DEF GroupNotFound, IsCatalog, Groups
<1> QED
  BY <1>2, <1>3, <1>4 DEF Ratio

(* The ratio is taken over no model but the fastest admitted one, so one that *)
(* is too slow compared with any admitted model serves as the fallback only.  *)
THEOREM SlowServesAsFallback == Spec => SlowOnlyAsFallback
<1> DEFINE A == \A t \in Task, b \in Bucket :
       (Serves(t, b) /\ op[t].req.ratio # None
          /\ \E m \in Admitted(op[t].req) :
               Latency[b[1]] > op[t].req.ratio * Latency[m])
         => op[t].fallback
<1>1. Inv /\ SelectInv /\ [Next]_vars => A
  <2> SUFFICES ASSUME Inv, SelectInv, [Next]_vars, NEW t \in Task, NEW b \in Bucket, Serves(t, b),
                      op[t].req.ratio # None, NEW m \in Admitted(op[t].req),
                      Latency[b[1]] > op[t].req.ratio * Latency[m], ~op[t].fallback
               PROVE  FALSE
    OBVIOUS
  <2> DEFINE r == op[t].req
  <2>1. r \in Served /\ b \in op[t].left /\ op[t].pc = "reserve"
    BY ServesFirst DEF Serves
  <2>2. WithinCeiling(r, b)
    BY <2>1 DEF SelectInv, WithinOrFallback
  <2>3. PICK n \in Fastest(r) : Latency[b[1]] <= r.ratio * Latency[n]
    BY <2>2 DEF WithinCeiling
  <2>4. n \in Model /\ m \in Model /\ b[1] \in Model /\ Latency[n] <= Latency[m]
    BY <2>1, ServedType, BucketType DEF Fastest, FastestOf
  <2>5. r.ratio \in Nat /\ Latency[n] \in Nat /\ Latency[m] \in Nat /\ Latency[b[1]] \in Nat
    BY <2>1, <2>4, RatioType, SelectorAssumption
  <2>6. \A x, y, z \in Nat : y <= z => x * y <= x * z /\ x * y \in Nat /\ x * z \in Nat
    OBVIOUS
  <2>7. /\ r.ratio * Latency[n] <= r.ratio * Latency[m]
        /\ r.ratio * Latency[n] \in Nat /\ r.ratio * Latency[m] \in Nat
    BY <2>4, <2>5, <2>6
  <2> QED
    BY <2>3, <2>5, <2>7
<1> HIDE DEF A
<1>2. Spec => [][A]_vars
  BY <1>1, AlwaysInv, PTL DEF Spec
<1> QED
  BY <1>2 DEF SlowOnlyAsFallback, A

(* An error that is not the account's costs the model that made it its calls, *)
(* and no other.                                                              *)
THEOREM SiblingsStayReachable == Spec => SiblingsUnharmed
<1> DEFINE A == \A t \in Task, e \in {"timeout", "parse", "other"} :
       (ReportError(t, e) \/ ReportRateLimit(t, e)) =>
         \A b \in Bucket :
           (b[1] # op[t].bucket[1] /\ Reachable(b)) => Reachable(b)'
<1>1. Inv => A
  <2> SUFFICES ASSUME Inv, NEW t \in Task, NEW e \in {"timeout", "parse", "other"},
                      ReportError(t, e) \/ ReportRateLimit(t, e),
                      NEW b \in Bucket, b[1] # op[t].bucket[1], Reachable(b)
               PROVE  Reachable(b)'
    OBVIOUS
  <2> DEFINE own == op[t].bucket
  <2>1. ~AccountScoped(e)
    BY DEF AccountScoped
  <2>2. /\ key_limited' = key_limited /\ model_limited' \subseteq model_limited \cup {own[1]}
        /\ UNCHANGED <<brand_limited, quota_limited>>
    BY <2>1 DEF ReportError, ReportRateLimit, Mark
  <2>3. Limits' \subseteq Limits \cup {<<"model", own[1]>>}
    BY <2>2 DEF Limits
  <2>4. <<"model", own[1]>> \notin LimitsOn(b)
    BY DEF LimitsOn
  <2>5. ~RateLimited(b)'
    BY <2>3, <2>4 DEF Reachable, RateLimited
  <2>6. in_flight'[b] = in_flight[b] /\ learned'[b] = learned[b]
    BY DEF ReportError, ReportRateLimit, GiveBack, Inv, TypeOK
  <2> QED
    BY <2>5, <2>6 DEF Reachable, AtCapacity, Full
<1> HIDE DEF A
<1>2. Spec => [][A]_vars
  BY <1>1, AlwaysInv, PTL DEF Spec
<1> QED
  BY <1>2 DEF SiblingsUnharmed, A
-----------------------------------------------------------------------------
(* With the converse, at every moment. *)
LEMMA AlwaysCovered == Spec => [](Inv /\ SelectInv /\ Covered)
<1>1. Init => Covered
  BY CoveredInductive
<1>2. Inv /\ Covered /\ [Next]_vars => Covered'
  BY CoveredInductive
<1> QED
  BY <1>1, <1>2, InvInit, InvNext, SelectInvInductive, PTL DEF Spec

(* A select that fails, failed rightly: every bucket of a first key within    *)
(* its ceiling was out of reach at some moment while it ran.                  *)
THEOREM FailuresJustified == Spec => []ExhaustionJustified
<1>1. Inv /\ SelectInv /\ Covered => ExhaustionJustified
  BY DEF Covered, Covers, Selecting, ExhaustionJustified
<1> QED
  BY <1>1, AlwaysCovered, PTL

(* Paid-for capacity is not passed over for a model that is paid by the call. *)
THEOREM PrepaidServesFirst == Spec => PrepaidFirst
<1> DEFINE A == \A t \in Task, b \in Bucket :
       (Serves(t, b) /\ ~op[t].fallback /\ ~Prepaid(b)) =>
         \A c \in free[t] : FirstKey(c) => ~(Prepaid(c) /\ WithinCeiling(op[t].req, c))
<1>1. Inv /\ SelectInv /\ Covered /\ [Next]_vars => A
  BY ServesFirst DEF Covered, Covers, Selecting, Serves, First
<1> HIDE DEF A
<1>2. Spec => [][A]_vars
  BY <1>1, AlwaysCovered, PTL DEF Spec
<1> QED
  BY <1>2 DEF PrepaidFirst, A

(* The fallback is the last resort: while it serves, every bucket of a first  *)
(* key within the ceiling was out of reach at some moment of the select.      *)
THEOREM CeilingIsKept == Spec => CeilingKept
<1> DEFINE A == \A t \in Task, b \in Bucket :
       (Serves(t, b) /\ ~WithinCeiling(op[t].req, b)) =>
         \A c \in free[t] : FirstKey(c) => ~WithinCeiling(op[t].req, c)
<1>1. Inv /\ SelectInv /\ Covered /\ [Next]_vars => A
  <2> SUFFICES ASSUME Inv, SelectInv, Covered, [Next]_vars, NEW t \in Task, NEW b \in Bucket,
                      Serves(t, b), ~WithinCeiling(op[t].req, b), NEW c \in free[t],
                      FirstKey(c)
               PROVE  ~WithinCeiling(op[t].req, c)
    OBVIOUS
  <2>1. op[t].pc = "reserve" /\ b \in op[t].left
    BY ServesFirst DEF Serves
  <2>2. op[t].fallback
    BY <2>1 DEF SelectInv, WithinOrFallback
  <2> QED
    BY <2>1, <2>2 DEF Covered, Covers, Selecting
<1> HIDE DEF A
<1>2. Spec => [][A]_vars
  BY <1>1, AlwaysCovered, PTL DEF Spec
<1> QED
  BY <1>2 DEF CeilingKept, A
=============================================================================
