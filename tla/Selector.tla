------------------------------ MODULE Selector ------------------------------
(***************************************************************************)
(* crates/core/src/selector.rs: selects that run against reports.          *)
(*                                                                         *)
(* A select goes through its rules one by one.  A rule's model is dropped  *)
(* for a reactive block (of the model, its brand or all its keys), else    *)
(* the first key that is free is picked, the capacity is tested again, and *)
(* the pair becomes a candidate.  Then the latency ceiling is applied, the *)
(* candidates are ranked and the first that still has a slot is reserved.  *)
(* The catalog's read lock is held throughout; the limits and the counters *)
(* are shared and move between any two steps.                              *)
(*                                                                         *)
(* The filters that depend on the catalog and the request only are those   *)
(* of Routing, taken together as the select begins.                        *)
(*                                                                         *)
(* Abstracted: the score (any order the sorts after it allow), the clock   *)
(* (a block ends at any time).  Slots are taken and given back in one step,*)
(* as SlotPool says.                                                       *)
(***************************************************************************)
EXTENDS FiniteSets, Routing

LOCAL INSTANCE SequencesExt

CONSTANTS
  Task,      \* tasks that select, call a provider and report
  Key,
  NoKey,     \* the key of a brand without a pool of active keys
  NoLimit,   \* no cap
  Catalog,   \* what the cache holds: see Routing
  Pool,      \* the active keys of each brand, in order of priority
  Cap,       \* max_in_flight of each model
  Free,      \* the models with both token prices zero
  Unknown,   \* the models without declared rate limits
  Latency,   \* predicted milliseconds; a number above all ceilings if unknown
  Request,   \* the requests
  ErrorType  \* the error types that reports carry

ASSUME SelectorAssumption ==
  /\ IsCatalog(Catalog) /\ DOMAIN Catalog.models = Model
  /\ Pool \in [Brand -> Seq(Key)]
  /\ \A b \in Brand : \A i, j \in DOMAIN Pool[b] : Pool[b][i] = Pool[b][j] => i = j
  /\ Cap \in [Model -> Nat \cup {NoLimit}]
  /\ Latency \in [Model -> Nat]
  /\ Request \subseteq Requests
  /\ ErrorType \subseteq {"tpm", "rpm", "tpd", "auth", "timeout", "parse", "other"}
  /\ NoKey \notin Key /\ NoLimit \notin Nat /\ None \notin Nat
  /\ IsFiniteSet(Task)

BrandOf == [m \in Model |-> Catalog.models[m].brand]

KeysOf(m) == ToSet(Pool[BrandOf[m]])
ServingKeys(m) == IF KeysOf(m) = {} THEN {NoKey} ELSE KeysOf(m)

(* The usage buckets: a model with one of the keys that may serve it. *)
Bucket == UNION {{m} \X ServingKeys(m) : m \in Model}

VARIABLES
  model_limited,  \* rate_state: the models in cooldown
  brand_limited,  \* brand_rate_state
  key_limited,    \* key_rate_state
  quota_limited,  \* quota_key_state
  in_flight,      \* the reserved slots of each bucket
  learned,        \* each bucket's learned ceiling: none, with room, or spent
  op,             \* what each task is doing
  free,           \* history: the buckets that could serve at every moment ...
  closed          \* ... and the limits in force at every moment of its select

limits == <<model_limited, brand_limited, key_limited, quota_limited>>
vars == <<limits, in_flight, learned, op, free, closed>>

Idle == [pc |-> "idle"]
Become(t, o) == op' = [op EXCEPT ![t] = o]

KeyLimited(k) == k \in key_limited \/ k \in quota_limited

(* The limits in force, and those that would keep a bucket from serving. *)
Limits ==
  ({"model"} \X model_limited) \cup ({"brand"} \X brand_limited)
  \cup ({"key"} \X key_limited) \cup ({"quota"} \X quota_limited)
LimitsOn(b) ==
  {<<"model", b[1]>>, <<"brand", BrandOf[b[1]]>>, <<"key", b[2]>>, <<"quota", b[2]>>}

(* A bucket out of reach until a cooldown ends. *)
RateLimited(b) == LimitsOn(b) \cap Limits # {}

(* A bucket that can take no further call. *)
Full(b) == Cap[b[1]] # NoLimit /\ in_flight[b] >= Cap[b[1]]
AtCapacity(b) == Full(b) \/ learned[b] = "spent"

Reachable(b) == ~RateLimited(b) /\ ~AtCapacity(b)

(* The models that pass the filters, and the buckets that may serve a request. *)
Admitted(r) == {r.rules[i] : i \in DOMAIN r.rules}
Asked(r) == {b \in Bucket : b[1] \in Admitted(r) \ r.exclude}

Init ==
  /\ model_limited = {} /\ brand_limited = {}
  /\ key_limited = {} /\ quota_limited = {}
  /\ in_flight = [b \in Bucket |-> 0]
  /\ learned = [b \in Bucket |-> "none"]
  /\ op = [t \in Task |-> Idle]
  /\ free = [t \in Task |-> {}]
  /\ closed = [t \in Task |-> {}]
-----------------------------------------------------------------------------
(* The first of the positions that are left, if any. *)
Least(S) == {i \in S : \A j \in S : i <= j}

(* A select that has the rules at todo ahead of it and found cands so far. *)
Checking(r, todo, cands) ==
  [pc |-> "check", req |-> r, todo |-> todo, cands |-> cands]

(* What a request asks for, with the models that pass the filters. *)
Terms(r) ==
  [ask |-> r, rules |-> Routed(Catalog, r), exclude |-> r.exclude,
   max_ms |-> MaxMs(Catalog, r), ratio |-> Ratio(Catalog, r)]

(* A group that is not there, or not active, is an error of its own. *)
Select(t, r) ==
  /\ op[t] = Idle
  /\ Become(t, IF GroupNotFound(Catalog, r) THEN [pc |-> "not_found"]
               ELSE Checking(Terms(r), DOMAIN Terms(r).rules, {}))
  /\ UNCHANGED <<limits, in_flight, learned>>

(* The rule at hand is dropped, or adds a candidate. *)
NextRule(t, found) ==
  Become(t, Checking(op[t].req, op[t].todo, op[t].cands \cup found))

ModelBlocked(m) == m \in model_limited \/ BrandOf[m] \in brand_limited
KeyBlocked(m) == KeysOf(m) # {} /\ \A k \in KeysOf(m) : KeyLimited(k)

(* The caller's exclusions and the reactive blocks: the rule is dropped, or  *)
(* the keys of its model's brand are tried.                                  *)
CheckRule(t, i) ==
  LET m == op[t].req.rules[i]
      todo == op[t].todo \ {i} IN
  Become(t, IF m \in op[t].req.exclude \/ KeyBlocked(m) \/ ModelBlocked(m)
            THEN Checking(op[t].req, todo, op[t].cands)
            ELSE [pc |-> "pick", req |-> op[t].req, todo |-> todo, cands |-> op[t].cands,
                  model |-> m, keys |-> DOMAIN Pool[BrandOf[m]]])

(* The next rule. *)
Check(t) ==
  /\ op[t].pc = "check"
  /\ \E i \in Least(op[t].todo) : CheckRule(t, i)
  /\ UNCHANGED <<limits, in_flight, learned>>

Pick(t, k) ==
  Become(t, [pc |-> "admit", req |-> op[t].req, todo |-> op[t].todo,
             cands |-> op[t].cands, bucket |-> <<op[t].model, k>>])

(* A plausible bug for mutation: a key that only a quota blocks is free. *)
KeyServesOverQuota(m, k) == k \notin key_limited /\ ~AtCapacity(<<m, k>>)

KeyServes(m, k) == ~KeyLimited(k) /\ ~AtCapacity(<<m, k>>)

(* A key is picked if it is free, else the next one is tried. *)
TryKeyAt(t, i) ==
  LET m == op[t].model
      k == Pool[BrandOf[m]][i] IN
  IF KeyServes(m, k) THEN Pick(t, k) ELSE Become(t, [op[t] EXCEPT !.keys = @ \ {i}])

(* Without a pool the model goes on with no key; with one whose every key is *)
(* taken it is dropped.                                                      *)
NoKeyLeft(t) ==
  /\ op[t].keys = {}
  /\ IF KeysOf(op[t].model) = {} THEN Pick(t, NoKey) ELSE NextRule(t, {})

(* A plausible bug for mutation: the pool is tried from its other end. *)
TryLastKey(t) ==
  /\ op[t].pc = "pick"
  /\ \/ \E i \in {j \in op[t].keys : \A l \in op[t].keys : l <= j} : TryKeyAt(t, i)
     \/ NoKeyLeft(t)
  /\ UNCHANGED <<limits, in_flight, learned>>

(* The next key of the pool. *)
TryKey(t) ==
  /\ op[t].pc = "pick"
  /\ (\E i \in Least(op[t].keys) : TryKeyAt(t, i)) \/ NoKeyLeft(t)
  /\ UNCHANGED <<limits, in_flight, learned>>

(* The capacity is read once more, for the key that was picked. *)
Admit(t) ==
  /\ op[t].pc = "admit"
  /\ NextRule(t, IF AtCapacity(op[t].bucket) THEN {} ELSE {op[t].bucket})
  /\ UNCHANGED <<limits, in_flight, learned>>
-----------------------------------------------------------------------------
(* The models of M with the lowest latency. *)
FastestOf(M) == {m \in M : \A n \in M : Latency[m] <= Latency[n]}

(* A plausible bug for mutation: the baseline is over the other models only. *)
FastestUntried(r) == FastestOf(Admitted(r) \ r.exclude)

(* The baseline is the fastest model the filters admit, available or not: a *)
(* busy fast model must not promote a slow one.                             *)
Fastest(r) == FastestOf(Admitted(r))

WithinCeiling(r, b) ==
  /\ r.max_ms = None \/ Latency[b[1]] <= r.max_ms
  /\ r.ratio = None \/ \E m \in Fastest(r) : Latency[b[1]] <= r.ratio * Latency[m]

Exhausted(t) == Become(t, [pc |-> "exhausted", req |-> op[t].req])

(* A plausible bug for mutation: the ceiling only decides on the fallback. *)
DecideKeepingAll(t) ==
  /\ op[t].pc = "check" /\ op[t].todo = {}
  /\ IF op[t].cands = {}
     THEN Exhausted(t)
     ELSE Become(t, [pc |-> "reserve", req |-> op[t].req, left |-> op[t].cands,
                     fallback |-> \A b \in op[t].cands : ~WithinCeiling(op[t].req, b)])
  /\ UNCHANGED <<limits, in_flight, learned>>

(* The rules are through: nothing is left, or the ceiling keeps what passes *)
(* it, and all if nothing does.                                             *)
Decide(t) ==
  LET r == op[t].req
      fast == {b \in op[t].cands : WithinCeiling(r, b)} IN
  /\ op[t].pc = "check" /\ op[t].todo = {}
  /\ IF op[t].cands = {}
     THEN Exhausted(t)
     ELSE Become(t, [pc |-> "reserve", req |-> r, fallback |-> fast = {},
                     left |-> IF fast = {} THEN op[t].cands ELSE fast])
  /\ UNCHANGED <<limits, in_flight, learned>>

Prepaid(b) == Cap[b[1]] # NoLimit /\ b[1] \in Free

(* A plausible bug for mutation: the score alone decides. *)
FirstByScore(C, fallback) ==
  IF fallback THEN {b \in C : \A c \in C : Latency[b[1]] <= Latency[c[1]]} ELSE C

(* The candidates that some score ranks first: under the fallback the      *)
(* fastest, otherwise the prepaid ones before all others.                  *)
First(C, fallback) ==
  IF fallback
  THEN {b \in C : \A c \in C : Latency[b[1]] <= Latency[c[1]]}
  ELSE {b \in C : Prepaid(b) \/ \A c \in C : ~Prepaid(c)}

Holding(b) == [pc |-> "holding", bucket |-> b]

(* A plausible bug for mutation: the slot is taken on the word of Pass 1. *)
ReserveUnchecked(t, b) ==
  /\ op[t].pc = "reserve" /\ b \in First(op[t].left, op[t].fallback)
  /\ in_flight' = [in_flight EXCEPT ![b] = @ + 1]
  /\ Become(t, Holding(b))
  /\ UNCHANGED <<limits, learned>>

(* A plausible bug for mutation: a lost race for the first one is the end. *)
ReserveFirstOnly(t, b) ==
  /\ op[t].pc = "reserve" /\ b \in First(op[t].left, op[t].fallback)
  /\ IF ~Full(b)
     THEN in_flight' = [in_flight EXCEPT ![b] = @ + 1] /\ Become(t, Holding(b))
     ELSE Exhausted(t) /\ UNCHANGED in_flight
  /\ UNCHANGED <<limits, learned>>

(* try_reserve on the best candidate left: its slot, or on to the next one. *)
Reserve(t, b) ==
  /\ op[t].pc = "reserve" /\ b \in First(op[t].left, op[t].fallback)
  /\ IF ~Full(b)
     THEN /\ in_flight' = [in_flight EXCEPT ![b] = @ + 1]
          /\ Become(t, Holding(b))
     ELSE /\ IF op[t].left = {b} THEN Exhausted(t)
             ELSE Become(t, [op[t] EXCEPT !.left = @ \ {b}])
          /\ UNCHANGED in_flight
  /\ UNCHANGED <<limits, learned>>

(* AllModelsExhausted, or GroupNotFound, reaches the caller. *)
Fail(t) ==
  /\ op[t].pc \in {"exhausted", "not_found"}
  /\ Become(t, Idle)
  /\ UNCHANGED <<limits, in_flight, learned>>
-----------------------------------------------------------------------------
(* A plausible bug for mutation: a timeout is taken for the account's fault. *)
AccountScopedTimeout(e) == e \in {"auth", "rpm", "tpm", "tpd", "timeout"}

AccountScoped(e) == e \in {"auth", "rpm", "tpm", "tpd"}

(* The cooldown of an error: the key's for what the account did, the model's *)
(* for the rest; a parse failure has none.                                   *)
Mark(b, e) ==
  LET on_key == AccountScoped(e) /\ b[2] # NoKey IN
  /\ key_limited' = IF on_key THEN key_limited \cup {b[2]} ELSE key_limited
  /\ model_limited' = IF on_key \/ e = "parse" THEN model_limited
                      ELSE model_limited \cup {b[1]}

GiveBack(b) == in_flight' = [in_flight EXCEPT ![b] = @ - 1]

ReportSuccess(t) ==
  LET b == op[t].bucket IN
  /\ op[t].pc = "holding"
  /\ model_limited' = model_limited \ {b[1]}
  /\ key_limited' = key_limited \ {b[2]}
  /\ GiveBack(b)
  /\ Become(t, Idle)
  /\ UNCHANGED <<brand_limited, quota_limited, learned>>

(* A 429 of a model without declared limits teaches a ceiling. *)
ReportRateLimit(t, e) ==
  LET b == op[t].bucket IN
  /\ op[t].pc = "holding"
  /\ Mark(b, e)
  /\ GiveBack(b)
  /\ learned' = IF b[1] \in Unknown THEN [learned EXCEPT ![b] = "room"] ELSE learned
  /\ Become(t, [pc |-> "details", bucket |-> b])
  /\ UNCHANGED <<brand_limited, quota_limited>>

(* report_quota_details follows: nothing to add, a Retry-After for the key  *)
(* or the model, or a quota of the whole account.                           *)
ReportQuotaDetails(t, retry, brand_quota) ==
  LET b == op[t].bucket
      key == b[2] # NoKey /\ (retry \/ brand_quota) IN
  /\ op[t].pc = "details"
  /\ key_limited' = IF key THEN key_limited \cup {b[2]} ELSE key_limited
  /\ quota_limited' = IF key THEN quota_limited \cup {b[2]} ELSE quota_limited
  /\ brand_limited' = IF b[2] = NoKey /\ brand_quota
                      THEN brand_limited \cup {BrandOf[b[1]]} ELSE brand_limited
  /\ model_limited' = IF b[2] = NoKey /\ retry /\ ~brand_quota
                      THEN model_limited \cup {b[1]} ELSE model_limited
  /\ Become(t, Idle)
  /\ UNCHANGED <<in_flight, learned>>

ReportError(t, e) ==
  LET b == op[t].bucket IN
  /\ op[t].pc = "holding"
  /\ Mark(b, e)
  /\ GiveBack(b)
  /\ Become(t, Idle)
  /\ UNCHANGED <<brand_limited, quota_limited, learned>>

(* The client went away before it got its candidate, or a call is cancelled. *)
CancelReservation(t) ==
  /\ op[t].pc = "holding"
  /\ GiveBack(op[t].bucket)
  /\ Become(t, Idle)
  /\ UNCHANGED <<limits, learned>>

(* A cooldown comes to its end. *)
Expire ==
  /\ \/ \E m \in model_limited : /\ model_limited' = model_limited \ {m}
                                 /\ UNCHANGED <<brand_limited, key_limited, quota_limited>>
     \/ \E b \in brand_limited : /\ brand_limited' = brand_limited \ {b}
                                 /\ UNCHANGED <<model_limited, key_limited, quota_limited>>
     \/ \E k \in key_limited : /\ key_limited' = key_limited \ {k}
                               /\ UNCHANGED <<model_limited, brand_limited, quota_limited>>
     \/ \E k \in quota_limited : /\ quota_limited' = quota_limited \ {k}
                                 /\ UNCHANGED <<model_limited, brand_limited, key_limited>>
  /\ UNCHANGED <<in_flight, learned, op>>

(* The window of a learned bucket fills up or drains. *)
LearnedMoves(b) ==
  /\ learned[b] # "none"
  /\ learned' = [learned EXCEPT ![b] = IF @ = "room" THEN "spent" ELSE "room"]
  /\ UNCHANGED <<limits, in_flight, op>>
-----------------------------------------------------------------------------
TaskStep(t) ==
  \/ \E r \in Request : Select(t, r)
  \/ Check(t) \/ TryKey(t) \/ Admit(t) \/ Decide(t) \/ Fail(t)
  \/ \E b \in Bucket : Reserve(t, b)
  \/ ReportSuccess(t) \/ CancelReservation(t)
  \/ \E e \in ErrorType : ReportRateLimit(t, e) \/ ReportError(t, e)
  \/ \E retry, brand_quota \in BOOLEAN : ReportQuotaDetails(t, retry, brand_quota)

Selecting(o) == o.pc \in {"check", "pick", "admit", "reserve", "exhausted"}

(* What was true since the select of task t began and is true now. *)
Since(old, t, begin, now) ==
  IF ~Selecting(op'[t]) THEN {} ELSE (IF Selecting(op[t]) THEN old[t] ELSE begin) \cap now

History ==
  LET reachable == {b \in Bucket : Reachable(b)}
      asked(t) == IF Selecting(op'[t]) THEN Asked(op'[t].req) ELSE {} IN
  /\ free' = [t \in Task |-> Since(free, t, asked(t), reachable')]
  /\ closed' = [t \in Task |->
                  Since(closed, t, UNION {LimitsOn(b) : b \in asked(t)}, Limits')]

Next ==
  /\ Expire \/ (\E b \in Bucket : LearnedMoves(b)) \/ (\E t \in Task : TaskStep(t))
  /\ History

Spec == Init /\ [][Next]_vars
-----------------------------------------------------------------------------
(* The terms of the requests that get as far as the rules. *)
Served == {Terms(r) : r \in {q \in Request : ~GroupNotFound(Catalog, q)}}

(* What a select under the terms r may be doing, and a task between selects. *)
PickOp(r, m) ==
  [pc : {"pick"}, req : {r}, todo : SUBSET DOMAIN r.rules, cands : SUBSET Bucket,
   model : {m}, keys : SUBSET DOMAIN Pool[BrandOf[m]]]
ReserveOp(r) ==
  [pc : {"reserve"}, req : {r}, left : (SUBSET Bucket) \ {{}}, fallback : BOOLEAN]
SelectOp(r) ==
  [pc : {"check"}, req : {r}, todo : SUBSET DOMAIN r.rules, cands : SUBSET Bucket]
  \cup (UNION {PickOp(r, m) : m \in Model})
  \cup [pc : {"admit"}, req : {r}, todo : SUBSET DOMAIN r.rules, cands : SUBSET Bucket,
         bucket : Bucket]
  \cup ReserveOp(r)
  \cup [pc : {"exhausted"}, req : {r}]
OtherOp ==
  {Idle, [pc |-> "not_found"]} \cup [pc : {"holding", "details"}, bucket : Bucket]
Op == OtherOp \cup (UNION {SelectOp(r) : r \in Served})

TypeOK ==
  /\ model_limited \subseteq Model
  /\ brand_limited \subseteq Brand
  /\ key_limited \subseteq Key
  /\ quota_limited \subseteq Key
  /\ in_flight \in [Bucket -> Nat]
  /\ learned \in [Bucket -> {"none", "room", "spent"}]
  /\ op \in [Task -> Op]
  /\ free \in [Task -> SUBSET Bucket]
  /\ closed \in [Task -> SUBSET (({"model"} \X Model) \cup ({"brand"} \X Brand)
                                \cup ({"key", "quota"} \X Key))]

(* The step by which task t is given a slot of bucket b. *)
Serves(t, b) == op[t].pc = "reserve" /\ op'[t] = Holding(b)

(* A bucket of a brand's first key, or of a brand without keys. A bucket of  *)
(* a later key may be overlooked: the key is chosen once, in Pass 1, and if  *)
(* it is taken before its reservation the next one is not tried.             *)
FirstKey(b) == b[2] = NoKey \/ b[2] = Pool[BrandOf[b[1]]][1]

(* A select fails only if no bucket of a first key within the request's     *)
(* latency ceiling could have served it all the time it ran.                *)
ExhaustionJustified ==
  \A t \in Task : op[t].pc = "exhausted" =>
    \A b \in free[t] : FirstKey(b) => ~WithinCeiling(op[t].req, b)

(* README: a prepaid model is preferred and serverless ones serve overflow:  *)
(* no select is served by another model within the ceiling while a prepaid   *)
(* one within it had a slot of its first key free all the time.              *)
PrepaidFirst ==
  [][\A t \in Task, b \in Bucket :
       (Serves(t, b) /\ ~op[t].fallback /\ ~Prepaid(b)) =>
         \A c \in free[t] :
           FirstKey(c) => ~(Prepaid(c) /\ WithinCeiling(op[t].req, c))]_vars

(* selector.rs: "Busy/rate-limited fast models must not promote a 20-second  *)
(* fallback": a bucket beyond the ceiling serves only if none of a first key *)
(* within it could have done so all the time.                                *)
CeilingKept ==
  [][\A t \in Task, b \in Bucket :
       (Serves(t, b) /\ ~WithinCeiling(op[t].req, b)) =>
         \A c \in free[t] : FirstKey(c) => ~WithinCeiling(op[t].req, c)]_vars

(* The ratio is over the fastest admitted model even if it cannot serve: a  *)
(* model slower than that serves only as the logged fallback.               *)
SlowOnlyAsFallback ==
  [][\A t \in Task, b \in Bucket :
       (Serves(t, b) /\ op[t].req.ratio # None
          /\ \E m \in Admitted(op[t].req) :
               Latency[b[1]] > op[t].req.ratio * Latency[m])
         => op[t].fallback]_vars

(* README: a rate limit is reported synchronously "because the model must be *)
(* blocked before the retry select()": what was rate-limited all the time a  *)
(* select ran never serves it.                                               *)
BlockedNeverServes ==
  [][\A t \in Task, b \in Bucket :
       Serves(t, b) => closed[t] \cap LimitsOn(b) = {}]_vars

(* models.rs: a flaky model must not lock out its healthy siblings: an error *)
(* that is not the account's own leaves every other model in reach.          *)
SiblingsUnharmed ==
  [][\A t \in Task, e \in {"timeout", "parse", "other"} :
       (ReportError(t, e) \/ ReportRateLimit(t, e)) =>
         \A b \in Bucket :
           (b[1] # op[t].bucket[1] /\ Reachable(b)) => Reachable(b)']_vars

(* A key is chosen in the order of the pool: no key serves a model while an *)
(* earlier one could have done so all the time.                             *)
KeyOrder ==
  [][\A t \in Task, b \in Bucket : Serves(t, b) =>
       LET keys == Pool[BrandOf[b[1]]] IN
       \A i, j \in DOMAIN keys :
         (keys[j] = b[2] /\ i < j) => <<b[1], keys[i]>> \notin free[t]]_vars

(* What the terms of a request ask of model m. *)
WantedBy(r, m) ==
  LET model == Catalog.models[m] IN
  /\ m \notin r.exclude /\ model.enabled /\ Catalog.brands[model.brand].active
  /\ r.pin # None => m \in r.pin
  /\ ByGroup(r) => \E i \in DOMAIN Catalog.groups[r.group].members :
                     Catalog.groups[r.group].members[i] = [model |-> m, enabled |-> TRUE]
  /\ r.no_training /\ model.trains # FALSE =>
       r.gateway /\ Catalog.brands[model.brand].openrouter

(* models.rs, SelectRequest: a group restricts the candidates to its members, *)
(* a pin to the models it names, and where training is not allowed unknown   *)
(* "is excluded too, not treated as safe by default", but for the gateway's  *)
(* own calls of a provider that can be told: no fallback, for want of rules, *)
(* of members or of a model within the ceiling, serves any other.            *)
ServesWithinTerms ==
  [][\A t \in Task, b \in Bucket :
       Serves(t, b) => WantedBy(op[t].req.ask, b[1])]_vars

(* The slots: reservations and reports are those of SlotPool. *)
Slots == INSTANCE SlotPool WITH
  Caller <- Task, Key <- Key \cup {NoKey}, NoCap <- NoLimit, Caps <- {Cap[m] : m \in Model},
  max_in_flight <- Cap,
  held <- [b \in Model \X (Key \cup {NoKey}) |->
             {t \in Task : op[t].pc = "holding" /\ op[t].bucket = b}]
SlotsSpec == Slots!Spec

(* The counters are those of the calls in progress. *)
InFlightCountsHolders ==
  \A b \in Bucket :
    in_flight[b] = Cardinality({t \in Task : op[t].pc = "holding" /\ op[t].bucket = b})
=============================================================================
