------------------------------ MODULE Complete ------------------------------
(***************************************************************************)
(* server/src/complete.rs and lib.rs: the /complete handler.               *)
(*                                                                         *)
(* A handler selects a model, calls its provider, reports the outcome and, *)
(* after a failure, goes on with the models left, up to MaxAttempts times. *)
(* Select and report run as blocking jobs.  A client that disconnects      *)
(* drops the handler at whatever await it has reached; a job that runs is  *)
(* detached and goes on.  What is dropped gives its slot back: the handler *)
(* the one of the call in progress, a detached select the one it takes.    *)
(*                                                                         *)
(* Abstracted: a select or a report is one step (Selector and UsageTracker *)
(* look inside), a model has one bucket and a brand of its own, times are  *)
(* a few milliseconds that Tick counts down.                               *)
(***************************************************************************)
EXTENDS Naturals, FiniteSets

CONSTANTS
  Task,         \* clients: a client has one request at a time
  Model,
  NoLimit,      \* no max_in_flight, no max_wait_ms
  Cap,          \* max_in_flight of each model
  Keyed,        \* the models whose brand has a key pool
  Setup,        \* what may come of preparing a model's call: see Claim
  Request,      \* records [models, pin, pin_wait, budget]
  MaxAttempts,  \* MAX_PROVIDER_ATTEMPTS
  Cooldown,     \* ms a reported error blocks; also the default of a quota
  RetryMs,      \* what a provider may send as Retry-After; 0 if nothing
  DrainMs       \* what the windows of a full model may announce

ASSUME CompleteAssumption ==
  /\ Cap \in [Model -> Nat \cup {NoLimit}] /\ Keyed \subseteq Model
  /\ Setup \in [Model -> SUBSET {"ready", "no_url", "no_key", "bad_payload"}]
  /\ Request \subseteq [models : SUBSET Model, pin : BOOLEAN, pin_wait : BOOLEAN,
                        budget : Nat \cup {NoLimit}]
  /\ MaxAttempts \in Nat \ {0} /\ Cooldown \in Nat \ {0}
  /\ RetryMs \subseteq Nat /\ DrainMs \subseteq Nat \ {0}
  /\ NoLimit \notin Nat /\ IsFiniteSet(Task)

VARIABLES
  in_flight,   \* usage_tracker: the slots taken of each model
  model_ms,    \* rate_state: the milliseconds the block of a model has left
  key_ms,      \* key_rate_state, of the model's key
  quota_ms,    \* quota_key_state of its key, brand_rate_state without a key
  op,          \* where each client's request is
  failed,      \* history: the models that have failed each client's request
  stated_ms    \* history: what is left of the last Retry-After of a model's key

blocks == <<model_ms, key_ms, quota_ms>>
vars == <<in_flight, blocks, op, failed, stated_ms>>

Idle == [pc |-> "idle"]
Become(t, o) == op' = [op EXCEPT ![t] = o]

Take(m) == in_flight' = [in_flight EXCEPT ![m] = @ + 1]
GiveBack(m) == in_flight' = [in_flight EXCEPT ![m] = @ - 1]

Init ==
  /\ in_flight = [m \in Model |-> 0]
  /\ model_ms = [m \in Model |-> 0] /\ key_ms = [m \in Model |-> 0]
  /\ quota_ms = [m \in Model |-> 0]
  /\ op = [t \in Task |-> Idle]
  /\ failed = [t \in Task |-> {}]
  /\ stated_ms = [m \in Keyed |-> 0]
-----------------------------------------------------------------------------
(* A handler that selects from the models left, for the first time or, after *)
(* a sleep, once more.                                                       *)
Selecting(run, again) == [pc |-> "select", run |-> run, again |-> again]

Arrive(t, r) ==
  /\ op[t] = Idle
  /\ Become(t, Selecting([req |-> r, attempt |-> 0, left |-> r.models], FALSE))
  /\ failed' = [failed EXCEPT ![t] = {}]
  /\ UNCHANGED <<in_flight, blocks, stated_ms>>

Answer(t, status, hint) ==
  Become(t, [pc |-> "answer", status |-> status, hint |-> hint])

Blocked(m) == model_ms[m] > 0 \/ key_ms[m] > 0 \/ quota_ms[m] > 0
Full(m) == Cap[m] # NoLimit /\ in_flight[m] >= Cap[m]
Available(m) == ~Blocked(m) /\ ~Full(m)

(* The first of some ends, or 0. *)
Soonest(ends) ==
  {ms \in ends : \A n \in ends : ms <= n} \cup (IF ends = {} THEN {0} ELSE {})

(* The retry_after_ms of an exhausted select: the first block to end, or    *)
(* window to drain; 0 if neither is known.                                  *)
RetryHints(left) ==
  LET ends == {ms \in UNION {{model_ms[m], key_ms[m], quota_ms[m]} : m \in left} : ms > 0}
      drains == IF \E m \in left : ~Blocked(m) THEN {{}} \cup {{ms} : ms \in DrainMs} ELSE {{}}
  IN UNION {Soonest(ends \cup d) : d \in drains}

(* select_with_wait: a pinned request waits only if it asks for it. *)
WaitBudget(r) == IF r.pin /\ ~r.pin_wait THEN NoLimit ELSE r.budget

MayWait(r, hint) == hint > 0 /\ WaitBudget(r) # NoLimit /\ hint <= WaitBudget(r)

(* A first exhausted select is worth a wait that fits the budget. *)
WaitFirst(t, hint) == ~op[t].again /\ MayWait(op[t].run.req, hint)

(* A plausible bug for mutation: every exhaustion is the client's 409. *)
ExhaustedAlways409(t, hint) == Answer(t, 409, hint)

(* Exhaustion is 409 if a retry delay is known or nothing was tried; else a *)
(* failure before it is the cause to tell.                                  *)
AnswerExhausted(t, hint) ==
  Answer(t, IF hint > 0 \/ op[t].run.attempt = 0 THEN 409 ELSE 502, hint)

(* The job finds a model, or every one left is blocked or full. *)
SelectFinds(t, m) ==
  /\ op[t].pc = "select" /\ m \in op[t].run.left /\ Available(m)
  /\ Take(m)
  /\ Become(t, [pc |-> "selected", run |-> op[t].run, model |-> m])
  /\ UNCHANGED <<blocks, failed, stated_ms>>

SelectExhausted(t) ==
  /\ op[t].pc = "select" /\ (\A m \in op[t].run.left : ~Available(m))
  /\ \E hint \in RetryHints(op[t].run.left) :
       IF WaitFirst(t, hint)
       THEN Become(t, [pc |-> "sleep", ms |-> hint, run |-> op[t].run])
       ELSE AnswerExhausted(t, hint)
  /\ UNCHANGED <<in_flight, blocks, failed, stated_ms>>

(* The group is gone (404) or the catalog cannot be read (500). *)
SelectFails(t, status) ==
  /\ op[t].pc = "select"
  /\ Answer(t, IF op[t].run.attempt > 0 THEN 502 ELSE status, 0)
  /\ UNCHANGED <<in_flight, blocks, failed, stated_ms>>

Wake(t) ==
  /\ op[t].pc = "sleep" /\ op[t].ms = 0
  /\ Become(t, Selecting(op[t].run, TRUE))
  /\ UNCHANGED <<in_flight, blocks, failed, stated_ms>>
-----------------------------------------------------------------------------
Rejection == [kind : {"rate_limit"}, retry : RetryMs, brand_quota : BOOLEAN]

(* The end of a call, or the reason there is none. *)
Outcome ==
  [kind : {"success", "error", "no_url", "no_key", "bad_payload"}] \cup Rejection

Reporting(o, outcome) ==
  [pc |-> "report", run |-> o.run, model |-> o.model, outcome |-> outcome]

(* The handler takes the candidate: its provider is called, unless there is *)
(* no endpoint, no key, or no way to express the request to it.             *)
Claim(t) ==
  /\ op[t].pc = "selected"
  /\ \E setup \in Setup[op[t].model] :
       Become(t, IF setup = "ready" THEN [op[t] EXCEPT !.pc = "call"]
                 ELSE Reporting(op[t], [kind |-> setup]))
  /\ UNCHANGED <<in_flight, blocks, failed, stated_ms>>

(* The provider answers, fails or lets the timeout pass. *)
ProviderAnswers(t, outcome) ==
  /\ op[t].pc = "call"
  /\ Become(t, Reporting(op[t], outcome))
  /\ UNCHANGED <<in_flight, blocks, failed, stated_ms>>

Set(f, m, ms) == [f EXCEPT ![m] = ms]

(* A success lifts the blocks of the model and its key; a rejection and a   *)
(* missing key block the key if there is one, any other failure the model.  *)
Mark(m, kind) ==
  LET on_key == kind \in {"rate_limit", "no_key"} /\ m \in Keyed IN
  /\ model_ms' = CASE kind = "success" -> Set(model_ms, m, 0)
                   [] on_key -> model_ms
                   [] OTHER -> Set(model_ms, m, Cooldown)
  /\ key_ms' = CASE kind = "success" -> Set(key_ms, m, 0)
                 [] on_key -> Set(key_ms, m, Cooldown)
                 [] OTHER -> key_ms
  /\ UNCHANGED quota_ms

Again(t, attempt, left) ==
  Become(t, Selecting([op[t].run EXCEPT !.attempt = attempt, !.left = left], FALSE))

(* A plausible bug for mutation: the loop gives up one attempt early. *)
NextAttemptEarly(t, left) ==
  IF op[t].run.attempt + 1 >= MaxAttempts - 1 THEN Answer(t, 502, 0)
  ELSE Again(t, op[t].run.attempt + 1, left)

(* A plausible bug for mutation: an attempt does not count. *)
NextAttemptUncounted(t, left) == Again(t, op[t].run.attempt, left)

NextAttempt(t, left) ==
  IF op[t].run.attempt + 1 = MaxAttempts THEN Answer(t, 502, 0)
  ELSE Again(t, op[t].run.attempt + 1, left)

Fails(t, m) == failed' = [failed EXCEPT ![t] = @ \cup {m}]

(* The report job: it runs to its end whether the handler waits or not. *)
ReportJob(t) ==
  LET m == op[t].model
      kind == op[t].outcome.kind IN
  /\ op[t].pc \in {"report", "lost_report"}
  /\ Mark(m, kind)
  /\ GiveBack(m)
  /\ IF op[t].pc = "lost_report" THEN Become(t, Idle) /\ UNCHANGED failed
     ELSE CASE kind = "success" -> Answer(t, 200, 0) /\ UNCHANGED failed
            [] kind = "bad_payload" -> Answer(t, 422, 0) /\ UNCHANGED failed
            [] kind = "rate_limit" ->
                 Become(t, [op[t] EXCEPT !.pc = "details"]) /\ Fails(t, m)
            [] OTHER -> NextAttempt(t, op[t].run.left \ {m}) /\ Fails(t, m)
  /\ UNCHANGED stated_ms

(* A pinned request tries its model again if its Retry-After fits the budget. *)
RetriesPin(r, retry) ==
  r.pin /\ r.pin_wait /\ retry > 0 /\ r.budget # NoLimit /\ retry <= r.budget

(* A plausible bug for mutation: a rejected model stays in the running. *)
LeftAfterAll(t) == op[t].run.left

LeftAfter(t) ==
  IF RetriesPin(op[t].run.req, op[t].outcome.retry) THEN op[t].run.left
  ELSE op[t].run.left \ {op[t].model}

(* A plausible bug for mutation: a Retry-After goes to key_rate_state only. *)
QuotaBlockOfBrand(m, retry, brand) == brand

(* What no success lifts: a quota, and any Retry-After of a key. *)
QuotaBlock(m, retry, brand) == brand \/ (m \in Keyed /\ retry > 0)

(* The job of report_quota_details: Retry-After, and a quota of the account. *)
(* What was there is replaced, a longer Retry-After by a default, too.       *)
DetailsJob(t) ==
  LET m == op[t].model
      retry == op[t].outcome.retry
      brand == op[t].outcome.brand_quota
      ms == IF retry > 0 THEN retry ELSE Cooldown IN
  /\ op[t].pc \in {"details", "lost_details"}
  /\ key_ms' = IF m \in Keyed /\ (brand \/ retry > 0) THEN Set(key_ms, m, ms) ELSE key_ms
  /\ quota_ms' = IF QuotaBlock(m, retry, brand) THEN Set(quota_ms, m, ms) ELSE quota_ms
  /\ model_ms' = IF m \notin Keyed /\ ~brand /\ retry > 0 THEN Set(model_ms, m, ms) ELSE model_ms
  /\ stated_ms' = IF m \in Keyed /\ (brand \/ retry > 0) THEN Set(stated_ms, m, retry) ELSE stated_ms
  /\ IF op[t].pc = "lost_details" THEN Become(t, Idle) ELSE NextAttempt(t, LeftAfter(t))
  /\ UNCHANGED <<in_flight, failed>>

(* The client has its answer. *)
Done(t) ==
  /\ op[t].pc = "answer"
  /\ Become(t, Idle)
  /\ failed' = [failed EXCEPT ![t] = {}]
  /\ UNCHANGED <<in_flight, blocks, stated_ms>>
-----------------------------------------------------------------------------
(* A plausible bug for mutation: the guard of the call in progress is missing. *)
DisconnectLeaking(t) ==
  /\ op[t].pc \in {"selected", "sleep", "call"}
  /\ Become(t, Idle)
  /\ failed' = [failed EXCEPT ![t] = {}]
  /\ UNCHANGED <<in_flight, blocks, stated_ms>>

(* The client goes away.  The guards of a finished select and of a call give *)
(* the slot back; a job in progress is left to itself.                       *)
Disconnect(t) ==
  /\ CASE op[t].pc \in {"selected", "call"} -> GiveBack(op[t].model) /\ Become(t, Idle)
       [] op[t].pc = "sleep" -> UNCHANGED in_flight /\ Become(t, Idle)
       [] op[t].pc = "select" ->
            /\ UNCHANGED in_flight
            /\ Become(t, [pc |-> "lost_select", left |-> op[t].run.left])
       [] op[t].pc \in {"report", "details"} ->
            /\ UNCHANGED in_flight
            /\ Become(t, [pc |-> IF op[t].pc = "report" THEN "lost_report" ELSE "lost_details",
                          model |-> op[t].model, outcome |-> op[t].outcome])
       [] OTHER -> FALSE
  /\ failed' = [failed EXCEPT ![t] = {}]
  /\ UNCHANGED <<blocks, stated_ms>>

(* A detached select takes a slot that nobody will claim, or ends without. *)
LostSelect(t) ==
  /\ op[t].pc = "lost_select"
  /\ \/ /\ \E m \in op[t].left :
             Available(m) /\ Take(m) /\ Become(t, [pc |-> "unclaimed", model |-> m])
     \/ Become(t, Idle) /\ UNCHANGED in_flight
  /\ UNCHANGED <<blocks, failed, stated_ms>>

(* Its result is dropped, and with it the reservation. *)
DropUnclaimed(t) ==
  /\ op[t].pc = "unclaimed"
  /\ GiveBack(op[t].model)
  /\ Become(t, Idle)
  /\ UNCHANGED <<blocks, failed, stated_ms>>

Down(ms) == IF ms = 0 THEN 0 ELSE ms - 1

(* A millisecond passes. *)
Tick ==
  /\ \/ \E m \in Model : Blocked(m)
     \/ \E t \in Task : op[t].pc = "sleep" /\ op[t].ms > 0
  /\ model_ms' = [m \in Model |-> Down(model_ms[m])]
  /\ key_ms' = [m \in Model |-> Down(key_ms[m])]
  /\ quota_ms' = [m \in Model |-> Down(quota_ms[m])]
  /\ stated_ms' = [m \in Keyed |-> Down(stated_ms[m])]
  /\ op' = [t \in Task |-> IF op[t].pc = "sleep" THEN [op[t] EXCEPT !.ms = Down(@)] ELSE op[t]]
  /\ UNCHANGED <<in_flight, failed>>
-----------------------------------------------------------------------------
(* What the provider may do with a call; the kinds of Claim are not its. *)
ProviderOutcome == {o \in Outcome : o.kind \in {"success", "error", "rate_limit"}}

(* The steps of the server, the provider and the clock, which all go on. *)
Progress(t) ==
  \/ (\E m \in Model : SelectFinds(t, m)) \/ SelectExhausted(t)
  \/ Wake(t) \/ Claim(t) \/ (\E o \in ProviderOutcome : ProviderAnswers(t, o))
  \/ ReportJob(t) \/ DetailsJob(t) \/ Done(t) \/ LostSelect(t) \/ DropUnclaimed(t)

Next ==
  \/ Tick
  \/ \E t \in Task : \/ Progress(t) \/ Disconnect(t)
                     \/ \E r \in Request : Arrive(t, r)
                     \/ \E status \in {404, 500} : SelectFails(t, status)

Spec == Init /\ [][Next]_vars

(* Jobs are run, calls end by their timeout, and time passes. *)
FairSpec == Spec /\ WF_vars(Tick) /\ \A t \in Task : WF_vars(Progress(t))
-----------------------------------------------------------------------------
Runs == [req : Request, attempt : 0..(MaxAttempts - 1), left : SUBSET Model]

Op ==
  {Idle}
  \cup [pc : {"select"}, run : Runs, again : BOOLEAN]
  \cup [pc : {"sleep"}, run : Runs, ms : Nat]
  \cup [pc : {"selected", "call"}, run : Runs, model : Model]
  \cup [pc : {"report"}, run : Runs, model : Model, outcome : Outcome]
  \cup [pc : {"details"}, run : Runs, model : Model, outcome : Rejection]
  \cup [pc : {"answer"}, status : {200, 404, 409, 422, 500, 502}, hint : Nat]
  \cup [pc : {"lost_select"}, left : SUBSET Model]
  \cup [pc : {"unclaimed"}, model : Model]
  \cup [pc : {"lost_report"}, model : Model, outcome : Outcome]
  \cup [pc : {"lost_details"}, model : Model, outcome : Rejection]

TypeOK ==
  /\ in_flight \in [Model -> Nat]
  /\ model_ms \in [Model -> Nat]
  /\ key_ms \in [Model -> Nat]
  /\ quota_ms \in [Model -> Nat]
  /\ stated_ms \in [Keyed -> Nat]
  /\ op \in [Task -> Op]
  /\ failed \in [Task -> SUBSET Model]

(* README: "Server-managed calls release slots on success, failure and       *)
(* cancellation": each slot taken is that of one call, report or unclaimed   *)
(* select, whatever the clients do.                                          *)
SlotsAccounted ==
  \A m \in Model :
    in_flight[m] = Cardinality({t \in Task :
      /\ op[t].pc \in {"selected", "call", "report", "lost_report", "unclaimed"}
      /\ op[t].model = m})

(* The slots: calls, reports and unclaimed selects hold them as SlotPool says. *)
Slots == INSTANCE SlotPool WITH
  Caller <- Task, Key <- {"key"}, NoCap <- NoLimit, Caps <- {Cap[m] : m \in Model},
  max_in_flight <- Cap,
  held <- [b \in Model \X {"key"} |->
             {t \in Task :
               /\ op[t].pc \in {"selected", "call", "report", "lost_report", "unclaimed"}
               /\ op[t].model = b[1]}]
SlotsSpec == Slots!Spec

(* docs/http-api.md: 502 tells of a failure of this request; 409 comes       *)
(* before any attempt or with a positive retry delay, a missing group's 404  *)
(* before any.                                                               *)
AnswerTruthful ==
  \A t \in Task : op[t].pc = "answer" =>
    CASE op[t].status = 502 -> failed[t] # {}
      [] op[t].status = 409 -> failed[t] = {} \/ op[t].hint > 0
      [] op[t].status \in {404, 500} -> failed[t] = {}
      [] OTHER -> TRUE

(* A model that failed a request is not called by it again, save the pinned *)
(* model of a request that waits.                                           *)
FailedNotCalledAgain ==
  [][\A t \in Task :
       Claim(t) /\ op[t].model \in failed[t] => op[t].run.req.pin /\ op[t].run.req.pin_wait]_vars

(* docs/http-api.md: up to 4 attempts, each with another model: the report   *)
(* of a failure is answered 502 only if that many models have failed.        *)
AllAttemptsMade ==
  [][\A t \in Task :
       ((ReportJob(t) \/ DetailsJob(t)) /\ op'[t].pc = "answer" /\ op'[t].status = 502)
         => op[t].run.req.pin \/ Cardinality(failed'[t]) = MaxAttempts]_vars

(* A brand with a key pool: no slot of a model is taken while the last       *)
(* Retry-After of its key runs, whatever successes of older calls arrive,    *)
(* unless a quota failure that states none has replaced it.                  *)
KeyRetryAfterHonoured ==
  [][\A m \in Keyed : in_flight'[m] > in_flight[m] => stated_ms[m] = 0]_vars

(* Every request comes to its end, its slot and its jobs with it, whatever  *)
(* the provider and the client do.                                          *)
Settles == \A t \in Task : op[t] # Idle ~> op[t] = Idle
=============================================================================
