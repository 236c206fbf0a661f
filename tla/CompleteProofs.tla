--------------------------- MODULE CompleteProofs ---------------------------
(***************************************************************************)
(* For any models, requests, limits and number of clients: the slots of    *)
(* the /complete handler, which are those of SlotPool, what its answers    *)
(* say of the attempts made, and that a Retry-After is honoured.           *)
(*                                                                         *)
(* Inv is the types and the slots.  Told relates, client by client, where  *)
(* the handler is to the models that have failed its request; Stated       *)
(* relates a key's last Retry-After to the block that enforces it.         *)
(***************************************************************************)
EXTENDS Complete, FiniteSetTheorems, TLAPS

(* The states of a handler with a request, and of a call or its job. *)
Trying == {"select", "sleep", "selected", "call", "report", "details"}
WithModel == {"selected", "call", "report", "details", "unclaimed",
              "lost_report", "lost_details"}

(* What a client may be doing, read from its state ... *)
LEMMA OpFields ==
  ASSUME NEW o \in Op
  PROVE  /\ o.pc \in Trying => o.run \in Runs
         /\ o.pc \in WithModel => o.model \in Model
         /\ o.pc \in {"report", "lost_report"} => o.outcome \in Outcome
         /\ o.pc \in {"details", "lost_details"} => o.outcome \in Rejection
         /\ o.pc = "sleep" => o.ms \in Nat
         /\ o.pc = "lost_select" => o.left \in SUBSET Model
<1> USE DEF Trying, WithModel
<1>1. CASE o = Idle
  BY <1>1 DEF Idle
<1>2. CASE o \in [pc : {"select"}, run : Runs, again : BOOLEAN]
  BY <1>2
<1>3. CASE o \in [pc : {"sleep"}, run : Runs, ms : Nat]
  BY <1>3
<1>4. CASE o \in [pc : {"selected", "call"}, run : Runs, model : Model]
  BY <1>4
<1>5. CASE o \in [pc : {"report"}, run : Runs, model : Model, outcome : Outcome]
  BY <1>5
<1>6. CASE o \in [pc : {"details"}, run : Runs, model : Model, outcome : Rejection]
  BY <1>6
<1>7. CASE o \in [pc : {"answer"}, status : {200, 404, 409, 422, 500, 502}, hint : Nat]
  BY <1>7
<1>8. CASE o \in [pc : {"lost_select"}, left : SUBSET Model]
  BY <1>8
<1>9. CASE o \in [pc : {"unclaimed"}, model : Model]
  BY <1>9
<1>10. CASE o \in [pc : {"lost_report"}, model : Model, outcome : Outcome]
  BY <1>10
<1>11. CASE o \in [pc : {"lost_details"}, model : Model, outcome : Rejection]
  BY <1>11
<1> QED
  BY <1>1, <1>2, <1>3, <1>4, <1>5, <1>6, <1>7, <1>8, <1>9, <1>10, <1>11 DEF Op

(* ... and the states it may be put into. *)
LEMMA SelectingForm == \A run \in Runs, again \in BOOLEAN : Selecting(run, again) \in Op
BY DEF Op, Selecting

(* The states of a handler in an attempt. *)
LEMMA RunForms ==
  ASSUME NEW run \in Runs
  PROVE  /\ \A ms \in Nat : [pc |-> "sleep", ms |-> ms, run |-> run] \in Op
         /\ \A m \in Model :
              /\ [pc |-> "selected", run |-> run, model |-> m] \in Op
              /\ [pc |-> "call", run |-> run, model |-> m] \in Op
              /\ \A outcome \in Outcome :
                   [pc |-> "report", run |-> run, model |-> m, outcome |-> outcome] \in Op
              /\ \A outcome \in Rejection :
                   [pc |-> "details", run |-> run, model |-> m, outcome |-> outcome] \in Op
<1>2. \A ms \in Nat : [pc |-> "sleep", ms |-> ms, run |-> run] \in Op
  BY DEF Op
<1>3. \A m \in Model : /\ [pc |-> "selected", run |-> run, model |-> m] \in Op
                       /\ [pc |-> "call", run |-> run, model |-> m] \in Op
  BY DEF Op
<1>4. \A m \in Model : \A outcome \in Outcome :
        [pc |-> "report", run |-> run, model |-> m, outcome |-> outcome] \in Op
  BY DEF Op
<1>5. \A m \in Model : \A outcome \in Rejection :
        [pc |-> "details", run |-> run, model |-> m, outcome |-> outcome] \in Op
  BY DEF Op
<1> QED
  BY <1>2, <1>3, <1>4, <1>5

(* The states without one. *)
LEMMA OtherForms ==
  /\ Idle \in Op
  /\ \A status \in {200, 404, 409, 422, 500, 502}, hint \in Nat :
       [pc |-> "answer", status |-> status, hint |-> hint] \in Op
  /\ \A left \in SUBSET Model : [pc |-> "lost_select", left |-> left] \in Op
  /\ \A m \in Model : [pc |-> "unclaimed", model |-> m] \in Op
<1>1. Idle \in Op
  BY DEF Op
<1>2. \A status \in {200, 404, 409, 422, 500, 502}, hint \in Nat :
        [pc |-> "answer", status |-> status, hint |-> hint] \in Op
  BY DEF Op
<1>3. \A left \in SUBSET Model : [pc |-> "lost_select", left |-> left] \in Op
  BY DEF Op
<1>4. \A m \in Model : [pc |-> "unclaimed", model |-> m] \in Op
  BY DEF Op
<1> QED
  BY <1>1, <1>2, <1>3, <1>4

(* A report whose handler has gone goes on with what it was given. *)
LEMMA LostForms ==
  ASSUME NEW m \in Model
  PROVE  /\ \A outcome \in Outcome :
              [pc |-> "lost_report", model |-> m, outcome |-> outcome] \in Op
         /\ \A outcome \in Rejection :
              [pc |-> "lost_details", model |-> m, outcome |-> outcome] \in Op
<1>1. \A outcome \in Outcome :
        [pc |-> "lost_report", model |-> m, outcome |-> outcome] \in Op
  BY DEF Op
<1>2. \A outcome \in Rejection :
        [pc |-> "lost_details", model |-> m, outcome |-> outcome] \in Op
  BY DEF Op
<1> QED
  BY <1>1, <1>2

(* A client that is put into a state there is leaves the others alone. *)
OpStep(t) == op'[t] \in Op /\ op' = [op EXCEPT ![t] = op'[t]]

(* What Become does to the other clients: nothing. *)
LEMMA BecomeType ==
  ASSUME op \in [Task -> Op], NEW t \in Task, NEW o \in Op, Become(t, o)
  PROVE  OpStep(t) /\ op'[t] = o
BY DEF Become, OpStep

(* A handler that selects is in its select, with the run it was given. *)
LEMMA SelectingType ==
  ASSUME op \in [Task -> Op], NEW t \in Task, NEW run \in Runs, NEW again \in BOOLEAN,
         Become(t, Selecting(run, again))
  PROVE  OpStep(t) /\ op'[t].pc = "select" /\ op'[t].run = run
<1>1. ASSUME NEW o, o = Selecting(run, again)
      PROVE  o \in Op /\ o.pc = "select" /\ o.run = run
  BY <1>1, SelectingForm DEF Selecting
<1>2. PICK o : o = Selecting(run, again)
  OBVIOUS
<1>3. o \in Op /\ o.pc = "select" /\ o.run = run /\ Become(t, o)
  BY <1>1, <1>2
<1> QED
  BY <1>3, BecomeType
-----------------------------------------------------------------------------
(* A hint is a number of milliseconds. *)
LEMMA HintType ==
  ASSUME model_ms \in [Model -> Nat], key_ms \in [Model -> Nat], quota_ms \in [Model -> Nat],
         NEW left \in SUBSET Model
  PROVE  RetryHints(left) \subseteq Nat
<1> DEFINE ends == {ms \in UNION {{model_ms[m], key_ms[m], quota_ms[m]} : m \in left} : ms > 0}
           drains == IF \E m \in left : ~Blocked(m) THEN {{}} \cup {{ms} : ms \in DrainMs} ELSE {{}}
<1>1. ends \subseteq Nat
  OBVIOUS
<1>2. \A d \in drains : d \subseteq Nat
  BY CompleteAssumption
<1>3. ASSUME NEW s, s \subseteq Nat
      PROVE  Soonest(s) \subseteq Nat
  <2>1. {0} \subseteq Nat
    OBVIOUS
  <2> QED
    BY <1>3, <2>1 DEF Soonest
<1>4. \A d \in drains : ends \cup d \subseteq Nat
  BY <1>1, <1>2
<1>5. RetryHints(left) = UNION {Soonest(ends \cup d) : d \in drains}
  BY DEF RetryHints
<1> HIDE DEF ends, drains
<1> QED
  BY <1>3, <1>4, <1>5

(* A step of a client: one of the four that Next has for it. *)
TaskStep(t) ==
  \/ Progress(t) \/ Disconnect(t)
  \/ \E r \in Request : Arrive(t, r)
  \/ \E status \in {404, 500} : SelectFails(t, status)

(* What is left after a rejection: all but the model that was called, save *)
(* for a pinned request that waits.                                        *)
LEMMA LeftAfterCases ==
  ASSUME NEW t \in Task
  PROVE  \/ LeftAfter(t) = op[t].run.left \ {op[t].model}
         \/ /\ LeftAfter(t) = op[t].run.left
            /\ op[t].run.req.pin /\ op[t].run.req.pin_wait
BY DEF LeftAfter, RetriesPin

(* The end of an attempt: the answer, or another attempt with what is left. *)
LEMMA NextAttemptCases ==
  ASSUME op \in [Task -> Op], NEW t \in Task, op[t].run \in Runs,
         NEW left \in SUBSET op[t].run.left, NextAttempt(t, left)
  PROVE  /\ OpStep(t)
         /\ \/ /\ op[t].run.attempt + 1 = MaxAttempts
               /\ op'[t] = [pc |-> "answer", status |-> 502, hint |-> 0]
            \/ /\ op[t].run.attempt + 1 # MaxAttempts
               /\ op'[t].pc = "select"
               /\ op'[t].run.req = op[t].run.req
               /\ op'[t].run.attempt = op[t].run.attempt + 1
               /\ op'[t].run.left = left
<1> DEFINE run == [op[t].run EXCEPT !.attempt = op[t].run.attempt + 1, !.left = left]
<1>1. CASE op[t].run.attempt + 1 = MaxAttempts
  <2>1. Become(t, [pc |-> "answer", status |-> 502, hint |-> 0])
    BY <1>1 DEF NextAttempt, Answer
  <2>2. [pc |-> "answer", status |-> 502, hint |-> 0] \in Op
    BY OtherForms
  <2> QED
    BY <1>1, <2>1, <2>2, BecomeType
<1>2. CASE op[t].run.attempt + 1 # MaxAttempts
  <2>0. /\ op[t].run.attempt \in Nat /\ op[t].run.attempt < MaxAttempts
        /\ op[t].run.left \subseteq Model
    BY CompleteAssumption DEF Runs
  <2>1. /\ run \in Runs /\ run.req = op[t].run.req
        /\ run.attempt = op[t].run.attempt + 1 /\ run.left = left
    <3>1. op[t].run.attempt + 1 \in 0..(MaxAttempts - 1) /\ left \in SUBSET Model
      BY <1>2, <2>0, CompleteAssumption
    <3> QED
      BY <3>1 DEF Runs
  <2>2. Become(t, Selecting(run, FALSE))
    BY <1>2 DEF NextAttempt, Again
  <2> HIDE DEF run
  <2>3. OpStep(t) /\ op'[t].pc = "select" /\ op'[t].run = run
    BY <2>1, <2>2, SelectingType
  <2> QED
    BY <1>2, <2>1, <2>3
<1> QED
  BY <1>1, <1>2
-----------------------------------------------------------------------------
(* What a step does to the slots: it takes one, gives one back, or keeps the *)
(* client's.                                                                 *)
Holding == {"selected", "call", "report", "lost_report", "unclaimed"}
Holds(o, m) == o.pc \in Holding /\ o.model = m

Takes(t, m) ==
  Available(m) /\ Take(m) /\ op[t].pc \notin Holding /\ Holds(op'[t], m)
Gives(t) == op[t].pc \in Holding /\ GiveBack(op[t].model) /\ op'[t].pc \notin Holding
Keeps(t) ==
  /\ UNCHANGED in_flight
  /\ \/ op[t].pc \notin Holding /\ op'[t].pc \notin Holding
     \/ op[t].pc \in Holding /\ Holds(op'[t], op[t].model)

SlotStep(t) == (\E m \in Model : Takes(t, m)) \/ Gives(t) \/ Keeps(t)

(* What a step does to a request: it is at its start, in one attempt ...   *)
InAttempt == {"select", "sleep", "selected", "call", "report"}
Called == {"selected", "call", "report"}

Begins(t) ==
  op'[t].pc = "select" /\ op'[t].run.attempt = 0 /\ failed'[t] = {}

Continues(t) ==
  /\ op[t].pc \in InAttempt /\ op'[t].pc \in InAttempt
  /\ op'[t].run = op[t].run /\ failed'[t] = failed[t]
  /\ op'[t].pc \in Called => \/ op[t].pc = "select" /\ op'[t].model \in op[t].run.left
                             \/ op[t].pc \in Called /\ op'[t].model = op[t].model

(* ... has failed, goes on to the next attempt ... *)
Rejected(t) ==
  /\ op[t].pc = "report" /\ op'[t] = [op[t] EXCEPT !.pc = "details"]
  /\ failed'[t] = failed[t] \cup {op[t].model}

Failed(t) ==
  /\ op[t].pc = "report" /\ NextAttempt(t, op[t].run.left \ {op[t].model})
  /\ failed'[t] = failed[t] \cup {op[t].model}

Detailed(t) ==
  op[t].pc = "details" /\ NextAttempt(t, LeftAfter(t)) /\ failed'[t] = failed[t]

(* ... is answered, or is over. *)
Answers(t) ==
  /\ op'[t].pc = "answer" /\ failed'[t] = failed[t]
  /\ \/ op[t].pc = "report" /\ op'[t].status \in {200, 422}
     \/ /\ op[t].pc = "select" /\ op'[t].status \in {404, 409, 500, 502}
        /\ op'[t].status \in {404, 500} => op[t].run.attempt = 0
        /\ op'[t].status = 409 => op[t].run.attempt = 0 \/ op'[t].hint > 0
        /\ op'[t].status = 502 => op[t].run.attempt # 0

Ends(t) == op'[t].pc \notin Trying \cup {"answer"}

RequestStep(t) ==
  \/ Begins(t) \/ Continues(t) \/ Rejected(t) \/ Failed(t) \/ Detailed(t)
  \/ Answers(t) \/ Ends(t)

FailedStep(t) ==
  failed' = [failed EXCEPT ![t] = failed'[t]] /\ failed'[t] \in SUBSET Model

(* All that is used below of a step of a client. *)
Moves(t) == OpStep(t) /\ FailedStep(t) /\ SlotStep(t) /\ RequestStep(t)

TimersOK ==
  /\ model_ms \in [Model -> Nat] /\ key_ms \in [Model -> Nat] /\ quota_ms \in [Model -> Nat]

(* The models of a request are models. *)
LEMMA RequestTyped == \A r \in Request : r.models \in SUBSET Model
BY CompleteAssumption

(* The steps of a handler that has no call yet. *)
SelectStep(t) ==
  \/ \E r \in Request : Arrive(t, r)
  \/ \E m \in Model : SelectFinds(t, m)
  \/ SelectExhausted(t) \/ Wake(t)
  \/ \E status \in {404, 500} : SelectFails(t, status)

(* Before a call, only a select that finds a model takes a slot. *)
LEMMA SelectMoves ==
  ASSUME TimersOK, op \in [Task -> Op], failed \in [Task -> SUBSET Model], NEW t \in Task,
         SelectStep(t)
  PROVE  Moves(t)
<1> USE DEF Trying, Holding, InAttempt, Called
<1>1. ASSUME NEW r \in Request, Arrive(t, r)
      PROVE  Moves(t)
  <2> DEFINE run == [req |-> r, attempt |-> 0, left |-> r.models]
  <2>1. run \in Runs /\ run.attempt = 0
    BY RequestTyped, CompleteAssumption DEF Runs
  <2>2. Become(t, Selecting(run, FALSE))
    BY <1>1 DEF Arrive
  <2>3. op[t].pc = "idle"
    BY <1>1 DEF Arrive, Idle
  <2> HIDE DEF run
  <2>5. OpStep(t) /\ op'[t].pc = "select" /\ op'[t].run = run
    BY <2>1, <2>2, SelectingType
  <2>6. failed' = [failed EXCEPT ![t] = {}] /\ UNCHANGED in_flight
    BY <1>1 DEF Arrive
  <2>7. SlotStep(t) /\ FailedStep(t) /\ Begins(t)
    BY <2>1, <2>3, <2>5, <2>6 DEF SlotStep, Keeps, FailedStep, Begins
  <2> QED
    BY <2>5, <2>7 DEF Moves, RequestStep
<1>2. ASSUME op[t].pc = "select"
      PROVE  op[t].run \in Runs /\ op[t].run.left \in SUBSET Model
  <2>1. op[t].run \in Runs
    BY <1>2, OpFields
  <2> QED
    BY <2>1 DEF Runs
<1>3. ASSUME NEW m \in Model, SelectFinds(t, m)
      PROVE  Moves(t)
  <2>1. op[t].pc = "select" /\ op[t].run \in Runs
    BY <1>2, <1>3 DEF SelectFinds
  <2>2. [pc |-> "selected", run |-> op[t].run, model |-> m] \in Op
    BY <2>1, RunForms
  <2>3. OpStep(t) /\ op'[t] = [pc |-> "selected", run |-> op[t].run, model |-> m]
    BY <1>3, <2>2, BecomeType DEF SelectFinds
  <2>4. op'[t].pc = "selected" /\ op'[t].run = op[t].run /\ op'[t].model = m
    BY <2>3
  <2>5. Takes(t, m) /\ FailedStep(t) /\ Continues(t)
    BY <1>3, <2>1, <2>4 DEF SelectFinds, Takes, Holds, FailedStep, Continues
  <2> QED
    BY <2>3, <2>5 DEF Moves, SlotStep, RequestStep
<1>4. ASSUME NEW status \in {404, 500}, SelectFails(t, status)
      PROVE  Moves(t)
  <2>1. op[t].pc = "select" /\ op[t].run.attempt \in Nat
    BY <1>2, <1>4, CompleteAssumption DEF SelectFails, Runs
  <2>2. PICK s \in {404, 500, 502} :
          /\ Answer(t, s, 0)
          /\ IF op[t].run.attempt > 0 THEN s = 502 ELSE s \in {404, 500}
    BY <1>4 DEF SelectFails
  <2>3. [pc |-> "answer", status |-> s, hint |-> 0] \in Op
    BY OtherForms
  <2>4. OpStep(t) /\ op'[t] = [pc |-> "answer", status |-> s, hint |-> 0]
    BY <2>2, <2>3, BecomeType DEF Answer
  <2>5. op'[t].pc = "answer" /\ op'[t].status = s
    BY <2>4
  <2>6. SlotStep(t) /\ FailedStep(t)
    BY <1>4, <2>1, <2>5 DEF SelectFails, SlotStep, Keeps, FailedStep
  <2>7. Answers(t)
    BY <1>4, <2>1, <2>2, <2>5 DEF SelectFails, Answers
  <2> QED
    BY <2>4, <2>6, <2>7 DEF Moves, RequestStep
<1>5. CASE SelectExhausted(t)
  <2>1. /\ op[t].pc = "select" /\ op[t].run \in Runs /\ op[t].run.attempt \in Nat
        /\ op[t].run.left \in SUBSET Model
    BY <1>2, <1>5, CompleteAssumption DEF SelectExhausted, Runs
  <2>2. PICK hint \in RetryHints(op[t].run.left) :
          \/ Become(t, [pc |-> "sleep", ms |-> hint, run |-> op[t].run])
          \/ AnswerExhausted(t, hint)
    BY <1>5 DEF SelectExhausted
  <2>3. hint \in Nat
    BY <2>1, HintType DEF TimersOK
  <2>4. UNCHANGED <<in_flight, failed>>
    BY <1>5 DEF SelectExhausted
  <2>5. CASE Become(t, [pc |-> "sleep", ms |-> hint, run |-> op[t].run])
    <3>1. [pc |-> "sleep", ms |-> hint, run |-> op[t].run] \in Op
      BY <2>1, <2>3, RunForms
    <3>2. OpStep(t) /\ op'[t] = [pc |-> "sleep", ms |-> hint, run |-> op[t].run]
      BY <2>5, <3>1, BecomeType
    <3>3. op'[t].pc = "sleep" /\ op'[t].run = op[t].run
      BY <3>2
    <3>4. SlotStep(t) /\ FailedStep(t) /\ Continues(t)
      BY <2>1, <2>4, <3>3 DEF SlotStep, Keeps, FailedStep, Continues
    <3> QED
      BY <3>2, <3>4 DEF Moves, RequestStep
  <2>6. CASE AnswerExhausted(t, hint)
    <3>1. PICK s \in {409, 502} :
            /\ Answer(t, s, hint)
            /\ IF hint > 0 \/ op[t].run.attempt = 0 THEN s = 409 ELSE s = 502
      BY <2>6 DEF AnswerExhausted
    <3>2. [pc |-> "answer", status |-> s, hint |-> hint] \in Op
      BY <2>3, OtherForms
    <3>3. OpStep(t) /\ op'[t] = [pc |-> "answer", status |-> s, hint |-> hint]
      BY <3>1, <3>2, BecomeType DEF Answer
    <3>4. op'[t].pc = "answer" /\ op'[t].status = s /\ op'[t].hint = hint
      BY <3>3
    <3>5. SlotStep(t) /\ FailedStep(t) /\ Answers(t)
      BY <2>1, <2>3, <2>4, <3>1, <3>4 DEF SlotStep, Keeps, FailedStep, Answers
    <3> QED
      BY <3>3, <3>5 DEF Moves, RequestStep
  <2> QED
    BY <2>2, <2>5, <2>6
<1>6. CASE Wake(t)
  <2>1. op[t].pc = "sleep" /\ op[t].run \in Runs
    BY <1>6, OpFields DEF Wake
  <2>2. Become(t, Selecting(op[t].run, TRUE))
    BY <1>6 DEF Wake
  <2>4. OpStep(t) /\ op'[t].pc = "select" /\ op'[t].run = op[t].run
    BY <2>1, <2>2, SelectingType
  <2>5. SlotStep(t) /\ FailedStep(t) /\ Continues(t)
    BY <1>6, <2>1, <2>4 DEF Wake, SlotStep, Keeps, FailedStep, Continues
  <2> QED
    BY <2>4, <2>5 DEF Moves, RequestStep
<1> QED
  BY <1>1, <1>3, <1>4, <1>5, <1>6 DEF SelectStep

(* The steps of a handler with a model, of its call and its reports. *)
CallStep(t) ==
  \/ Claim(t) \/ (\E o \in ProviderOutcome : ProviderAnswers(t, o))
  \/ ReportJob(t) \/ DetailsJob(t)

(* The outcomes a call may have; a rejection brings its details. *)
LEMMA OutcomeForms ==
  /\ ProviderOutcome \subseteq Outcome /\ Rejection \subseteq Outcome
  /\ \A kind \in {"no_url", "no_key", "bad_payload"} : [kind |-> kind] \in Outcome
  /\ \A outcome \in Outcome : outcome.kind = "rate_limit" => outcome \in Rejection
BY DEF Outcome, Rejection, ProviderOutcome

(* A call keeps the slot, its report gives it back, the details move none. *)
LEMMA CallMoves ==
  ASSUME op \in [Task -> Op], failed \in [Task -> SUBSET Model], NEW t \in Task, CallStep(t)
  PROVE  Moves(t)
<1> USE DEF Trying, Holding, InAttempt, Called
<1>0. /\ op[t].pc \in {"selected", "call", "report", "details"} =>
           /\ op[t].run \in Runs /\ op[t].model \in Model
           /\ op[t].run.left \in SUBSET Model
      /\ op[t].pc \in {"lost_report", "lost_details"} => op[t].model \in Model
      /\ op[t].pc \in {"report", "lost_report"} => op[t].outcome \in Outcome
      /\ op[t].pc \in {"details", "lost_details"} => op[t].outcome \in Rejection
  BY OpFields DEF WithModel, Runs
<1>1. ASSUME NEW outcome \in Outcome, Become(t, Reporting(op[t], outcome)),
             op[t].pc \in {"selected", "call"}, UNCHANGED <<in_flight, failed>>
      PROVE  Moves(t)
  <2>1. Reporting(op[t], outcome) \in Op
    BY <1>0, <1>1, RunForms DEF Reporting
  <2>2. OpStep(t) /\ op'[t] = Reporting(op[t], outcome)
    BY <1>1, <2>1, BecomeType
  <2>3. op'[t].pc = "report" /\ op'[t].run = op[t].run /\ op'[t].model = op[t].model
    BY <2>2 DEF Reporting
  <2>4. SlotStep(t) /\ FailedStep(t) /\ Continues(t)
    BY <1>1, <2>3 DEF SlotStep, Keeps, Holds, FailedStep, Continues
  <2> QED
    BY <2>2, <2>4 DEF Moves, RequestStep
<1>2. CASE Claim(t)
  <2>1. PICK setup \in Setup[op[t].model] :
          Become(t, IF setup = "ready" THEN [op[t] EXCEPT !.pc = "call"]
                    ELSE Reporting(op[t], [kind |-> setup]))
    BY <1>2 DEF Claim
  <2>2. op[t].pc = "selected" /\ UNCHANGED <<in_flight, failed>>
    BY <1>2 DEF Claim
  <2>3. CASE setup = "ready"
    <3>1. op[t] \in [pc : {"selected", "call"}, run : Runs, model : Model]
      BY <2>2 DEF Op, Idle
    <3> DEFINE o == [op[t] EXCEPT !.pc = "call"]
    <3>2. /\ o \in Op /\ o.pc = "call" /\ o.run = op[t].run /\ o.model = op[t].model
      BY <3>1 DEF Op
    <3>3. Become(t, o)
      BY <2>1, <2>3
    <3> HIDE DEF o
    <3>4. OpStep(t) /\ op'[t] = o
      BY <3>2, <3>3, BecomeType
    <3>5. SlotStep(t) /\ FailedStep(t) /\ Continues(t)
      BY <2>2, <3>2, <3>4 DEF SlotStep, Keeps, Holds, FailedStep, Continues
    <3> QED
      BY <3>4, <3>5 DEF Moves, RequestStep
  <2>4. CASE setup # "ready"
    <3>1. setup \in {"no_url", "no_key", "bad_payload"}
      BY <1>0, <2>2, <2>4, CompleteAssumption
    <3>2. [kind |-> setup] \in Outcome
      BY <3>1, OutcomeForms
    <3> QED
      BY <1>1, <2>1, <2>2, <2>4, <3>2
  <2> QED
    BY <2>3, <2>4
<1>3. ASSUME NEW o \in ProviderOutcome, ProviderAnswers(t, o)
      PROVE  Moves(t)
  BY <1>1, <1>3, OutcomeForms DEF ProviderAnswers
<1>4. CASE ReportJob(t)
  <2>1. /\ op[t].pc \in {"report", "lost_report"} /\ op[t].model \in Model
        /\ GiveBack(op[t].model)
    BY <1>0, <1>4 DEF ReportJob
  <2>2. CASE op[t].pc = "lost_report"
    <3>1. Become(t, Idle) /\ UNCHANGED failed
      BY <1>4, <2>2 DEF ReportJob
    <3>2. OpStep(t) /\ op'[t].pc = "idle"
      BY <3>1, OtherForms, BecomeType DEF Idle
    <3> QED
      BY <2>1, <3>1, <3>2 DEF Moves, SlotStep, Gives, FailedStep, RequestStep, Ends
  <2>3. CASE op[t].pc = "report" /\ op[t].outcome.kind \in {"success", "bad_payload"}
    <3>1. PICK s \in {200, 422} : Answer(t, s, 0) /\ UNCHANGED failed
      BY <1>4, <2>3 DEF ReportJob
    <3>2. [pc |-> "answer", status |-> s, hint |-> 0] \in Op
      BY OtherForms
    <3>3. OpStep(t) /\ op'[t] = [pc |-> "answer", status |-> s, hint |-> 0]
      BY <3>1, <3>2, BecomeType DEF Answer
    <3>4. op'[t].pc = "answer" /\ op'[t].status = s
      BY <3>3
    <3>5. SlotStep(t) /\ FailedStep(t) /\ Answers(t)
      BY <2>1, <2>3, <3>1, <3>4 DEF SlotStep, Gives, FailedStep, Answers
    <3> QED
      BY <3>3, <3>5 DEF Moves, RequestStep
  <2>4. CASE op[t].pc = "report" /\ op[t].outcome.kind = "rate_limit"
    <3>1. Become(t, [op[t] EXCEPT !.pc = "details"]) /\ Fails(t, op[t].model)
      BY <1>4, <2>4 DEF ReportJob
    <3>2. op[t] \in [pc : {"report"}, run : Runs, model : Model, outcome : Outcome]
      BY <2>4 DEF Op, Idle
    <3>3. op[t].outcome \in Rejection
      BY <1>0, <2>4, OutcomeForms
    <3> DEFINE o == [op[t] EXCEPT !.pc = "details"]
    <3>4. /\ o = [pc |-> "details", run |-> op[t].run, model |-> op[t].model,
                  outcome |-> op[t].outcome]
          /\ o.pc = "details"
      BY <3>2
    <3>5. o \in Op
      <4>1. [pc |-> "details", run |-> op[t].run, model |-> op[t].model,
             outcome |-> op[t].outcome] \in Op
        BY <1>0, <2>4, <3>3, RunForms
      <4> QED
        BY <3>4, <4>1
    <3>6. OpStep(t) /\ op'[t] = o
      BY <3>1, <3>5, BecomeType
    <3>7. FailedStep(t) /\ Rejected(t) /\ op'[t].pc = "details"
      BY <2>1, <2>4, <3>1, <3>4, <3>6 DEF Fails, FailedStep, Rejected
    <3>8. SlotStep(t)
      BY <2>1, <3>7 DEF SlotStep, Gives
    <3> QED
      BY <3>6, <3>7, <3>8 DEF Moves, RequestStep
  <2>5. CASE op[t].pc = "report"
             /\ op[t].outcome.kind \notin {"success", "bad_payload", "rate_limit"}
    <3>1. NextAttempt(t, op[t].run.left \ {op[t].model}) /\ Fails(t, op[t].model)
      BY <1>4, <2>5 DEF ReportJob
    <3>2. op[t].run \in Runs /\ op[t].run.left \ {op[t].model} \in SUBSET op[t].run.left
      BY <1>0, <2>5
    <3>3. OpStep(t) /\ op'[t].pc \in {"answer", "select"}
      BY <3>1, <3>2, NextAttemptCases
    <3>4. SlotStep(t) /\ FailedStep(t) /\ Failed(t)
      BY <2>1, <2>5, <3>1, <3>3 DEF SlotStep, Gives, Fails, FailedStep, Failed
    <3> QED
      BY <3>3, <3>4 DEF Moves, RequestStep
  <2> QED
    BY <2>1, <2>2, <2>3, <2>4, <2>5
<1>5. CASE DetailsJob(t)
  <2>1. op[t].pc \in {"details", "lost_details"} /\ UNCHANGED <<in_flight, failed>>
    BY <1>5 DEF DetailsJob
  <2>2. CASE op[t].pc = "lost_details"
    <3>1. Become(t, Idle)
      BY <1>5, <2>2 DEF DetailsJob
    <3>2. OpStep(t) /\ op'[t].pc = "idle"
      BY <3>1, OtherForms, BecomeType DEF Idle
    <3> QED
      BY <2>1, <3>2 DEF Moves, SlotStep, Keeps, FailedStep, RequestStep, Ends
  <2>3. CASE op[t].pc = "details"
    <3>1. NextAttempt(t, LeftAfter(t))
      BY <1>5, <2>3 DEF DetailsJob
    <3>2. op[t].run \in Runs /\ LeftAfter(t) \in SUBSET op[t].run.left
      BY <1>0, <2>3, LeftAfterCases
    <3>3. OpStep(t) /\ op'[t].pc \in {"answer", "select"}
      BY <3>1, <3>2, NextAttemptCases
    <3>4. SlotStep(t) /\ FailedStep(t) /\ Detailed(t)
      BY <2>1, <2>3, <3>1, <3>3 DEF SlotStep, Keeps, FailedStep, Detailed
    <3> QED
      BY <3>3, <3>4 DEF Moves, RequestStep
  <2> QED
    BY <2>1, <2>2, <2>3
<1> QED
  BY <1>2, <1>3, <1>4, <1>5 DEF CallStep

(* The steps of a client that goes away, and of what it leaves behind. *)
EndStep(t) == Done(t) \/ Disconnect(t) \/ LostSelect(t) \/ DropUnclaimed(t)

(* Whatever it interrupts, a disconnect leaves each slot to one owner. *)
LEMMA EndMoves ==
  ASSUME op \in [Task -> Op], failed \in [Task -> SUBSET Model], NEW t \in Task, EndStep(t)
  PROVE  Moves(t)
<1> USE DEF Trying, Holding
<1>0. /\ op[t].pc \in {"selected", "call", "report", "details", "unclaimed"} =>
           op[t].model \in Model
      /\ op[t].pc = "select" => op[t].run.left \in SUBSET Model
      /\ op[t].pc = "lost_select" => op[t].left \in SUBSET Model
      /\ op[t].pc = "report" => op[t].outcome \in Outcome
      /\ op[t].pc = "details" => op[t].outcome \in Rejection
  BY OpFields DEF WithModel, Runs
<1>1. Become(t, Idle) => OpStep(t) /\ op'[t].pc = "idle"
  BY OtherForms, BecomeType DEF Idle
<1>2. CASE Done(t)
  <2>1. OpStep(t) /\ op'[t].pc = "idle"
    BY <1>1, <1>2 DEF Done
  <2> QED
    BY <1>2, <2>1 DEF Done, Moves, SlotStep, Keeps, FailedStep, RequestStep, Ends
<1>3. CASE Disconnect(t)
  <2>1. FailedStep(t)
    BY <1>3 DEF Disconnect, FailedStep
  <2>2. CASE op[t].pc \in {"selected", "call"}
    <3>1. GiveBack(op[t].model) /\ Become(t, Idle)
      BY <1>3, <2>2 DEF Disconnect
    <3> QED
      BY <1>1, <2>1, <2>2, <3>1 DEF Moves, SlotStep, Gives, RequestStep, Ends
  <2>3. CASE op[t].pc = "sleep"
    <3>1. UNCHANGED in_flight /\ Become(t, Idle)
      BY <1>3, <2>3 DEF Disconnect
    <3> QED
      BY <1>1, <2>1, <2>3, <3>1 DEF Moves, SlotStep, Keeps, RequestStep, Ends
  <2>4. CASE op[t].pc = "select"
    <3>1. UNCHANGED in_flight /\ Become(t, [pc |-> "lost_select", left |-> op[t].run.left])
      BY <1>3, <2>4 DEF Disconnect
    <3>2. [pc |-> "lost_select", left |-> op[t].run.left] \in Op
      BY <1>0, <2>4, OtherForms
    <3>3. OpStep(t) /\ op'[t].pc = "lost_select"
      BY <3>1, <3>2, BecomeType
    <3> QED
      BY <2>1, <2>4, <3>1, <3>3 DEF Moves, SlotStep, Keeps, RequestStep, Ends
  <2>5. CASE op[t].pc \in {"report", "details"}
    <3>1. PICK pc \in {"lost_report", "lost_details"} :
            /\ pc = IF op[t].pc = "report" THEN "lost_report" ELSE "lost_details"
            /\ UNCHANGED in_flight
            /\ Become(t, [pc |-> pc, model |-> op[t].model, outcome |-> op[t].outcome])
      BY <1>3, <2>5 DEF Disconnect
    <3>2. [pc |-> pc, model |-> op[t].model, outcome |-> op[t].outcome] \in Op
      <4>1. CASE op[t].pc = "report"
        <5>1. op[t].model \in Model /\ op[t].outcome \in Outcome
          BY <1>0, <4>1
        <5>2. [pc |-> "lost_report", model |-> op[t].model, outcome |-> op[t].outcome] \in Op
          BY <5>1, LostForms
        <5> QED
          BY <3>1, <4>1, <5>2
      <4>2. CASE op[t].pc = "details"
        <5>1. op[t].model \in Model /\ op[t].outcome \in Rejection
          BY <1>0, <4>2
        <5>2. [pc |-> "lost_details", model |-> op[t].model, outcome |-> op[t].outcome] \in Op
          BY <5>1, LostForms
        <5> QED
          BY <3>1, <4>2, <5>2
      <4> QED
        BY <2>5, <4>1, <4>2
    <3>3. OpStep(t) /\ op'[t] = [pc |-> pc, model |-> op[t].model, outcome |-> op[t].outcome]
      BY <3>1, <3>2, BecomeType
    <3>4. op'[t].pc = pc /\ op'[t].model = op[t].model
      BY <3>3
    <3>5. Keeps(t) /\ Ends(t)
      BY <2>5, <3>1, <3>4 DEF Keeps, Holds, Ends
    <3> QED
      BY <2>1, <3>3, <3>5 DEF Moves, SlotStep, RequestStep
  <2>6. op[t].pc \in {"selected", "call", "sleep", "select", "report", "details"}
    BY <1>3 DEF Disconnect
  <2> QED
    BY <2>2, <2>3, <2>4, <2>5, <2>6
<1>4. CASE LostSelect(t)
  <2>1. op[t].pc = "lost_select" /\ FailedStep(t)
    BY <1>4 DEF LostSelect, FailedStep
  <2>2. ASSUME NEW m \in op[t].left,
               Available(m), Take(m), Become(t, [pc |-> "unclaimed", model |-> m])
        PROVE  Moves(t)
    <3>1. m \in Model
      BY <1>0, <2>1
    <3>2. [pc |-> "unclaimed", model |-> m] \in Op
      BY <3>1, OtherForms
    <3>3. OpStep(t) /\ op'[t] = [pc |-> "unclaimed", model |-> m]
      BY <2>2, <3>2, BecomeType
    <3>4. op'[t].pc = "unclaimed" /\ op'[t].model = m
      BY <3>3
    <3>5. Takes(t, m) /\ Ends(t)
      BY <2>1, <2>2, <3>4 DEF Takes, Holds, Ends
    <3> QED
      BY <2>1, <3>1, <3>3, <3>5 DEF Moves, SlotStep, RequestStep
  <2>3. CASE Become(t, Idle) /\ UNCHANGED in_flight
    BY <1>1, <2>1, <2>3 DEF Moves, SlotStep, Keeps, RequestStep, Ends
  <2> QED
    BY <1>4, <2>2, <2>3 DEF LostSelect
<1>5. CASE DropUnclaimed(t)
  <2>1. OpStep(t) /\ op'[t].pc = "idle"
    BY <1>1, <1>5 DEF DropUnclaimed
  <2> QED
    BY <1>5, <2>1 DEF DropUnclaimed, Moves, SlotStep, Gives, FailedStep, RequestStep, Ends
<1> QED
  BY <1>2, <1>3, <1>4, <1>5 DEF EndStep

(* Every step of a client is of one of these kinds. *)
LEMMA TaskMoves ==
  ASSUME TimersOK, op \in [Task -> Op], failed \in [Task -> SUBSET Model], NEW t \in Task,
         TaskStep(t)
  PROVE  Moves(t)
<1>1. SelectStep(t) \/ CallStep(t) \/ EndStep(t)
  BY DEF TaskStep, Progress, SelectStep, CallStep, EndStep
<1> QED
  BY <1>1, SelectMoves, CallMoves, EndMoves
-----------------------------------------------------------------------------
(* The timers and what is stated of them.  A key's block lasts at least as   *)
(* long as its last Retry-After: only other quota failures write either.     *)
Stated == \A m \in Keyed : stated_ms[m] <= quota_ms[m]

ClocksOK == TimersOK /\ stated_ms \in [Keyed -> Nat] /\ Stated

(* Counting down keeps the order of two timers. *)
LEMMA DownType == \A n \in Nat : /\ Down(n) \in Nat
                                 /\ \A k \in Nat : k <= n => Down(k) <= Down(n)
BY DEF Down

(* No step lets a key's block end before the last Retry-After stated for it. *)
LEMMA ClocksKept ==
  ASSUME ClocksOK, op \in [Task -> Op], Tick \/ \E t \in Task : TaskStep(t)
  PROVE  ClocksOK'
<1> USE DEF ClocksOK, TimersOK, Stated
<1>0. Keyed \subseteq Model /\ RetryMs \subseteq Nat /\ Cooldown \in Nat
  BY CompleteAssumption
<1>1. CASE Tick
  <2>1. TimersOK' /\ stated_ms' \in [Keyed -> Nat]
    BY <1>0, <1>1, DownType DEF Tick
  <2>2. \A m \in Keyed : stated_ms'[m] <= quota_ms'[m]
    BY <1>0, <1>1, DownType DEF Tick
  <2> QED
    BY <2>1, <2>2
<1>2. ASSUME NEW t \in Task, ReportJob(t)
      PROVE  ClocksOK'
  <2>1. op[t].model \in Model /\ Mark(op[t].model, op[t].outcome.kind) /\ UNCHANGED stated_ms
    BY <1>2, OpFields DEF ReportJob, WithModel
  <2>2. TimersOK' /\ UNCHANGED quota_ms
    BY <1>0, <2>1 DEF Mark, Set
  <2> QED
    BY <2>1, <2>2
<1>3. ASSUME NEW t \in Task, DetailsJob(t)
      PROVE  ClocksOK'
  <2> DEFINE m == op[t].model
             retry == op[t].outcome.retry
             brand == op[t].outcome.brand_quota
             ms == IF retry > 0 THEN retry ELSE Cooldown
  <2>1. m \in Model /\ op[t].outcome \in Rejection
    BY <1>3, OpFields DEF DetailsJob, WithModel
  <2>2. retry \in Nat /\ ms \in Nat /\ retry <= ms
    <3>1. retry \in RetryMs
      BY <2>1 DEF Rejection
    <3>2. retry \in Nat
      BY <1>0, <3>1
    <3> HIDE DEF retry
    <3> QED
      BY <1>0, <3>2
  <2>3. /\ key_ms' \in {key_ms, Set(key_ms, m, ms)}
        /\ quota_ms' \in {quota_ms, Set(quota_ms, m, ms)}
        /\ model_ms' \in {model_ms, Set(model_ms, m, ms)}
        /\ stated_ms' \in {stated_ms, Set(stated_ms, m, retry)}
    BY <1>3 DEF DetailsJob
  <2>4. m \in Keyed => \/ UNCHANGED <<stated_ms, quota_ms>>
                       \/ /\ stated_ms' = Set(stated_ms, m, retry)
                          /\ quota_ms' = Set(quota_ms, m, ms)
    BY <1>3 DEF DetailsJob, QuotaBlock
  <2>5. m \notin Keyed => UNCHANGED stated_ms
    BY <1>3 DEF DetailsJob
  <2> HIDE DEF m, retry, ms, brand
  <2>6. TimersOK' /\ stated_ms' \in [Keyed -> Nat]
    BY <2>1, <2>2, <2>3 DEF Set
  <2>7. \A k \in Keyed : stated_ms'[k] <= quota_ms'[k]
    BY <1>0, <2>1, <2>2, <2>3, <2>4, <2>5 DEF Set
  <2> QED
    BY <2>6, <2>7
<1>4. ASSUME NEW t \in Task, TaskStep(t), ~ReportJob(t), ~DetailsJob(t)
      PROVE  UNCHANGED <<blocks, stated_ms>>
  <2>1. CASE Disconnect(t) \/ Done(t) \/ LostSelect(t) \/ DropUnclaimed(t)
    BY <2>1 DEF Disconnect, Done, LostSelect, DropUnclaimed
  <2>2. CASE \/ SelectExhausted(t) \/ Wake(t) \/ Claim(t)
             \/ \E m \in Model : SelectFinds(t, m)
             \/ \E o \in ProviderOutcome : ProviderAnswers(t, o)
    <3>1. CASE SelectExhausted(t) \/ Wake(t) \/ Claim(t)
      BY <3>1 DEF SelectExhausted, Wake, Claim
    <3>2. CASE \/ \E m \in Model : SelectFinds(t, m)
               \/ \E o \in ProviderOutcome : ProviderAnswers(t, o)
      BY <3>2 DEF SelectFinds, ProviderAnswers
    <3> QED
      BY <2>2, <3>1, <3>2
  <2>3. CASE \/ \E r \in Request : Arrive(t, r)
             \/ \E status \in {404, 500} : SelectFails(t, status)
    BY <2>3 DEF Arrive, SelectFails
  <2>4. CASE Progress(t)
    <3>1. \/ Done(t) \/ LostSelect(t) \/ DropUnclaimed(t)
          \/ SelectExhausted(t) \/ Wake(t) \/ Claim(t)
          \/ \E m \in Model : SelectFinds(t, m)
          \/ \E o \in ProviderOutcome : ProviderAnswers(t, o)
      BY <1>4, <2>4 DEF Progress
    <3> QED
      BY <2>1, <2>2, <3>1
  <2> QED
    BY <1>4, <2>1, <2>3, <2>4 DEF TaskStep
<1> QED
  BY <1>1, <1>2, <1>3, <1>4 DEF blocks
-----------------------------------------------------------------------------
(* The clients on whose account a model's slots are taken. *)
HoldersOf(m) == {t \in Task : Holds(op[t], m)}

(* A model has finitely many holders. *)
LEMMA HoldersFinite == \A m : IsFiniteSet(HoldersOf(m)) /\ Cardinality(HoldersOf(m)) \in Nat
<1>1. \A m : HoldersOf(m) \subseteq Task
  BY DEF HoldersOf
<1> QED
  BY <1>1, FS_Subset, FS_CardinalityType, CompleteAssumption

(* How a step of a client moves the holders of a model. *)
LEMMA HoldersMove ==
  ASSUME op \in [Task -> Op], NEW t \in Task, OpStep(t), NEW m \in Model
  PROVE  /\ \A n : Takes(t, n) => /\ t \notin HoldersOf(m)
                                  /\ HoldersOf(m)' = IF m = n THEN HoldersOf(m) \cup {t}
                                                     ELSE HoldersOf(m)
         /\ Gives(t) => /\ m = op[t].model <=> t \in HoldersOf(m)
                        /\ HoldersOf(m)' = HoldersOf(m) \ {t}
         /\ Keeps(t) => HoldersOf(m)' = HoldersOf(m)
BY DEF OpStep, HoldersOf, Holds, Takes, Gives, Keeps

Counted == \A m \in Model : in_flight[m] = Cardinality(HoldersOf(m))

(* A step of a client keeps the counters those of the clients with a slot: *)
(* what is given back was taken, so no counter falls below zero.           *)
LEMMA CountedKept ==
  ASSUME op \in [Task -> Op], in_flight \in [Model -> Nat], Counted,
         NEW t \in Task, OpStep(t), SlotStep(t)
  PROVE  in_flight' \in [Model -> Nat] /\ Counted'
<1>1. ASSUME NEW n \in Model, Takes(t, n)
      PROVE  in_flight' \in [Model -> Nat] /\ Counted'
  <2>1. in_flight' \in [Model -> Nat]
    BY <1>1 DEF Takes, Take
  <2>2. ASSUME NEW m \in Model
        PROVE  in_flight'[m] = Cardinality(HoldersOf(m)')
    <3>1. /\ t \notin HoldersOf(m)
          /\ HoldersOf(m)' = IF m = n THEN HoldersOf(m) \cup {t} ELSE HoldersOf(m)
      BY <1>1, HoldersMove
    <3>2. Cardinality(HoldersOf(m) \cup {t}) = Cardinality(HoldersOf(m)) + 1
      BY <3>1, HoldersFinite, FS_AddElement
    <3> QED
      BY <1>1, <3>1, <3>2 DEF Takes, Take, Counted
  <2> QED
    BY <2>1, <2>2 DEF Counted
<1>2. CASE Gives(t)
  <2> DEFINE n == op[t].model
  <2>1. n \in Model
    BY <1>2, OpFields DEF Gives, Holding, WithModel
  <2>2. ASSUME NEW m \in Model
        PROVE  in_flight'[m] \in Nat /\ in_flight'[m] = Cardinality(HoldersOf(m)')
    <3>1. /\ m = n <=> t \in HoldersOf(m)
          /\ HoldersOf(m)' = HoldersOf(m) \ {t}
      BY <1>2, HoldersMove
    <3>2. IsFiniteSet(HoldersOf(m) \ {t}) /\ Cardinality(HoldersOf(m) \ {t}) \in Nat
      BY HoldersFinite, FS_RemoveElement, FS_CardinalityType
    <3>3. CASE m = n
      <4>1. t \in HoldersOf(m) /\ IsFiniteSet(HoldersOf(m))
        BY <3>1, <3>3, HoldersFinite
      <4>2. Cardinality(HoldersOf(m) \ {t}) = Cardinality(HoldersOf(m)) - 1
        BY <4>1, FS_RemoveElement
      <4> QED
        BY <1>2, <2>1, <3>1, <3>2, <3>3, <4>2 DEF Gives, GiveBack, Counted
    <3>4. CASE m # n
      <4>1. HoldersOf(m)' = HoldersOf(m)
        BY <3>1, <3>4
      <4> QED
        BY <1>2, <3>4, <4>1 DEF Gives, GiveBack, Counted
    <3> QED
      BY <3>3, <3>4
  <2>3. in_flight' = [m \in Model |-> in_flight'[m]]
    BY <1>2 DEF Gives, GiveBack
  <2> QED
    BY <2>2, <2>3 DEF Counted
<1>3. CASE Keeps(t)
  BY <1>3, HoldersMove DEF Keeps, Counted
<1> QED
  BY <1>1, <1>2, <1>3 DEF SlotStep

(* Time moves no client and takes no slot: it counts a sleep down. *)
LEMMA TickMoves ==
  ASSUME op \in [Task -> Op], Tick
  PROVE  /\ op' \in [Task -> Op]
         /\ \A t \in Task :
              \/ op'[t] = op[t]
              \/ /\ op[t].pc = "sleep" /\ op'[t].pc = "sleep"
                 /\ op'[t].run = op[t].run
<1>1. op' = [t \in Task |-> IF op[t].pc = "sleep" THEN [op[t] EXCEPT !.ms = Down(@)] ELSE op[t]]
  BY DEF Tick
<1>2. ASSUME NEW t \in Task, op[t].pc = "sleep"
      PROVE  op'[t] \in Op /\ op'[t].pc = "sleep" /\ op'[t].run = op[t].run
  <2>1. op[t] \in [pc : {"sleep"}, run : Runs, ms : Nat]
    BY <1>2 DEF Op, Idle
  <2> DEFINE o == [op[t] EXCEPT !.ms = Down(op[t].ms)]
  <2>2. o \in [pc : {"sleep"}, run : Runs, ms : Nat] /\ o.run = op[t].run
    BY <2>1, DownType
  <2>3. op'[t] = o
    BY <1>1, <1>2
  <2> HIDE DEF o
  <2> QED
    BY <2>2, <2>3 DEF Op
<1>3. \A t \in Task : op[t].pc # "sleep" => op'[t] = op[t] /\ op'[t] \in Op
  BY <1>1
<1> QED
  BY <1>1, <1>2, <1>3

(* The types hold and the counters are those of the clients with a slot. *)
Inv == TypeOK /\ Counted /\ Stated

(* Inv, in the parts the steps are proved from. *)
LEMMA InvParts ==
  Inv <=> /\ op \in [Task -> Op]
          /\ failed \in [Task -> SUBSET Model]
          /\ in_flight \in [Model -> Nat]
          /\ Counted
          /\ ClocksOK
BY DEF Inv, TypeOK, ClocksOK, TimersOK

(* At the start nothing is taken and nothing is stated. *)
LEMMA InvInit == Init => Inv
<1> SUFFICES ASSUME Init PROVE Inv
  OBVIOUS
<1>1. op \in [Task -> Op]
  BY OtherForms DEF Init
<1>2. \A m : HoldersOf(m) = {}
  BY DEF Init, HoldersOf, Holds, Holding, Idle
<1>3. Counted
  BY <1>2, FS_EmptySet DEF Init, Counted
<1>4. Stated
  BY CompleteAssumption DEF Init, Stated
<1> QED
  BY <1>1, <1>3, <1>4 DEF Inv, TypeOK, Init

(* Every step is a client's, or moves no client but in its sleep. *)
StillStep ==
  /\ op' \in [Task -> Op] /\ UNCHANGED <<in_flight, failed>>
  /\ \A t \in Task : \/ op'[t] = op[t]
                     \/ /\ op[t].pc = "sleep" /\ op'[t].pc = "sleep"
                        /\ op'[t].run = op[t].run

(* Each step of the system is one of a client or still. *)
LEMMA StepCases ==
  ASSUME Inv, [Next]_vars
  PROVE  (\E t \in Task : TaskStep(t) /\ Moves(t)) \/ StillStep
<1>0. op \in [Task -> Op] /\ failed \in [Task -> SUBSET Model] /\ TimersOK
  BY InvParts DEF ClocksOK
<1>1. CASE Tick
  BY <1>0, <1>1, TickMoves DEF StillStep, Tick
<1>2. ASSUME NEW t \in Task, TaskStep(t)
      PROVE  Moves(t)
  BY <1>0, <1>2, TaskMoves
<1>3. CASE UNCHANGED vars
  BY <1>0, <1>3 DEF vars, StillStep
<1> QED
  BY <1>1, <1>2, <1>3 DEF Next, TaskStep

(* Every step keeps Inv. *)
LEMMA InvNext == Inv /\ [Next]_vars => Inv'
<1> SUFFICES ASSUME Inv, [Next]_vars PROVE Inv'
  OBVIOUS
<1>0. /\ op \in [Task -> Op] /\ failed \in [Task -> SUBSET Model]
      /\ in_flight \in [Model -> Nat] /\ Counted /\ ClocksOK
  BY InvParts
<1>1. ClocksOK'
  <2>1. CASE Next
    BY <1>0, <2>1, ClocksKept DEF Next, TaskStep
  <2>2. CASE UNCHANGED vars
    BY <1>0, <2>2 DEF vars, blocks, ClocksOK, TimersOK, Stated
  <2> QED
    BY <2>1, <2>2
<1>2. ASSUME NEW t \in Task, Moves(t)
      PROVE  /\ op' \in [Task -> Op] /\ failed' \in [Task -> SUBSET Model]
             /\ in_flight' \in [Model -> Nat] /\ Counted'
  <2>1. op' \in [Task -> Op] /\ failed' \in [Task -> SUBSET Model]
    BY <1>0, <1>2 DEF Moves, OpStep, FailedStep
  <2> QED
    BY <1>0, <1>2, <2>1, CountedKept DEF Moves
<1>3. CASE StillStep
  <2>1. \A m : HoldersOf(m)' = HoldersOf(m)
    BY <1>3 DEF StillStep, HoldersOf, Holds, Holding
  <2> QED
    BY <1>0, <1>1, <1>3, <2>1 DEF StillStep, Inv, TypeOK, ClocksOK, TimersOK, Counted
<1>4. ASSUME NEW t \in Task, Moves(t)
      PROVE  Inv'
  BY <1>1, <1>2, <1>4 DEF Inv, TypeOK, ClocksOK, TimersOK
<1> QED
  BY <1>3, <1>4, StepCases

(* Every variable keeps its type, the timers are natural numbers. *)
THEOREM TypeCorrect == Spec => []TypeOK
<1>1. Inv => TypeOK
  BY DEF Inv
<1> QED
  BY <1>1, InvInit, InvNext, PTL DEF Spec

(* However clients come and go, select and report jobs run on without them:  *)
(* each slot taken is that of one call, report or unclaimed select.          *)
THEOREM SlotsAreAccounted == Spec => []SlotsAccounted
<1>1. Inv => SlotsAccounted
  BY DEF Inv, Counted, HoldersOf, Holds, Holding, SlotsAccounted
<1> QED
  BY <1>1, InvInit, InvNext, PTL DEF Spec

(* SlotPool counts sets as FiniteSets does. *)
LEMMA SlotsCardinality == ASSUME NEW S PROVE Slots!Cardinality(S) = Cardinality(S)
BY DEF Slots!Cardinality, Cardinality

(* What the pool sees of a state: who holds each model's slots. *)
Held == [b \in Model \X {"key"} |-> HoldersOf(b[1])]

(* The steps of the pool, in the words of this module. *)
LEMMA SlotsHeld ==
  /\ Slots!Bucket = Model \X {"key"}
  /\ \A t, b : Slots!Acquire(t, b) <=>
       /\ \A d \in Slots!Bucket : t \notin Held[d]
       /\ Slots!Allows(Cap[b[1]], Cardinality(Held[b]) + 1)
       /\ Held' = [Held EXCEPT ![b] = @ \cup {t}]
  /\ \A t, b : Slots!Return(t, b) <=>
       t \in Held[b] /\ Held' = [Held EXCEPT ![b] = @ \ {t}]
<1> USE DEF Held, HoldersOf, Holds, Holding
<1>1. Slots!Bucket = Model \X {"key"}
  BY DEF Slots!Bucket
<1>2. \A t, b : Slots!Acquire(t, b) <=>
        /\ \A d \in Slots!Bucket : t \notin Held[d]
        /\ Slots!Allows(Cap[b[1]], Cardinality(Held[b]) + 1)
        /\ Held' = [Held EXCEPT ![b] = @ \cup {t}]
  BY SlotsCardinality DEF Slots!Acquire
<1>3. \A t, b : Slots!Return(t, b) <=>
        t \in Held[b] /\ Held' = [Held EXCEPT ![b] = @ \ {t}]
  BY DEF Slots!Return
<1> QED
  BY <1>1, <1>2, <1>3

(* A select that finds a model acquires: its client had no slot, and the     *)
(* model, not being full, one to give.                                       *)
LEMMA TakesAcquires ==
  ASSUME Inv, NEW t \in Task, OpStep(t), NEW n \in Model, Takes(t, n)
  PROVE  Slots!Next
<1> DEFINE b == <<n, "key">>
<1>1. b \in Model \X {"key"} /\ b[1] = n
  OBVIOUS
<1>2. \A m : t \notin HoldersOf(m)
  BY DEF Takes, HoldersOf, Holds
<1>3. Slots!Allows(Cap[n], Cardinality(HoldersOf(n)) + 1)
  <2>1. in_flight[n] = Cardinality(HoldersOf(n)) /\ in_flight[n] \in Nat
    BY InvParts DEF Counted
  <2>2. Cap[n] = NoLimit \/ (Cap[n] \in Nat /\ ~(in_flight[n] >= Cap[n]))
    BY CompleteAssumption DEF Takes, Available, Full
  <2> QED
    BY <2>1, <2>2 DEF Slots!Allows
<1>4. \A m \in Model : HoldersOf(m)' = IF m = n THEN HoldersOf(m) \cup {t} ELSE HoldersOf(m)
  BY InvParts, HoldersMove
<1>5. Held' = [Held EXCEPT ![b] = @ \cup {t}]
  <2>1. \A d \in Model \X {"key"} : d[1] \in Model /\ (d[1] = n <=> d = b)
    OBVIOUS
  <2> HIDE DEF b
  <2> QED
    BY <1>1, <1>4, <2>1 DEF Held
<1>6. Slots!Acquire(t, b)
  <2>1. \A d \in Model \X {"key"} : t \notin Held[d]
    BY <1>2 DEF Held
  <2>2. Held[b] = HoldersOf(n)
    BY <1>1 DEF Held
  <2> HIDE DEF b
  <2> QED
    BY <1>1, <1>3, <1>5, <2>1, <2>2, SlotsHeld
<1> QED
  BY <1>1, <1>6, SlotsHeld DEF Slots!Next

(* The end of a report, a lost client or a dropped result returns. *)
LEMMA GivesReturns ==
  ASSUME Inv, NEW t \in Task, OpStep(t), Gives(t), NEW n \in Model, n = op[t].model
  PROVE  Slots!Next
<1> DEFINE b == <<n, "key">>
<1>1. b \in Model \X {"key"} /\ b[1] = n
  OBVIOUS
<1>2. \A m \in Model : /\ m = n <=> t \in HoldersOf(m)
                       /\ HoldersOf(m)' = HoldersOf(m) \ {t}
  BY InvParts, HoldersMove
<1>3. Held' = [Held EXCEPT ![b] = @ \ {t}]
  <2>1. \A d \in Model \X {"key"} : d[1] \in Model /\ (d[1] = n <=> d = b)
    OBVIOUS
  <2>2. \A m \in Model : m # n => HoldersOf(m)' = HoldersOf(m)
    BY <1>2
  <2> HIDE DEF b
  <2> QED
    BY <1>1, <1>2, <2>1, <2>2 DEF Held
<1> HIDE DEF b
<1>4. t \in Held[b]
  BY <1>1, <1>2 DEF Held
<1>5. Slots!Return(t, b)
  BY <1>3, <1>4, SlotsHeld
<1> QED
  BY <1>1, <1>5, SlotsHeld DEF Slots!Next

(* Every step is a step of the pool or invisible to it. *)
LEMMA SlotsNext == Inv /\ [Next]_vars => [Slots!Next]_(Slots!vars)
<1> SUFFICES ASSUME Inv, [Next]_vars
             PROVE  Slots!Next \/ UNCHANGED Slots!vars
  OBVIOUS
<1>1. (\A m \in Model : HoldersOf(m)' = HoldersOf(m)) => UNCHANGED Slots!vars
  BY DEF Slots!vars, HoldersOf, Holds, Holding
<1>2. CASE StillStep
  <2>1. \A m : HoldersOf(m)' = HoldersOf(m)
    BY <1>2 DEF StillStep, HoldersOf, Holds, Holding
  <2> QED
    BY <1>1, <2>1
<1>3. ASSUME NEW t \in Task, Moves(t)
      PROVE  Slots!Next \/ UNCHANGED Slots!vars
  <2>1. OpStep(t) /\ SlotStep(t)
    BY <1>3 DEF Moves
  <2>2. Keeps(t) => \A m \in Model : HoldersOf(m)' = HoldersOf(m)
    BY <2>1, InvParts, HoldersMove
  <2>3. Gives(t) => op[t].model \in Model
    BY InvParts, OpFields DEF Gives, Holding, WithModel
  <2> QED
    BY <1>1, <2>1, <2>2, <2>3, TakesAcquires, GivesReturns DEF SlotStep
<1> QED
  BY <1>2, <1>3, StepCases

(* The pool starts empty. *)
LEMMA SlotsInit == Init => Slots!Init
<1> SUFFICES ASSUME Init PROVE Slots!Init
  OBVIOUS
<1>1. \A m : HoldersOf(m) = {}
  BY DEF Init, HoldersOf, Holds, Holding, Idle
<1>2. Cap \in [Model -> {Cap[m] : m \in Model}]
  BY CompleteAssumption
<1> QED
  BY <1>1, <1>2 DEF Slots!Init, Slots!Bucket, HoldersOf, Holds, Holding

(* Handlers that are dropped at any await, and the jobs that outlive them,   *)
(* use the slots as SlotPool says: a client takes one where it had none,     *)
(* below the model's cap, and returns it once.                               *)
THEOREM ImplementsSlots == Spec => SlotsSpec
BY SlotsInit, SlotsNext, InvInit, InvNext, PTL DEF Spec, SlotsSpec, Slots!Spec
-----------------------------------------------------------------------------
(* What the state o of a client tells of the models f that have failed it:   *)
(* whether an attempt was made, in the handler and in the answer.            *)
Truthful(o, f) ==
  CASE o.status = 502 -> f # {}
    [] o.status = 409 -> f = {} \/ o.hint > 0
    [] o.status \in {404, 500} -> f = {}
    [] OTHER -> TRUE

Told(o, f) ==
  /\ o.pc \in InAttempt => (o.run.attempt = 0 <=> f = {})
  /\ o.pc = "details" => f # {}
  /\ o.pc = "answer" => Truthful(o, f)

(* That what is left to try has not failed, but for a pinned request that    *)
(* waits: it alone may try its model again.                                  *)
Apart(o, f) ==
  ~(o.run.req.pin /\ o.run.req.pin_wait) =>
    /\ o.pc \in InAttempt => o.run.left \cap f = {}
    /\ o.pc \in Called => o.model \in o.run.left
    /\ o.pc = "details" => (o.run.left \ {o.model}) \cap f = {}

(* That each attempt made is that of a model of its own: a report that       *)
(* needs details has counted its model before its attempt.                   *)
Counts(o, f) ==
  ~o.run.req.pin =>
    /\ o.pc \in InAttempt => IsFiniteSet(f) /\ Cardinality(f) = o.run.attempt
    /\ o.pc = "details" => IsFiniteSet(f) /\ Cardinality(f) = o.run.attempt + 1

RequestOK(o, f) ==
  Told(o, f) /\ (o.pc \in Trying => Apart(o, f) /\ Counts(o, f))

RequestInv == \A t \in Task : RequestOK(op[t], failed[t])

(* A failure counts its model and the next attempt starts without it, or the *)
(* answer tells of it.                                                       *)
LEMMA NextAttemptKeeps ==
  ASSUME op \in [Task -> Op], NEW t \in Task, op[t].run \in Runs,
         NEW left \in SUBSET op[t].run.left, NextAttempt(t, left),
         failed'[t] # {},
         ~(op[t].run.req.pin /\ op[t].run.req.pin_wait) => left \cap failed'[t] = {},
         ~op[t].run.req.pin => /\ IsFiniteSet(failed'[t])
                               /\ Cardinality(failed'[t]) = op[t].run.attempt + 1
  PROVE  RequestOK(op'[t], failed'[t])
<1> USE DEF InAttempt, Called, Trying
<1>0. op[t].run.attempt \in Nat
  BY CompleteAssumption DEF Runs
<1>1. CASE op'[t] = [pc |-> "answer", status |-> 502, hint |-> 0]
  <2>1. op'[t].pc = "answer" /\ op'[t].status = 502
    BY <1>1
  <2> QED
    BY <2>1 DEF RequestOK, Told, Truthful
<1>2. CASE /\ op'[t].pc = "select" /\ op'[t].run.req = op[t].run.req
           /\ op'[t].run.attempt = op[t].run.attempt + 1 /\ op'[t].run.left = left
  <2>1. Told(op'[t], failed'[t])
    BY <1>0, <1>2 DEF Told
  <2>2. Apart(op'[t], failed'[t]) /\ Counts(op'[t], failed'[t])
    BY <1>2 DEF Apart, Counts
  <2> QED
    BY <2>1, <2>2 DEF RequestOK
<1> QED
  BY <1>1, <1>2, NextAttemptCases

(* A failure adds a model that had not failed: the count goes up by one. *)
LEMMA FailureCounts ==
  ASSUME NEW o, NEW f, RequestOK(o, f), o.pc = "report", ~o.run.req.pin
  PROVE  /\ IsFiniteSet(f \cup {o.model})
         /\ Cardinality(f \cup {o.model}) = o.run.attempt + 1
<1> USE DEF InAttempt, Called, Trying
<1>1. o.model \notin f
  BY DEF RequestOK, Apart
<1>2. IsFiniteSet(f) /\ Cardinality(f) = o.run.attempt
  BY DEF RequestOK, Counts
<1>3. /\ IsFiniteSet(f \cup {o.model})
      /\ Cardinality(f \cup {o.model}) = Cardinality(f) + 1
  BY <1>1, <1>2, FS_AddElement
<1> QED
  BY <1>2, <1>3

(* Every step of a client keeps what its state tells. *)
LEMMA RequestKept ==
  ASSUME op \in [Task -> Op], failed \in [Task -> SUBSET Model], NEW t \in Task,
         Moves(t), RequestOK(op[t], failed[t])
  PROVE  RequestOK(op'[t], failed'[t])
<1> USE DEF InAttempt, Called, Trying
<1>0. /\ op[t].pc \in Trying => op[t].run \in Runs
      /\ op[t].run \in Runs => op[t].run.attempt \in Nat /\ op[t].run.left \in SUBSET Model
  BY OpFields, CompleteAssumption DEF Runs
<1>1. CASE Begins(t)
  <2>1. IsFiniteSet(failed'[t]) /\ Cardinality(failed'[t]) = 0
    BY <1>1, FS_EmptySet DEF Begins
  <2> QED
    BY <1>1, <2>1 DEF Begins, RequestOK, Told, Apart, Counts
<1>2. CASE Continues(t)
  <2>1. Told(op'[t], failed'[t])
    BY <1>2 DEF Continues, RequestOK, Told
  <2>2. Apart(op'[t], failed'[t])
    BY <1>2 DEF Continues, RequestOK, Apart
  <2>3. Counts(op'[t], failed'[t])
    BY <1>2 DEF Continues, RequestOK, Counts
  <2> QED
    BY <2>1, <2>2, <2>3 DEF RequestOK
<1>4. CASE Rejected(t)
  <2>1. op[t] \in [pc : {"report"}, run : Runs, model : Model, outcome : Outcome]
    BY <1>4 DEF Rejected, Op, Idle
  <2>2. op'[t].pc = "details" /\ op'[t].run = op[t].run /\ op'[t].model = op[t].model
    BY <1>4, <2>1 DEF Rejected
  <2>3. Told(op'[t], failed'[t])
    BY <1>4, <2>2 DEF Rejected, Told
  <2>4. Apart(op'[t], failed'[t])
    BY <1>4, <2>2 DEF Rejected, RequestOK, Apart
  <2>5. Counts(op'[t], failed'[t])
    BY <1>4, <2>2, FailureCounts DEF Rejected, Counts
  <2> QED
    BY <2>3, <2>4, <2>5 DEF RequestOK
<1>5. CASE Failed(t)
  <2> DEFINE left == op[t].run.left \ {op[t].model}
  <2>1. /\ op[t].pc = "report" /\ op[t].run \in Runs /\ left \in SUBSET op[t].run.left
        /\ failed'[t] = failed[t] \cup {op[t].model} /\ NextAttempt(t, left)
    BY <1>0, <1>5 DEF Failed
  <2>2. ~(op[t].run.req.pin /\ op[t].run.req.pin_wait) => left \cap failed'[t] = {}
    BY <2>1 DEF RequestOK, Apart
  <2>3. ~op[t].run.req.pin => /\ IsFiniteSet(failed'[t])
                              /\ Cardinality(failed'[t]) = op[t].run.attempt + 1
    BY <2>1, FailureCounts
  <2>4. failed'[t] # {}
    BY <2>1
  <2> HIDE DEF left
  <2> QED
    BY <2>1, <2>2, <2>3, <2>4, NextAttemptKeeps
<1>6. CASE Detailed(t)
  <2>1. /\ op[t].pc = "details" /\ op[t].run \in Runs /\ failed'[t] = failed[t]
        /\ LeftAfter(t) \in SUBSET op[t].run.left /\ NextAttempt(t, LeftAfter(t))
    BY <1>0, <1>6, LeftAfterCases DEF Detailed
  <2>2. ~(op[t].run.req.pin /\ op[t].run.req.pin_wait) => LeftAfter(t) \cap failed'[t] = {}
    BY <2>1, LeftAfterCases DEF RequestOK, Apart
  <2>3. /\ failed'[t] # {}
        /\ ~op[t].run.req.pin => /\ IsFiniteSet(failed'[t])
                                 /\ Cardinality(failed'[t]) = op[t].run.attempt + 1
    BY <2>1 DEF RequestOK, Told, Counts
  <2> QED
    BY <2>1, <2>2, <2>3, NextAttemptKeeps
<1>7. CASE Answers(t)
  <2>1. op[t].pc = "select" => (op[t].run.attempt = 0 <=> failed[t] = {})
    BY DEF RequestOK, Told
  <2>2. Truthful(op'[t], failed'[t])
    BY <1>7, <2>1 DEF Answers, Truthful
  <2> QED
    BY <1>7, <2>2 DEF Answers, RequestOK, Told
<1>8. CASE Ends(t)
  BY <1>8 DEF Ends, RequestOK, Told
<1> QED
  BY <1>1, <1>2, <1>4, <1>5, <1>6, <1>7, <1>8 DEF Moves, RequestStep

(* No client has a request at the start. *)
LEMMA RequestInvInit == Init => RequestInv
BY DEF Init, Idle, RequestInv, RequestOK, Told, InAttempt, Trying

(* Every step keeps what the states of all clients tell. *)
LEMMA RequestInvNext == Inv /\ RequestInv /\ [Next]_vars => RequestInv'
<1> SUFFICES ASSUME Inv, RequestInv, [Next]_vars PROVE RequestInv'
  OBVIOUS
<1>0. op \in [Task -> Op] /\ failed \in [Task -> SUBSET Model]
  BY InvParts
<1>1. ASSUME NEW t \in Task, Moves(t), NEW u \in Task
      PROVE  RequestOK(op'[u], failed'[u])
  <2>1. CASE u = t
    BY <1>0, <1>1, <2>1, RequestKept DEF RequestInv
  <2>2. CASE u # t
    <3>1. op'[u] = op[u] /\ failed'[u] = failed[u]
      BY <1>0, <1>1, <2>2 DEF Moves, OpStep, FailedStep
    <3> QED
      BY <3>1 DEF RequestInv
  <2> QED
    BY <2>1, <2>2
<1>2. ASSUME StillStep, NEW u \in Task
      PROVE  RequestOK(op'[u], failed'[u])
  <2>1. RequestOK(op[u], failed[u]) /\ failed'[u] = failed[u]
    BY <1>2 DEF RequestInv, StillStep
  <2>2. CASE op'[u] = op[u]
    BY <2>1, <2>2
  <2>3. CASE op[u].pc = "sleep" /\ op'[u].pc = "sleep" /\ op'[u].run = op[u].run
    BY <2>1, <2>3 DEF RequestOK, Told, Apart, Counts, InAttempt, Called, Trying
  <2> QED
    BY <1>2, <2>2, <2>3 DEF StillStep
<1> QED
  BY <1>1, <1>2, StepCases DEF RequestInv

(* The two invariants together are inductive. *)
LEMMA AlwaysInv == Spec => [](Inv /\ RequestInv)
BY InvInit, InvNext, RequestInvInit, RequestInvNext, PTL DEF Spec

(* A 502 tells of a failure of this request; a 404 or a 500 comes before any *)
(* attempt has failed, and so does a 409 that names no retry delay.          *)
THEOREM AnswersAreTruthful == Spec => []AnswerTruthful
<1>1. RequestInv => AnswerTruthful
  BY DEF RequestInv, RequestOK, Told, Truthful, AnswerTruthful
<1> QED
  BY <1>1, AlwaysInv, PTL

(* A model that failed a request is not called by it again, save the pinned  *)
(* model of a request that waits, whatever select finds after a sleep.       *)
THEOREM FailedStayOut == Spec => FailedNotCalledAgain
<1> DEFINE A == \A t \in Task :
              Claim(t) /\ op[t].model \in failed[t] =>
                op[t].run.req.pin /\ op[t].run.req.pin_wait
<1>1. RequestInv => A
  <2> SUFFICES ASSUME RequestInv, NEW t \in Task, Claim(t), op[t].model \in failed[t]
               PROVE  op[t].run.req.pin /\ op[t].run.req.pin_wait
    OBVIOUS
  <2>1. op[t].pc = "selected" /\ RequestOK(op[t], failed[t])
    BY DEF Claim, RequestInv
  <2> QED
    BY <2>1 DEF RequestOK, Apart, InAttempt, Called, Trying
<1> HIDE DEF A
<1>2. Spec => [][A]_vars
  BY <1>1, AlwaysInv, PTL
<1> QED
  BY <1>2 DEF A, FailedNotCalledAgain

(* A request that is not pinned and whose failure is reported has tried as   *)
(* many models as attempts are allowed: none counts twice, none is skipped.  *)
THEOREM AllAttemptsAreMade == Spec => AllAttemptsMade
<1> DEFINE A == \A t \in Task :
              ((ReportJob(t) \/ DetailsJob(t)) /\ op'[t].pc = "answer" /\ op'[t].status = 502)
                => op[t].run.req.pin \/ Cardinality(failed'[t]) = MaxAttempts
<1>1. Inv /\ RequestInv /\ [Next]_vars => A
  <2> SUFFICES ASSUME Inv, RequestInv, NEW t \in Task, ReportJob(t) \/ DetailsJob(t),
                      op'[t].pc = "answer", op'[t].status = 502, ~op[t].run.req.pin
               PROVE  Cardinality(failed'[t]) = MaxAttempts
    OBVIOUS
  <2>0. /\ op \in [Task -> Op] /\ failed \in [Task -> SUBSET Model]
        /\ RequestOK(op[t], failed[t])
    BY InvParts DEF RequestInv
  <2>1. Moves(t) /\ op[t].pc \in {"report", "lost_report", "details", "lost_details"}
    <3>1. CallStep(t)
      BY DEF CallStep
    <3>2. op[t].pc \in {"report", "lost_report", "details", "lost_details"}
      BY DEF ReportJob, DetailsJob
    <3> QED
      BY <2>0, <3>1, <3>2, CallMoves
  <2>2. Failed(t) \/ Detailed(t)
    <3>1. ~Begins(t) /\ ~Continues(t) /\ ~Ends(t)
      BY DEF Begins, Continues, Ends, InAttempt
    <3>2. ~Answers(t)
      BY <2>1 DEF Answers
    <3>3. ~Rejected(t)
      <4>1. SUFFICES ASSUME Rejected(t) PROVE FALSE
        OBVIOUS
      <4>2. op[t] \in [pc : {"report"}, run : Runs, model : Model, outcome : Outcome]
        BY <2>0, <4>1 DEF Rejected, Op, Idle
      <4> QED
        BY <4>1, <4>2 DEF Rejected
    <3> QED
      BY <2>1, <3>1, <3>2, <3>3 DEF Moves, RequestStep
  <2>3. PICK left \in SUBSET op[t].run.left : NextAttempt(t, left)
    BY <2>2, LeftAfterCases DEF Failed, Detailed
  <2>4. op[t].run \in Runs /\ op[t].run.attempt \in Nat
    BY <2>0, <2>2, OpFields, CompleteAssumption DEF Failed, Detailed, Trying, Runs
  <2>5. op[t].run.attempt + 1 = MaxAttempts
    BY <2>0, <2>3, <2>4, NextAttemptCases
  <2>6. Cardinality(failed'[t]) = op[t].run.attempt + 1
    <3>1. CASE Failed(t)
      <4>1. op[t].pc = "report" /\ failed'[t] = failed[t] \cup {op[t].model}
        BY <3>1 DEF Failed
      <4>2. Cardinality(failed[t] \cup {op[t].model}) = op[t].run.attempt + 1
        BY <2>0, <4>1, FailureCounts
      <4> QED
        BY <4>1, <4>2
    <3>2. CASE Detailed(t)
      BY <2>0, <3>2 DEF Detailed, RequestOK, Counts, Trying
    <3> QED
      BY <2>2, <3>1, <3>2
  <2> QED
    BY <2>5, <2>6
<1> HIDE DEF A
<1>2. Spec => [][A]_vars
  BY <1>1, AlwaysInv, PTL DEF Spec
<1> QED
  BY <1>2 DEF A, AllAttemptsMade

(* No slot of a model is taken while the last Retry-After of its key runs,   *)
(* whatever successes of older calls have lifted meanwhile.                  *)
THEOREM KeyRetryAfterIsHonoured == Spec => KeyRetryAfterHonoured
<1> DEFINE A == \A m \in Keyed : in_flight'[m] > in_flight[m] => stated_ms[m] = 0
<1>1. Inv /\ [Next]_vars => A
  <2> SUFFICES ASSUME Inv, [Next]_vars, NEW m \in Keyed, in_flight'[m] > in_flight[m]
               PROVE  stated_ms[m] = 0
    OBVIOUS
  <2>0. /\ m \in Model /\ in_flight \in [Model -> Nat] /\ quota_ms[m] \in Nat
        /\ op \in [Task -> Op] /\ stated_ms[m] \in Nat /\ stated_ms[m] <= quota_ms[m]
    BY InvParts, CompleteAssumption DEF ClocksOK, TimersOK, Stated
  <2>1. PICK t \in Task : SlotStep(t) /\ in_flight' # in_flight
    <3>1. in_flight' # in_flight
      BY <2>0
    <3>2. ~StillStep
      BY <3>1 DEF StillStep
    <3> QED
      BY <3>1, <3>2, StepCases DEF Moves
  <2>2. ~Gives(t)
    BY <2>0 DEF Gives, GiveBack
  <2>3. PICK n \in Model : Takes(t, n)
    BY <2>1, <2>2 DEF SlotStep, Keeps
  <2>4. n = m
    BY <2>0, <2>3 DEF Takes, Take
  <2>5. ~(quota_ms[m] > 0)
    BY <2>3, <2>4 DEF Takes, Available, Blocked
  <2> QED
    BY <2>0, <2>5
<1> HIDE DEF A
<1>2. Spec => [][A]_vars
  BY <1>1, AlwaysInv, PTL DEF Spec
<1> QED
  BY <1>2 DEF A, KeyRetryAfterHonoured
=============================================================================
