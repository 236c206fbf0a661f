------------------------------ MODULE SplitFlow ------------------------------
(***************************************************************************)
(* The split flow: clients (call and call_litellm_tool_loop of             *)
(* python/proviz_elekto/client.py) that ask the server for a model, call   *)
(* the provider themselves and report what came of it, against the server  *)
(* (server/src/lib.rs, crates/core/src/selector.rs) whose counters, windows*)
(* and cooldowns only those reports keep true.  A request or its answer    *)
(* may be lost and is sent again while the server still works on the first *)
(* one, a success is reported in the background, either side may die, and  *)
(* the server forgets everything when it restarts.  Brands have no rows of *)
(* API keys, so buckets and cooldowns are the models' own.                 *)
(***************************************************************************)
EXTENDS UsageWindows, Integers

CONSTANTS
  Client,       \* callers of call and call_litellm_tool_loop
  ToolLoop,     \* those of call_litellm_tool_loop
  Thread,       \* the server's threads for jobs whose client does not wait
  Model,        \* the models every step allows
  Uncapped,     \* no max_in_flight
  NoModel,      \* the model of a call that has none
  MaxInFlight,  \* max_in_flight of each model
  Unknown,      \* models without configured rpm, tpm and rps limits
  Announcing,   \* models whose provider may announce limits with a success
  Garbling,     \* models whose answers may not parse
  Cooldowns,    \* ticks a reported failure may block a model for
  MaxRetries,   \* times a request is sent again (2 in the code)
  MaxFaults,    \* bound: losses, deaths and restarts in a behaviour
  FreeBound,    \* bound: calls a bucket may come to count without a ceiling
  WindowBound   \* bound: those of one with a ceiling in force

ASSUME SplitFlowAssumption ==
  /\ IsFiniteSet(Client) /\ IsFiniteSet(Thread) /\ IsFiniteSet(Model)
  /\ Client \cap Thread = {}
  /\ Uncapped \notin Nat
  /\ NoModel \notin Model
  /\ MaxInFlight \in [Model -> Nat \cup {Uncapped}]
  /\ Unknown \subseteq Model /\ Announcing \subseteq Model /\ Garbling \subseteq Model
  /\ Cooldowns # {} /\ Cooldowns \subseteq Nat \ {0}
  /\ ToolLoop \subseteq Client
  /\ {MaxRetries, MaxFaults, FreeBound, WindowBound} \subseteq Nat

VARIABLES
  usage,    \* the server's bucket of each model
  blocked,  \* ticks each model's cooldown still has
  known,    \* models for which the catalog has come to have limits
  op,       \* each client's call and each thread's job
  transit,  \* successes of each model that background threads still report
  stale,    \* such reports whose slot the server no longer counts
  leaked,   \* history: slots nobody will give back
  strays,   \* history: reports applied for a slot not counted any more
  faults    \* how many faults have happened

history == <<leaked, strays>>
vars == <<usage, blocked, known, op, transit, stale, leaked, strays, faults>>

Worker == Client \cup Thread

PC == {"idle", "select", "reserve", "refused", "hinted", "answering", "running",
       "report", "push", "outcome", "announce"}
Kind == {"rate_limit", "error", "parse", "rounds", "success"}

(* A call: the models it skips and may be given, its model, what it reports, *)
(* the requests sent again, how many slots the server still counts for it    *)
(* (owed).  A refusal that comes with a hint is "hinted".  Histories: models *)
(* whose failure it has reported since the last tick (hot), and the highest  *)
(* ceilings since it was let in (peak).  The job of a thread is the part of  *)
(* a call that the server goes on with alone.                                *)
NoCall == [pc |-> "idle", skip |-> {}, allowed |-> {}, model |-> NoModel,
           kind |-> "error", tries |-> 0, owed |-> 0, hot |-> {},
           peak |-> [m \in Model |-> NotLearned]]

Init ==
  /\ usage = [m \in Model |-> NewBucket]
  /\ blocked = [m \in Model |-> 0]
  /\ known = {}
  /\ op = [w \in Worker |-> NoCall]
  /\ transit = [m \in Model |-> 0]
  /\ stale = [m \in Model |-> 0]
  /\ leaked = [m \in Model |-> 0]
  /\ strays = [m \in Model |-> 0]
  /\ faults = 0

(* Slots counted for model m that a call or a report will still give back. *)
Owed(m) ==
  transit[m] + Cardinality({w \in Worker : op[w].owed = 1 /\ op[w].model = m})

(* Calls of model m that count nowhere: given back, not yet recorded. *)
Pushing(m) == {w \in Worker : op[w].pc = "push" /\ op[w].model = m}

Fault == faults < MaxFaults /\ faults' = faults + 1
-----------------------------------------------------------------------------
(* The gates of a select, and what they leave in the windows. *)

BelowCap(m) ==
  MaxInFlight[m] # Uncapped => usage[m].in_flight < MaxInFlight[m]

Open(m) == blocked[m] = 0
Full(m) == ~BelowCap(m) \/ LearnedExhausted(usage[m])

(* A bucket at its cap is not looked at; one within it is drained as far as *)
(* the gates let the select see it.                                         *)
Looked(m) ==
  IF ~BelowCap(m) THEN usage[m]
  ELSE IF LearnedExhausted(usage[m]) THEN LookedAt(usage[m])
  ELSE Scored(usage[m])

(* The hint of a refusal is the first of these ends, all of them to come; *)
(* without any it is "do not wait".                                       *)
RetryAfter(tried) ==
  {blocked[m] : m \in {n \in tried : ~Open(n)}}
  \cup EarliestDrain({Looked(m) : m \in {n \in tried : Open(n)}})

Call(c) ==
  /\ op[c].pc = "idle"
  /\ op' = [op EXCEPT ![c] = [NoCall EXCEPT !.pc = "select"]]
  /\ UNCHANGED <<usage, blocked, known, transit, stale, history, faults>>

(* The client of a job that a thread goes on with learns of no refusal. *)
Refused(w, hints) ==
  IF w \in Thread THEN NoCall
  ELSE [op[w] EXCEPT !.pc = IF hints = {} THEN "refused" ELSE "hinted",
                     !.allowed = {}, !.peak = NoCall.peak]

(* The ceiling in force for a select that finds model m open. *)
Ceiling(m) == IF usage[m].announced THEN NotLearned ELSE usage[m].learned

(* select_once up to its candidates.  A skipped model is not tried. *)
Gate(w) ==
  LET tried == Model \ op[w].skip
      open == {m \in tried : Open(m) /\ ~Full(m)}
  IN  /\ op[w].pc = "select"
      /\ usage' = [m \in Model |->
                     IF m \in tried /\ Open(m) THEN Looked(m) ELSE usage[m]]
      /\ op' = [op EXCEPT ![w] =
                  IF open = {} THEN Refused(w, RetryAfter(tried))
                  ELSE [@ EXCEPT !.pc = "reserve", !.allowed = open,
                                 !.peak = [m \in Model |->
                                   IF m \in open THEN Ceiling(m) ELSE NotLearned]]]
      /\ UNCHANGED <<blocked, known, transit, stale, history, faults>>

(* Its end: the best scored candidate whose cap lets it in, scores being any. *)
Reserve(w) ==
  /\ op[w].pc = "reserve"
  /\ \/ \E m \in op[w].allowed :
          /\ BelowCap(m)
          /\ Used(usage[m]) + Cardinality(Pushing(m)) <
               IF Ceiling(m) = NotLearned THEN FreeBound ELSE WindowBound
          /\ usage' = [usage EXCEPT ![m] = TryReserved(@)]
          /\ op' = [op EXCEPT ![w] =
               [@ EXCEPT !.pc = "answering", !.allowed = {}, !.model = m,
                         !.owed = 1, !.peak = NoCall.peak]]
     \/ /\ \A m \in op[w].allowed : ~BelowCap(m)
        /\ op' = [op EXCEPT ![w] = Refused(w, {InFlightHint})]
        /\ UNCHANGED usage
  /\ UNCHANGED <<blocked, known, transit, stale, history, faults>>

(* A refused call with budget left waits about as long as the hint says, in *)
(* the server or itself, and asks again; without a hint or budget it raises.*)
RetryAfterHint(c) ==
  /\ op[c].pc = "hinted"
  /\ op' = [op EXCEPT ![c] = [@ EXCEPT !.pc = "select", !.tries = 0]]
  /\ UNCHANGED <<usage, blocked, known, transit, stale, history, faults>>

RaiseExhausted(c) ==
  /\ op[c].pc \in {"refused", "hinted"}
  /\ op' = [op EXCEPT ![c] = NoCall]
  /\ UNCHANGED <<usage, blocked, known, transit, stale, history, faults>>
-----------------------------------------------------------------------------
(* The request for a model, its answer and their losses. *)

(* _request_with_retry: the same request again, or the call raises. *)
AskAgain(o) ==
  IF o.tries < MaxRetries
  THEN [o EXCEPT !.pc = "select", !.tries = @ + 1, !.allowed = {},
                 !.model = NoModel, !.owed = 0, !.peak = NoCall.peak]
  ELSE NoCall

Answer(c) ==
  /\ op[c].pc = "answering"
  /\ op' = [op EXCEPT ![c] = [@ EXCEPT !.pc = "running", !.tries = 0]]
  /\ UNCHANGED <<usage, blocked, known, transit, stale, history, faults>>

(* The client times out before the handler takes the result: the handler is *)
(* dropped, the job of its select goes on, and the client asks again.       *)
TimeOut(c, t) ==
  /\ op[c].pc \in {"select", "reserve", "answering"} /\ op[t].pc = "idle"
  /\ Fault
  /\ op' = [op EXCEPT ![c] = AskAgain(@),
                      ![t] = [op[c] EXCEPT !.tries = 0, !.hot = {}]]
  /\ UNCHANGED <<usage, blocked, known, transit, stale, history>>

(* A refusal is lost, or the client times out while the server waits before *)
(* the next select, with no job under way.                                  *)
LoseRefusal(c) ==
  /\ op[c].pc \in {"refused", "hinted"}
  /\ Fault
  /\ op' = [op EXCEPT ![c] = AskAgain(@)]
  /\ UNCHANGED <<usage, blocked, known, transit, stale, history>>

(* A plausible bug for mutation: an answer nobody awaits keeps its slot. *)
DropHolding(t) ==
  /\ op[t].pc = "answering"
  /\ op' = [op EXCEPT ![t] = NoCall]
  /\ UNCHANGED <<usage, blocked, known, transit, stale, history, faults>>

(* The result that nobody awaits is dropped, and PendingSelection gives the *)
(* slot back.                                                               *)
DropUnclaimed(t) ==
  /\ op[t].pc = "answering"
  /\ usage' = [usage EXCEPT ![op[t].model] = CancelledReservation(@)]
  /\ op' = [op EXCEPT ![t] = NoCall]
  /\ UNCHANGED <<blocked, known, transit, stale, history, faults>>

(* The answer is lost after the handler has taken the result. *)
LoseAnswer(c) ==
  /\ op[c].pc = "answering"
  /\ Fault
  /\ leaked' = [leaked EXCEPT ![op[c].model] = @ + 1]
  /\ op' = [op EXCEPT ![c] = AskAgain(@)]
  /\ UNCHANGED <<usage, blocked, known, transit, stale, strays>>
-----------------------------------------------------------------------------
(* What the provider does. *)

(* The answer is returned and its report left to a background thread. *)
Succeed(c) ==
  LET m == op[c].model IN
  /\ op[c].pc = "running"
  /\ op' = [op EXCEPT ![c] = NoCall]
  /\ IF op[c].owed = 1
     THEN transit' = [transit EXCEPT ![m] = @ + 1] /\ UNCHANGED stale
     ELSE stale' = [stale EXCEPT ![m] = @ + 1] /\ UNCHANGED transit
  /\ UNCHANGED <<usage, blocked, known, history, faults>>

(* The provider fails or, in the tool loop, max_iterations rounds bring no *)
(* answer: either is reported before anything else.                        *)
Fail(c, kind) ==
  /\ op[c].pc = "running"
  /\ kind # "success" /\ (kind = "parse" => op[c].model \in Garbling)
  /\ kind = "rounds" => c \in ToolLoop
  /\ op' = [op EXCEPT ![c] = [@ EXCEPT !.pc = "report", !.kind = kind, !.tries = 0]]
  /\ UNCHANGED <<usage, blocked, known, transit, stale, history, faults>>

(* The client dies, or is interrupted, in the middle of the call. *)
Die(c) ==
  /\ op[c].pc = "running"
  /\ Fault
  /\ leaked' = [leaked EXCEPT ![op[c].model] = @ + op[c].owed]
  /\ op' = [op EXCEPT ![c] = NoCall]
  /\ UNCHANGED <<usage, blocked, known, transit, stale, strays>>
-----------------------------------------------------------------------------
(* What the server does with a report, in the order of its locks. *)

(* report_rate_limit learns first, as long as the catalog has no limits; then *)
(* each failure gives the slot back.                                          *)
AfterFailure(u, kind, unknown) ==
  CancelledReservation(IF kind = "rate_limit" THEN RecordOutcome(u, TRUE, unknown) ELSE u)

(* A call that was rejected for unknown limits is not recorded as used. *)
Rejected(m, kind) == kind = "rate_limit" /\ m \in Unknown \ known

(* A plausible bug for mutation: only a 429 blocks the model. *)
CooldownOf429s(kind) == IF kind = "rate_limit" THEN Cooldowns ELSE {0}

(* mark: an unparsable answer blocks nothing. *)
CooldownOf(kind) == IF kind = "parse" THEN {0} ELSE Cooldowns

(* The first half of a failure's report: cooldown, ceiling and slot. *)
ApplyFailure(c) ==
  LET m == op[c].model
      kind == op[c].kind
  IN  /\ op[c].pc = "report"
      /\ usage' = [usage EXCEPT ![m] = AfterFailure(@, kind, m \in Unknown \ known)]
      /\ \E ticks \in CooldownOf(kind) :
           blocked' = [blocked EXCEPT ![m] = IF ticks = 0 THEN @ ELSE ticks]
      /\ strays' = [strays EXCEPT ![m] = @ + 1 - op[c].owed]
      /\ UNCHANGED <<known, transit, stale, leaked>>

(* The call that has reported it. *)
Failed(o) ==
  [o EXCEPT !.owed = 0, !.hot = IF o.kind = "parse" THEN @ ELSE @ \cup {o.model}]

(* That of a success, which ends the model's cooldown. *)
ApplySuccess(m, t) ==
  /\ op[t].pc = "idle"
  /\ usage' = [usage EXCEPT ![m] = CancelledReservation(@)]
  /\ blocked' = [blocked EXCEPT ![m] = 0]
  /\ op' = [w \in Worker |->
       IF w = t THEN [NoCall EXCEPT !.pc = "push", !.model = m, !.kind = "success"]
       ELSE [op[w] EXCEPT !.hot = @ \ {m}]]
  /\ UNCHANGED known

(* With the answer to the report the call goes on with another model, or ends. *)
Reported(o) ==
  IF o.kind = "rounds" THEN NoCall
  ELSE [o EXCEPT !.pc = "select", !.tries = 0, !.model = NoModel, !.kind = "error",
                 !.skip = IF o.kind = "parse" THEN @ \cup {o.model} ELSE @]

(* The second half: the call is recorded in the windows.  That is all there *)
(* is of a failure's report.                                                *)
Push(w) ==
  /\ op[w].pc = "push"
  /\ usage' = [usage EXCEPT ![op[w].model] = Recorded(@)]
  /\ op' = [op EXCEPT ![w] =
       IF w \in Client THEN Reported(@)
       ELSE IF @.kind = "success" THEN [@ EXCEPT !.pc = "outcome"] ELSE NoCall]
  /\ UNCHANGED <<blocked, known, transit, stale, history, faults>>

(* The ceilings that selects between their gate and their end may see. *)
Peaks(m, after) ==
  [w \in Worker |->
     [op[w] EXCEPT !.peak[m] = IF @ = NotLearned \/ after.announced THEN NotLearned
                               ELSE AtLeast(@, after.learned)]]

(* A success raises the ceiling; its report may bring the provider's limits, ... *)
Outcome(t, announces) ==
  LET m == op[t].model
      after == RecordOutcome(usage[m], FALSE, FALSE)
  IN  /\ op[t].pc = "outcome" /\ (announces => m \in Announcing /\ ~usage[m].announced)
      /\ usage' = [usage EXCEPT ![m] = after]
      /\ op' = [Peaks(m, after) EXCEPT ![t] =
                  IF announces THEN [op[t] EXCEPT !.pc = "announce"] ELSE NoCall]
      /\ UNCHANGED <<blocked, known, transit, stale, history, faults>>

(* ... which the bucket keeps and the catalog has from then on. *)
Announce(t) ==
  LET m == op[t].model
      after == Announced(usage[m])
  IN  /\ op[t].pc = "announce"
      /\ usage' = [usage EXCEPT ![m] = after]
      /\ known' = known \cup {m}
      /\ op' = [Peaks(m, after) EXCEPT ![t] = NoCall]
      /\ UNCHANGED <<blocked, transit, stale, history, faults>>
-----------------------------------------------------------------------------
(* The reports. *)

(* _post_fire_and_forget: a report arrives, ... *)
DeliverSuccess(m, t) ==
  /\ \/ /\ transit[m] > 0
        /\ transit' = [transit EXCEPT ![m] = @ - 1]
        /\ UNCHANGED <<stale, strays>>
     \/ /\ stale[m] > 0
        /\ stale' = [stale EXCEPT ![m] = @ - 1]
        /\ strays' = [strays EXCEPT ![m] = @ + 1]
        /\ UNCHANGED transit
  /\ ApplySuccess(m, t)
  /\ UNCHANGED <<leaked, faults>>

(* ... or arrives and is sent again as its answer is lost, ... *)
DuplicateSuccess(m, t) ==
  /\ transit[m] > 0
  /\ Fault
  /\ transit' = [transit EXCEPT ![m] = @ - 1]
  /\ stale' = [stale EXCEPT ![m] = @ + 1]
  /\ ApplySuccess(m, t)
  /\ UNCHANGED history

(* ... or is lost for good, which the thread only logs. *)
LoseSuccess(m) ==
  /\ transit[m] > 0
  /\ Fault
  /\ transit' = [transit EXCEPT ![m] = @ - 1]
  /\ leaked' = [leaked EXCEPT ![m] = @ + 1]
  /\ UNCHANGED <<usage, blocked, known, op, stale, strays>>

(* A report without an answer is sent again.  When that has been done often *)
(* enough call raises and gives up its slot; the tool loop's last report is *)
(* inside its own handler, which reports the failure to report and goes on. *)
ReportAgain(o) ==
  IF o.tries < MaxRetries THEN [o EXCEPT !.pc = "report", !.tries = @ + 1]
  ELSE IF o.kind = "rounds" THEN [o EXCEPT !.pc = "report", !.tries = 0, !.kind = "error"]
  ELSE NoCall

(* A failure is reported, and the call goes on with the answer: of a call that *)
(* was rejected nothing is left to record.                                     *)
ReportArrives(c) ==
  /\ ApplyFailure(c)
  /\ op' = [op EXCEPT ![c] = IF Rejected(@.model, @.kind) THEN Reported(Failed(@))
                             ELSE [Failed(@) EXCEPT !.pc = "push"]]
  /\ UNCHANGED faults

(* The answer is lost after the job has ended, ... *)
ReportUnanswered(c) ==
  /\ Fault
  /\ \/ /\ Rejected(op[c].model, op[c].kind) /\ ApplyFailure(c)
        /\ op' = [op EXCEPT ![c] = ReportAgain(Failed(@))]
     \/ /\ op[c].pc = "push"
        /\ usage' = [usage EXCEPT ![op[c].model] = Recorded(@)]
        /\ op' = [op EXCEPT ![c] = ReportAgain(@)]
        /\ UNCHANGED <<blocked, known, transit, stale, history>>

(* ... or does not come in time, and the job goes on without its client. *)
ReportTimesOut(c, t) ==
  /\ op[c].pc = "push" /\ op[t].pc = "idle"
  /\ Fault
  /\ op' = [op EXCEPT ![c] = ReportAgain(@),
                      ![t] = [NoCall EXCEPT !.pc = "push", !.model = op[c].model]]
  /\ UNCHANGED <<usage, blocked, known, transit, stale, history>>

LoseReport(c) ==
  LET next == ReportAgain(op[c]) IN
  /\ op[c].pc = "report"
  /\ Fault
  /\ op' = [op EXCEPT ![c] = next]
  /\ leaked' = [leaked EXCEPT ![op[c].model] =
                  @ + op[c].owed - next.owed]
  /\ UNCHANGED <<usage, blocked, known, transit, stale, strays>>
-----------------------------------------------------------------------------
(* The server dies and comes back knowing the catalog and nothing of calls:  *)
(* what waits for an answer fails to connect, what has one will report to a  *)
(* stranger.                                                                 *)
Restart ==
  /\ Fault
  /\ usage' = [m \in Model |-> NewBucket]
  /\ blocked' = [m \in Model |-> 0]
  /\ transit' = [m \in Model |-> 0]
  /\ stale' = [m \in Model |-> stale[m] + transit[m]]
  /\ leaked' = [m \in Model |-> 0]
  /\ strays' = [m \in Model |-> 0]
  /\ op' = [w \in Worker |->
       LET o == [op[w] EXCEPT !.hot = {}] IN
       IF w \in Thread THEN NoCall
       ELSE CASE o.pc \in {"select", "reserve", "answering"} -> AskAgain(o)
         [] o.pc \in {"running", "report"} -> [o EXCEPT !.owed = 0]
         [] o.pc = "push" -> ReportAgain(o)
         [] OTHER -> o]
  /\ UNCHANGED known

Tick ==
  /\ usage' = [m \in Model |-> Aged(usage[m])]
  /\ blocked' = [m \in Model |-> SaturatingSub(blocked[m], 1)]
  /\ op' = [w \in Worker |-> [op[w] EXCEPT !.hot = {}]]
  /\ UNCHANGED <<known, transit, stale, history, faults>>

ProviderReturns(c) ==
  \/ Succeed(c)
  \/ \E kind \in Kind : Fail(c, kind)

ClientStep(c) ==
  \/ Call(c) \/ Gate(c) \/ Reserve(c) \/ RetryAfterHint(c) \/ RaiseExhausted(c)
  \/ Answer(c) \/ LoseRefusal(c) \/ LoseAnswer(c)
  \/ ProviderReturns(c) \/ Die(c)
  \/ ReportArrives(c) \/ Push(c) \/ ReportUnanswered(c) \/ LoseReport(c)

ThreadStep(t) ==
  \/ Gate(t) \/ Reserve(t) \/ DropUnclaimed(t) \/ Push(t) \/ Announce(t)
  \/ \E announces \in BOOLEAN : Outcome(t, announces)

Next ==
  \/ \E c \in Client : ClientStep(c)
  \/ \E t \in Thread : ThreadStep(t)
  \/ \E c \in Client, t \in Thread : TimeOut(c, t) \/ ReportTimesOut(c, t)
  \/ \E m \in Model, t \in Thread : DeliverSuccess(m, t) \/ DuplicateSuccess(m, t)
  \/ \E m \in Model : LoseSuccess(m)
  \/ Restart
  \/ Tick

Spec == Init /\ [][Next]_vars

(* What brings a call that has asked for a model on without anyone's choice. *)
Proceed(c) ==
  Reserve(c) \/ Answer(c) \/ ProviderReturns(c) \/ ReportArrives(c) \/ Push(c)

(* Time passes, the server finishes what it has begun, requests that are not *)
(* lost arrive and get a thread, jobs waiting for one in a queue, and a      *)
(* provider's call ends (its HTTP client times out).                         *)
Fairness ==
  /\ WF_vars(Tick)
  /\ \A c \in Client : WF_vars(Proceed(c))
  /\ \A t \in Thread : WF_vars(ThreadStep(t))
  /\ \A m \in Model : SF_vars(\E t \in Thread : DeliverSuccess(m, t))

FairSpec == Spec /\ Fairness
-----------------------------------------------------------------------------
Window == Seq(0..(Span + 1))

Usage == [in_flight : Nat, rpm : Window, tpm : Window,
          learned : (Nat \ {0}) \cup {NotLearned}, since : 0..Span,
          announced : BOOLEAN]

Op == [pc : PC, skip : SUBSET Model, allowed : SUBSET Model, model : Model \cup {NoModel},
       kind : Kind, tries : 0..MaxRetries, owed : {0, 1}, hot : SUBSET Model,
       peak : [Model -> Nat \cup {NotLearned}]]

TypeOK ==
  /\ usage \in [Model -> Usage]
  /\ blocked \in [Model -> Nat]
  /\ known \subseteq Model
  /\ op \in [Worker -> Op]
  /\ transit \in [Model -> Nat]
  /\ stale \in [Model -> Nat]
  /\ leaked \in [Model -> Nat]
  /\ strays \in [Model -> Nat]
  /\ faults \in 0..MaxFaults

(* The server's count of a model's calls is what calls and their reports    *)
(* will give back and what was lost, less at most the reports that came for *)
(* a slot it did not count: a lost, late or repeated message moves it by    *)
(* one slot, and no retry, restart or abandoned select by more.             *)
SlotsBalance ==
  \A m \in Model :
    /\ usage[m].in_flight <= Owed(m) + leaked[m]
    /\ Owed(m) + leaked[m] <= usage[m].in_flight + strays[m]

(* selector.rs refuses a model whose learned ceiling is used up, but reads   *)
(* the count before it reserves, and a report takes its call out of one      *)
(* count before it puts it into the other.  While a ceiling is in force, the *)
(* calls of a minute, those that count nowhere included, go over it by no    *)
(* more than one for each other request that the server is at work on,       *)
(* whatever reports, new 429s, retries and abandoned selects come between.   *)
CeilingHeld ==
  [][\A w \in Worker : \A m \in op[w].allowed :
       (op[w].peak[m] # NotLearned /\ op'[w].model = m /\ Reserve(w))
         => Used(usage'[m]) + Cardinality(Pushing(m)')
              <= op[w].peak[m] + Cardinality(Worker) - 1 + strays[m]]_vars

(* client.py, _post_fire_and_forget: a failure is reported synchronously "so *)
(* that the model is blocked in proviz before the retry select() call": the  *)
(* select after it is never given the model again in the same tick, unless a *)
(* success of another call has ended the cooldown or a restart forgot it.    *)
RetriesElsewhere ==
  [][\A c \in Client : \A m \in op[c].hot : Gate(c) => m \notin op'[c].allowed]_vars

(* usage_tracker.rs, record_outcome: halving stops at one call a minute, so a *)
(* ceiling always leaves room again, unless a slot that nobody gives back     *)
(* takes it.                                                                  *)
LearnedNeverStarves ==
  \A m \in Model : []<>(~LearnedExhausted(usage[m]) \/ leaked[m] > 0)
=============================================================================
