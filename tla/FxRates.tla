------------------------------ MODULE FxRates ------------------------------
(***************************************************************************)
(* crates/core/src/fx.rs and the refresh_fx functions of selector.rs: the  *)
(* exchange rates, refreshed in the background by whichever select finds   *)
(* them stale, kept in memory and in the database.                         *)
(*                                                                         *)
(* Abstracted: the table of rates is the number of its publication, 0 for  *)
(* the builtin seed; time is how old the snapshot and the last attempt are.*)
(***************************************************************************)
EXTENDS Naturals, FiniteSets

CONSTANTS
  Thread,           \* threads that select, and the refresh each may start
  Eager,            \* the thread of the server's start: one refresh_fx, no permit
  REFRESH_TTL, RETRY_COOLDOWN,
  MaxPublished      \* bound: how many tables the provider publishes

ASSUME FxAssumption ==
  /\ Eager \subseteq Thread
  /\ {REFRESH_TTL, RETRY_COOLDOWN, MaxPublished} \subseteq Nat \ {0}

VARIABLES
  published,   \* the provider's latest table
  rates,       \* the table in memory
  age,         \* since it was fetched; REFRESH_TTL from there on, or if never
  since,       \* since the last attempt; RETRY_COOLDOWN from there on, or if none
  refreshing,  \* the single-flight flag
  saved,       \* the table in the database, and its age
  saved_age,
  op           \* what each thread is doing

memory == <<rates, age, since>>
database == <<saved, saved_age>>
vars == <<published, memory, refreshing, database, op>>

Idle == [pc |-> "idle"]
Become(t, o) == op' = [op EXCEPT ![t] = o]

(* The server starts with a refresh that asks for no permit. *)
Started == [t \in Thread |-> IF t \in Eager THEN [pc |-> "start"] ELSE Idle]

Init ==
  /\ published = 1
  /\ rates = 0 /\ age = REFRESH_TTL /\ since = RETRY_COOLDOWN
  /\ refreshing = FALSE
  /\ saved = 0 /\ saved_age = REFRESH_TTL
  /\ op = Started

Stale == age >= REFRESH_TTL
CooledDown == since >= RETRY_COOLDOWN
-----------------------------------------------------------------------------
(* begin_refresh_if_stale: the times are read, then the flag is taken. *)
Check(t) ==
  /\ op[t] = Idle /\ t \notin Eager
  /\ Stale /\ CooledDown
  /\ Become(t, [pc |-> "claim"])
  /\ UNCHANGED <<published, memory, refreshing, database>>

(* A plausible bug for mutation: the flag is set without looking at it. *)
ClaimAlways(t) ==
  /\ op[t].pc = "claim"
  /\ Become(t, [pc |-> "start"])
  /\ refreshing' = TRUE
  /\ UNCHANGED <<published, memory, database>>

Claim(t) ==
  /\ op[t].pc = "claim"
  /\ Become(t, IF refreshing THEN Idle ELSE [pc |-> "start"])
  /\ refreshing' = TRUE
  /\ UNCHANGED <<published, memory, database>>

(* refresh_blocking: the attempt is noted before the request is made. *)
Attempt(t) ==
  /\ op[t].pc = "start"
  /\ since' = 0
  /\ Become(t, [pc |-> "fetch"])
  /\ UNCHANGED <<published, rates, age, refreshing, database>>

(* The provider answers with the table of that moment. *)
Receive(t) ==
  /\ op[t].pc = "fetch"
  /\ Become(t, [pc |-> "install", table |-> published])
  /\ UNCHANGED <<published, memory, refreshing, database>>

(* A plausible bug for mutation: a failure drops the table. *)
FailForgetting(t) ==
  /\ op[t].pc = "fetch"
  /\ rates' = 0
  /\ Become(t, [pc |-> "finish"])
  /\ UNCHANGED <<published, age, since, refreshing, database>>

(* Or the request, its status or its body is no good. *)
Fail(t) ==
  /\ op[t].pc = "fetch"
  /\ Become(t, [pc |-> "finish"])
  /\ UNCHANGED <<published, memory, refreshing, database>>

Install(t) ==
  /\ op[t].pc = "install"
  /\ rates' = op[t].table /\ age' = 0
  /\ Become(t, [pc |-> "save", table |-> op[t].table, age |-> 0])
  /\ UNCHANGED <<published, since, refreshing, database>>

(* save_fx_rates replaces what is there, or fails with a warning. *)
Save(t) ==
  /\ op[t].pc = "save"
  /\ (saved' = op[t].table /\ saved_age' = op[t].age) \/ UNCHANGED database
  /\ Become(t, [pc |-> "finish"])
  /\ UNCHANGED <<published, memory, refreshing>>

(* A plausible bug for mutation: the flag comes down after a success only. *)
FinishInstalled(t) ==
  /\ op[t].pc = "finish"
  /\ refreshing' = (refreshing /\ (t \in Eager \/ Stale))
  /\ Become(t, Idle)
  /\ UNCHANGED <<published, memory, database>>

(* finish_refresh, for who had the permit. *)
Finish(t) ==
  /\ op[t].pc = "finish"
  /\ refreshing' = (refreshing /\ t \in Eager)
  /\ Become(t, Idle)
  /\ UNCHANGED <<published, memory, database>>

Publish ==
  /\ published < MaxPublished
  /\ published' = published + 1
  /\ UNCHANGED <<memory, refreshing, database, op>>

Up(n, limit) == IF n < limit THEN n + 1 ELSE limit

Tick ==
  /\ age' = Up(age, REFRESH_TTL) /\ since' = Up(since, RETRY_COOLDOWN)
  /\ saved_age' = Up(saved_age, REFRESH_TTL)
  /\ op' = [t \in Thread |-> IF op[t].pc = "save"
                             THEN [op[t] EXCEPT !.age = Up(@, REFRESH_TTL)] ELSE op[t]]
  /\ UNCHANGED <<published, rates, refreshing, saved>>

(* A crash: the server starts with the seed, overlaid by what was saved. *)
Restart ==
  /\ rates' = saved /\ age' = saved_age /\ since' = RETRY_COOLDOWN
  /\ refreshing' = FALSE
  /\ op' = Started
  /\ UNCHANGED <<published, database>>
-----------------------------------------------------------------------------
Refresh(t) ==
  Claim(t) \/ Attempt(t) \/ Receive(t) \/ Fail(t) \/ Install(t) \/ Save(t) \/ Finish(t)

Next ==
  \/ Tick \/ Publish \/ Restart
  \/ \E t \in Thread : Check(t) \/ Refresh(t)

Spec == Init /\ [][Next]_vars

(* Selects keep coming, a refresh goes on, the provider answers sometimes,   *)
(* and the server is not restarted for ever.                                 *)
FairSpec ==
  /\ Spec /\ <>[][~Restart]_vars
  /\ WF_vars(Tick)
  /\ \A t \in Thread : SF_vars(Check(t)) /\ WF_vars(Refresh(t)) /\ SF_vars(Receive(t))
-----------------------------------------------------------------------------
Op ==
  [pc : {"idle", "claim", "start", "fetch", "finish"}]
  \cup [pc : {"install"}, table : 1..MaxPublished]
  \cup [pc : {"save"}, table : 1..MaxPublished, age : 0..REFRESH_TTL]

TypeOK ==
  /\ published \in 1..MaxPublished
  /\ rates \in 0..MaxPublished /\ saved \in 0..MaxPublished
  /\ age \in 0..REFRESH_TTL /\ saved_age \in 0..REFRESH_TTL
  /\ since \in 0..RETRY_COOLDOWN
  /\ refreshing \in BOOLEAN
  /\ op \in [Thread -> Op]

(* fx.rs: refresh is single-flight: of the refreshes that selects start one  *)
(* at most is under way, and the flag is up as long as it is.                *)
SingleFlight ==
  LET Lazy == {t \in Thread \ Eager :
                 op[t].pc \in {"start", "fetch", "install", "save", "finish"}} IN
  Cardinality(Lazy) = (IF refreshing THEN 1 ELSE 0)

(* fx.rs: on failure "last-good values stay", and they "survive restarts":   *)
(* once a table was saved, the seed never comes back.                        *)
LastGoodStays == [][saved # 0 => rates' # 0]_vars

(* Rates that are stale are refreshed, whatever refreshes failed before. *)
StaleIsRefreshed == Stale ~> ~Stale
=============================================================================
