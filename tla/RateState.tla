----------------------------- MODULE RateState -----------------------------
(***************************************************************************)
(* crates/core/src/rate_state.rs: the map from an id (a model, an API key  *)
(* or a brand) to the instant at which its cooldown ends, as the threads   *)
(* of the selector use it.  An action is what one DashMap operation or one *)
(* reading of the clock does; is_limited gives its shard lock back between *)
(* seeing that a cooldown has ended and removing it.                       *)
(*                                                                         *)
(* Durations keep their order and their rounding, not their length: a      *)
(* millisecond is TicksPerMs instants long, and Cooldown maps an error     *)
(* type to a few of them.                                                  *)
(***************************************************************************)
EXTENDS Integers

CONSTANTS
  Task,        \* threads that select and report
  Id,          \* models, API keys or brands
  ErrorType,   \* the RateLimitErrorType of a report
  Cooldown,    \* cooldown_secs of each, in instants; a parse failure has 0
  RetryAfters, \* values of a provider's Retry-After, in milliseconds
  DayMs,       \* the longest Retry-After taken at its word
  TicksPerMs,  \* instants in a millisecond
  NoExpiry,    \* an id that is not in the map
  MaxTime      \* bound: the last instant of the clock

ASSUME RateStateAssumption ==
  /\ Cooldown \in [ErrorType -> Nat]
  /\ RetryAfters \subseteq Nat
  /\ DayMs \in Nat
  /\ TicksPerMs \in Nat \ {0}
  /\ NoExpiry \notin Int
  /\ MaxTime \in Nat

VARIABLES
  now,      \* the monotonic clock
  limited,  \* the map: the instant each id's cooldown ends
  op        \* the operation each task is in the middle of

vars == <<now, limited, op>>

Idle == [pc |-> "idle"]

(* A hint remembers the ids it is for and those it has not read yet, the     *)
(* clock as it read it and the shortest wait so far; disturbed is history:   *)
(* one of its ids was marked meanwhile.                                      *)
Hint(S, rest, t, ms, d) ==
  [pc |-> "hint", ids |-> S, todo |-> rest, since |-> t, wait |-> ms, disturbed |-> d]

Asleep(S, t, d) == [pc |-> "asleep", ids |-> S, wake |-> t, disturbed |-> d]

Limited(i) == limited[i] # NoExpiry /\ now < limited[i]

Become(t, o) == op' = [op EXCEPT ![t] = o]

Init ==
  /\ now = 0
  /\ limited = [i \in Id |-> NoExpiry]
  /\ op = [t \in Task |-> Idle]
-----------------------------------------------------------------------------
(* A mark reads the clock and works out when the cooldown ends... *)
PlanInsert(t, i, d) ==
  /\ op[t] = Idle
  /\ Become(t, [pc |-> "insert", id |-> i, expiry |-> now + d])
  /\ UNCHANGED <<now, limited>>

(* mark: a cooldown of zero blocks nothing. *)
Mark(t, i, e) == Cooldown[e] # 0 /\ PlanInsert(t, i, Cooldown[e])

(* A plausible bug for mutation: the provider's value is taken as it comes. *)
MarkForMsUnclamped(t, i, ms) == PlanInsert(t, i, ms * TicksPerMs)

(* mark_for_ms: a day at most. *)
MarkForMs(t, i, ms) ==
  PlanInsert(t, i, (IF ms <= DayMs THEN ms ELSE DayMs) * TicksPerMs)

(* What a task's operation becomes when another task has just marked i. *)
Disturb(o, i) ==
  IF o.pc \in {"hint", "asleep"} /\ i \in o.ids
  THEN [o EXCEPT !.disturbed = TRUE] ELSE o

(* ...and inserts it, whatever the map holds by then. *)
Insert(t) ==
  /\ op[t].pc = "insert"
  /\ limited' = [limited EXCEPT ![op[t].id] = op[t].expiry]
  /\ op' = [u \in Task |-> IF u = t THEN Idle ELSE Disturb(op[u], op[t].id)]
  /\ UNCHANGED now

(* is_limited on an id whose cooldown has ended: the answer is no, and the   *)
(* entry is to be removed.  On any other id it answers and changes nothing.  *)
SeeExpired(t, i) ==
  /\ op[t] = Idle
  /\ limited[i] # NoExpiry /\ ~Limited(i)
  /\ Become(t, [pc |-> "remove", id |-> i])
  /\ UNCHANGED <<now, limited>>

(* The removal takes whatever entry the id has by then. *)
Remove(t) ==
  /\ op[t].pc = "remove"
  /\ limited' = [limited EXCEPT ![op[t].id] = NoExpiry]
  /\ Become(t, Idle)
  /\ UNCHANGED now

(* clear, by a report of success. *)
Clear(t, i) ==
  /\ op[t] = Idle
  /\ limited' = [limited EXCEPT ![i] = NoExpiry]
  /\ UNCHANGED <<now, op>>

(* min_remaining_ms_for reads the clock once and then the ids one by one. *)
HintStart(t, S) ==
  /\ op[t] = Idle
  /\ Become(t, Hint(S, S, now, NoExpiry, FALSE))
  /\ UNCHANGED <<now, limited>>

(* A plausible bug for mutation: the fraction of a millisecond is lost. *)
RemainingMsTruncated(e, t) == (e - t) \div TicksPerMs

(* The milliseconds from instant t that clear the end of a cooldown, e. *)
RemainingMs(e, t) == (e - t) \div TicksPerMs + 1

(* A plausible bug for mutation: the longest wait, not the shortest. *)
Later(d, best) == IF best = NoExpiry \/ d > best THEN d ELSE best
Sooner(d, best) == IF best = NoExpiry \/ d < best THEN d ELSE best

(* An id without a cooldown, or whose cooldown has ended, gives no hint. *)
HintRead(t, i) ==
  LET o == op[t] IN
  /\ o.pc = "hint" /\ i \in o.todo
  /\ Become(t, Hint(o.ids, o.todo \ {i}, o.since,
                    IF limited[i] # NoExpiry /\ o.since <= limited[i]
                    THEN Sooner(RemainingMs(limited[i], o.since), o.wait) ELSE o.wait,
                    o.disturbed))
  /\ UNCHANGED <<now, limited>>

(* select_with_wait sleeps for as long as the hint says; without a hint the *)
(* select just fails.                                                        *)
Sleep(t) ==
  LET o == op[t] IN
  /\ o.pc = "hint" /\ o.todo = {}
  /\ Become(t, IF o.wait = NoExpiry THEN Idle
               ELSE Asleep(o.ids, now + o.wait * TicksPerMs, o.disturbed))
  /\ UNCHANGED <<now, limited>>

(* The second select of select_with_wait begins. *)
Wake(t) ==
  /\ op[t].pc = "asleep" /\ now >= op[t].wake
  /\ Become(t, Idle)
  /\ UNCHANGED <<now, limited>>

Tick ==
  /\ now < MaxTime
  /\ now' = now + 1
  /\ UNCHANGED <<limited, op>>

TaskStep(t) ==
  \/ \E i \in Id, e \in ErrorType : Mark(t, i, e)
  \/ \E i \in Id, ms \in RetryAfters : MarkForMs(t, i, ms)
  \/ \E i \in Id : SeeExpired(t, i) \/ Clear(t, i) \/ HintRead(t, i)
  \/ \E S \in (SUBSET Id) \ {{}} : HintStart(t, S)
  \/ Insert(t) \/ Remove(t) \/ Sleep(t) \/ Wake(t)

Next == Tick \/ \E t \in Task : TaskStep(t)

Spec == Init /\ [][Next]_vars
-----------------------------------------------------------------------------
Op ==
  {Idle} \cup [pc : {"insert"}, id : Id, expiry : Nat] \cup [pc : {"remove"}, id : Id]
  \cup [pc : {"hint"}, ids : SUBSET Id, todo : SUBSET Id, since : Nat,
         wait : Nat \cup {NoExpiry}, disturbed : BOOLEAN]
  \cup [pc : {"asleep"}, ids : SUBSET Id, wake : Nat, disturbed : BOOLEAN]

TypeOK ==
  /\ now \in 0..MaxTime
  /\ limited \in [Id -> Nat \cup {NoExpiry}]
  /\ op \in [Task -> Op]

(* "+1 ms so callers that sleep exactly this long clear the boundary": when  *)
(* a task's sleep ends, one of the ids its hint was about is free again,     *)
(* unless one of them has been marked anew since the hint read the clock.    *)
RetryHintSuffices ==
  \A t \in Task :
    (op[t].pc = "asleep" /\ now >= op[t].wake /\ ~op[t].disturbed)
      => \E i \in op[t].ids : ~Limited(i)

(* Whatever a provider sends as Retry-After, and however late the entry is *)
(* inserted, no id is blocked for longer than the clamp or the longest     *)
(* cooldown.                                                               *)
BlockBounded ==
  \A i \in Id :
    Limited(i) => \/ limited[i] - now <= DayMs * TicksPerMs
                  \/ \E e \in ErrorType : limited[i] - now <= Cooldown[e]

(* The hint is the earliest end, not just one of them: a task never sleeps   *)
(* past the end of a cooldown of its ids by more than the millisecond of     *)
(* rounding and the time its own reading of the map took.                    *)
SleepNotTooLong ==
  \A t \in Task :
    (op[t].pc = "hint" /\ ~op[t].disturbed)
      => \A i \in op[t].ids \ op[t].todo :
           (limited[i] # NoExpiry /\ op[t].since <= limited[i])
             => op[t].wait * TicksPerMs <= limited[i] - op[t].since + TicksPerMs
=============================================================================
