-------------------------- MODULE RateStateProofs --------------------------
(***************************************************************************)
(* For every set of threads and ids, every table of cooldowns and every    *)
(* rounding: no block outlasts its bound, and a hint is long enough and no *)
(* longer than rounding explains.  The inductive invariant adds to the     *)
(* properties what they leave out while an operation is under way: the     *)
(* expiry worked out but not yet inserted, and the wait before the sleep.  *)
(***************************************************************************)
EXTENDS RateState, TLAPS

(* What a clock reading subtracted from a later end rounds to. *)
LEMMA RemainingMsBounds ==
  ASSUME NEW e \in Nat, NEW t \in Nat, t <= e
  PROVE  /\ RemainingMs(e, t) \in Nat
         /\ e - t < RemainingMs(e, t) * TicksPerMs
         /\ RemainingMs(e, t) * TicksPerMs <= e - t + TicksPerMs
<1> DEFINE q == (e - t) \div TicksPerMs
           r == (e - t) % TicksPerMs
<1>1. TicksPerMs \in Nat /\ TicksPerMs > 0 /\ e - t \in Nat
  BY RateStateAssumption
<1>2. q \in Int /\ r \in 0..(TicksPerMs - 1) /\ e - t = TicksPerMs * q + r
  BY <1>1
<1>3. q \in Nat
  BY <1>1, <1>2
<1>4. (q + 1) * TicksPerMs = TicksPerMs * q + TicksPerMs
  BY <1>1, <1>3
<1> QED
  BY <1>1, <1>2, <1>3, <1>4 DEF RemainingMs

(* Milliseconds keep their order as instants. *)
LEMMA TicksMonotone ==
  ASSUME NEW m \in Nat, NEW n \in Nat, m <= n
  PROVE  /\ m * TicksPerMs \in Nat
         /\ m * TicksPerMs <= n * TicksPerMs
BY RateStateAssumption
-----------------------------------------------------------------------------
(* A mark of an id turns a task's operation into another of its kind. *)
LEMMA DisturbType ==
  ASSUME NEW o \in Op, NEW i \in Id
  PROVE  Disturb(o, i) \in Op
BY DEF Disturb, Op, Idle

(* A hint that has read one id more is a hint with a wait in milliseconds. *)
LEMMA HintReadType ==
  ASSUME TypeOK, NEW t \in Task, NEW i \in Id, HintRead(t, i)
  PROVE  op'[t] \in Op
<1>1. PICK S \in SUBSET Id, R \in SUBSET Id, s \in Nat, w \in Nat \cup {NoExpiry}, d \in BOOLEAN :
        op[t] = Hint(S, R, s, w, d)
  BY DEF HintRead, TypeOK, Op, Idle, Hint
<1>2. limited[i] # NoExpiry /\ s <= limited[i] => RemainingMs(limited[i], s) \in Nat
  BY RemainingMsBounds DEF TypeOK
<1> DEFINE n == IF limited[i] # NoExpiry /\ s <= limited[i]
                THEN Sooner(RemainingMs(limited[i], s), w) ELSE w
<1>3. n \in Nat \cup {NoExpiry}
  BY <1>2 DEF Sooner
<1>4. op'[t] = Hint(S, R \ {i}, s, n, d)
  BY <1>1 DEF HintRead, Hint, TypeOK, Become
<1> HIDE DEF n
<1> QED
  BY <1>3, <1>4 DEF Hint, Op

(* Every step keeps the types. *)
LEMMA TypePreserved == TypeOK /\ [Next]_vars => TypeOK'
<1> SUFFICES ASSUME TypeOK, [Next]_vars
             PROVE  TypeOK'
  OBVIOUS
<1> USE RateStateAssumption DEF TypeOK, Become
<1>1. CASE Tick
  BY <1>1 DEF Tick
<1>2. ASSUME NEW t \in Task, NEW i \in Id, NEW d \in Nat, PlanInsert(t, i, d)
      PROVE  TypeOK'
  <2>1. [pc |-> "insert", id |-> i, expiry |-> now + d] \in Op
    BY DEF Op
  <2> QED
    BY <1>2, <2>1 DEF PlanInsert
<1>3. ASSUME NEW t \in Task, NEW i \in Id, NEW e \in ErrorType, Mark(t, i, e)
      PROVE  TypeOK'
  BY <1>2, <1>3 DEF Mark
<1>4. ASSUME NEW t \in Task, NEW i \in Id, NEW ms \in RetryAfters, MarkForMs(t, i, ms)
      PROVE  TypeOK'
  BY <1>2, <1>4, TicksMonotone DEF MarkForMs
<1>5. ASSUME NEW t \in Task, Insert(t)
      PROVE  TypeOK'
  <2>1. op[t].id \in Id /\ op[t].expiry \in Nat
    BY <1>5 DEF Insert, Op, Idle
  <2>2. \A u \in Task : Disturb(op[u], op[t].id) \in Op
    BY <2>1, DisturbType
  <2> QED
    BY <1>5, <2>1, <2>2 DEF Insert, Op
<1>6. ASSUME NEW t \in Task, NEW i \in Id, SeeExpired(t, i)
      PROVE  TypeOK'
  BY <1>6 DEF SeeExpired, Op
<1>7. ASSUME NEW t \in Task, Remove(t)
      PROVE  TypeOK'
  BY <1>7 DEF Remove, Op
<1>8. ASSUME NEW t \in Task, NEW i \in Id, Clear(t, i)
      PROVE  TypeOK'
  BY <1>8 DEF Clear
<1>9. ASSUME NEW t \in Task, NEW S \in SUBSET Id, HintStart(t, S)
      PROVE  TypeOK'
  <2>1. Hint(S, S, now, NoExpiry, FALSE) \in Op
    BY DEF Hint, Op
  <2> QED
    BY <1>9, <2>1 DEF HintStart
<1>10. ASSUME NEW t \in Task, NEW i \in Id, HintRead(t, i)
       PROVE  TypeOK'
  BY <1>10, HintReadType DEF HintRead
<1>11. ASSUME NEW t \in Task, Sleep(t)
       PROVE  TypeOK'
  <2>1. op[t].ids \in SUBSET Id /\ op[t].wait \in Nat \cup {NoExpiry} /\ op[t].disturbed \in BOOLEAN
    BY <1>11 DEF Sleep, Op, Idle
  <2>2. op[t].wait # NoExpiry => now + op[t].wait * TicksPerMs \in Nat
    BY <2>1, TicksMonotone
  <2>3. op[t].wait # NoExpiry
          => Asleep(op[t].ids, now + op[t].wait * TicksPerMs, op[t].disturbed) \in Op
    BY <2>1, <2>2 DEF Asleep, Op
  <2> QED
    BY <1>11, <2>3 DEF Sleep, Op
<1>12. ASSUME NEW t \in Task, Wake(t)
       PROVE  TypeOK'
  BY <1>12 DEF Wake, Op
<1>13. CASE UNCHANGED vars
  BY <1>13 DEF vars
<1> QED
  BY <1>1, <1>3, <1>4, <1>5, <1>6, <1>7, <1>8, <1>9, <1>10, <1>11, <1>12, <1>13
     DEF Next, TaskStep

(* Every variable keeps its type, whatever the threads do. *)
THEOREM TypeCorrect == Spec => []TypeOK
<1>1. Init => TypeOK
  BY RateStateAssumption DEF Init, TypeOK, Op
<1> QED
  BY <1>1, TypePreserved, PTL DEF Spec
-----------------------------------------------------------------------------
(* x is no later, from instant n on, than the clamp or a cooldown allows. *)
EndBounded(x, n) ==
  x - n <= DayMs * TicksPerMs \/ \E e \in ErrorType : x - n <= Cooldown[e]

(* One of S is free at instant x, if the map stays as it is. *)
FreeBy(S, x, map) == \E i \in S : map[i] = NoExpiry \/ map[i] < x

(* What a hint has found out is true of the map, so long as none of its ids *)
(* is marked anew.                                                          *)
HintSound(o, map, n) ==
  (o.pc = "hint" /\ ~o.disturbed) =>
    /\ o.since <= n /\ o.todo \subseteq o.ids
    /\ o.wait # NoExpiry => FreeBy(o.ids, o.since + o.wait * TicksPerMs, map)
    /\ \A i \in o.ids \ o.todo :
         (map[i] # NoExpiry /\ o.since <= map[i])
           => /\ o.wait # NoExpiry
              /\ o.wait * TicksPerMs <= map[i] - o.since + TicksPerMs

SleepSound(o, map) == (o.pc = "asleep" /\ ~o.disturbed) => FreeBy(o.ids, o.wake, map)

InsertSound(o, n) == o.pc = "insert" => EndBounded(o.expiry, n)

Sound(o, map, n) == HintSound(o, map, n) /\ SleepSound(o, map) /\ InsertSound(o, n)

BlocksEnd == \A i \in Id : limited[i] # NoExpiry => EndBounded(limited[i], now)

IInv == TypeOK /\ BlocksEnd /\ \A t \in Task : Sound(op[t], limited, now)

(* A bound holds all the more as time passes. *)
LEMMA EndBoundedLater ==
  ASSUME NEW x \in Nat, NEW n \in Nat, NEW k \in Nat, n <= k, EndBounded(x, n)
  PROVE  EndBounded(x, k)
<1>1. x - k <= x - n /\ DayMs * TicksPerMs \in Nat /\ \A e \in ErrorType : Cooldown[e] \in Nat
  BY RateStateAssumption, TicksMonotone
<1> QED
  BY <1>1 DEF EndBounded

(* An operation stays sound as time passes and entries go from the map. *)
LEMMA SoundKept ==
  ASSUME NEW o \in Op, NEW map \in [Id -> Nat \cup {NoExpiry}],
         NEW new \in [Id -> Nat \cup {NoExpiry}], NEW n \in Nat, NEW k \in Nat, n <= k,
         \A i \in Id : new[i] = map[i] \/ new[i] = NoExpiry,
         Sound(o, map, n)
  PROVE  Sound(o, new, k)
<1>1. CASE o.pc = "hint"
  <2>1. o.ids \in SUBSET Id /\ o.since \in Nat
    BY <1>1 DEF Op, Idle
  <2> QED
    BY <1>1, <2>1 DEF Sound, HintSound, SleepSound, InsertSound, FreeBy
<1>2. CASE o.pc = "asleep"
  <2>1. o.ids \in SUBSET Id
    BY <1>2 DEF Op, Idle
  <2> QED
    BY <1>2, <2>1 DEF Sound, HintSound, SleepSound, InsertSound, FreeBy
<1>3. CASE o.pc = "insert"
  <2>1. o.expiry \in Nat
    BY <1>3 DEF Op, Idle
  <2> QED
    BY <1>3, <2>1, EndBoundedLater DEF Sound, HintSound, SleepSound, InsertSound
<1>4. CASE o.pc \notin {"hint", "asleep", "insert"}
  BY <1>4 DEF Sound, HintSound, SleepSound, InsertSound
<1> QED
  BY <1>1, <1>2, <1>3, <1>4

(* A mark leaves sound the operations it does not disturb, and disturbs the *)
(* others.                                                                  *)
LEMMA SoundUnderMark ==
  ASSUME NEW o \in Op, NEW map \in [Id -> Nat \cup {NoExpiry}], NEW n \in Nat,
         NEW i \in Id, NEW x \in Nat, Sound(o, map, n)
  PROVE  Sound(Disturb(o, i), [map EXCEPT ![i] = x], n)
<1> DEFINE new == [map EXCEPT ![i] = x]
<1>1. CASE o.pc \in {"hint", "asleep"} /\ i \in o.ids
  <2>1. Disturb(o, i).pc = o.pc /\ Disturb(o, i).disturbed
    BY <1>1 DEF Disturb, Op, Idle
  <2> QED
    BY <1>1, <2>1 DEF Sound, HintSound, SleepSound, InsertSound
<1>2. CASE o.pc \in {"hint", "asleep"} /\ i \notin o.ids
  <2>1. Disturb(o, i) = o
    BY <1>2 DEF Disturb
  <2>2. o.ids \in SUBSET Id /\ \A j \in o.ids : new[j] = map[j]
    BY <1>2 DEF Op, Idle
  <2> QED
    BY <1>2, <2>1, <2>2 DEF Sound, HintSound, SleepSound, InsertSound, FreeBy
<1>3. CASE o.pc \notin {"hint", "asleep"}
  BY <1>3 DEF Disturb, Sound, HintSound, SleepSound, InsertSound
<1> QED
  BY <1>1, <1>2, <1>3

(* What a hint knows after one id more. *)
LEMMA HintReadSound ==
  ASSUME TypeOK, NEW t \in Task, NEW i \in Id, HintRead(t, i), Sound(op[t], limited, now)
  PROVE  Sound(op'[t], limited, now)
<1>1. PICK S \in SUBSET Id, R \in SUBSET Id, s \in Nat, w \in Nat \cup {NoExpiry}, d \in BOOLEAN :
        op[t] = Hint(S, R, s, w, d)
  BY DEF HintRead, TypeOK, Op, Idle, Hint
<1> DEFINE ms == RemainingMs(limited[i], s)
           n == IF limited[i] # NoExpiry /\ s <= limited[i] THEN Sooner(ms, w) ELSE w
<1>2. op'[t] = Hint(S, R \ {i}, s, n, d)
  BY <1>1 DEF HintRead, Hint, TypeOK, Become
<1>3. ASSUME limited[i] # NoExpiry, s <= limited[i]
      PROVE  /\ ms \in Nat
             /\ limited[i] < s + ms * TicksPerMs
             /\ ms * TicksPerMs <= limited[i] - s + TicksPerMs
  <2>1. limited[i] \in Nat
    BY <1>3 DEF TypeOK
  <2>2. ms \in Nat /\ limited[i] - s < ms * TicksPerMs
          /\ ms * TicksPerMs <= limited[i] - s + TicksPerMs
    BY <1>3, <2>1, RemainingMsBounds
  <2>3. ms * TicksPerMs \in Nat
    BY <2>2, TicksMonotone
  <2> QED
    BY <2>1, <2>2, <2>3
<1> SUFFICES ASSUME ~d
             PROVE  Sound(Hint(S, R \ {i}, s, n, d), limited, now)
  BY <1>2 DEF Sound, HintSound, SleepSound, InsertSound, Hint
<1>4. R \subseteq S /\ i \in S /\ NoExpiry \notin Nat
  BY <1>1, RateStateAssumption DEF HintRead, Hint, TypeOK, Sound, HintSound
<1>5. /\ s <= now
      /\ w # NoExpiry => FreeBy(S, s + w * TicksPerMs, limited)
      /\ \A j \in S \ R :
           (limited[j] # NoExpiry /\ s <= limited[j])
             => w # NoExpiry /\ w * TicksPerMs <= limited[j] - s + TicksPerMs
  BY <1>1 DEF Sound, HintSound, Hint
<1>6. n # NoExpiry => FreeBy(S, s + n * TicksPerMs, limited)
  BY <1>3, <1>4, <1>5 DEF Sooner, FreeBy
<1>7. ASSUME NEW j \in S \ (R \ {i}), limited[j] # NoExpiry, s <= limited[j]
      PROVE  n # NoExpiry /\ n * TicksPerMs <= limited[j] - s + TicksPerMs
  <2>1. limited[j] \in Nat /\ TicksPerMs \in Nat
    BY <1>7, RateStateAssumption DEF TypeOK
  <2>2. CASE n = w /\ j # i
    BY <1>5, <1>7, <2>2
  <2>3. CASE limited[i] # NoExpiry /\ s <= limited[i] /\ n = ms /\ j = i
    BY <1>3, <1>4, <2>3
  <2>4. CASE limited[i] # NoExpiry /\ s <= limited[i] /\ n = ms /\ j # i
    <3>1. w # NoExpiry /\ w * TicksPerMs <= limited[j] - s + TicksPerMs
      BY <1>5, <1>7, <2>4
    <3>2. ms \in Nat /\ w \in Nat /\ ms <= w
      BY <1>3, <2>4, <3>1 DEF Sooner
    <3>3. ms * TicksPerMs \in Nat /\ w * TicksPerMs \in Nat /\ ms * TicksPerMs <= w * TicksPerMs
      BY <3>2, TicksMonotone
    <3> QED
      BY <1>4, <2>1, <2>4, <3>1, <3>2, <3>3
  <2>5. CASE limited[i] # NoExpiry /\ s <= limited[i] /\ n = w /\ j = i
    <3>1. ms \in Nat /\ w \in Nat /\ w <= ms
      BY <1>3, <1>4, <2>5 DEF Sooner
    <3>2. ms * TicksPerMs \in Nat /\ w * TicksPerMs \in Nat /\ w * TicksPerMs <= ms * TicksPerMs
      BY <3>1, TicksMonotone
    <3> QED
      BY <1>3, <1>4, <2>1, <2>5, <3>1, <3>2
  <2> QED
    BY <1>7, <2>2, <2>3, <2>4, <2>5 DEF Sooner
<1> HIDE DEF n
<1> QED
  BY <1>4, <1>5, <1>6, <1>7 DEF Sound, HintSound, SleepSound, InsertSound, Hint
-----------------------------------------------------------------------------
(* A step of one task that leaves the map and the clock alone, or only      *)
(* removes an entry, has the others' operations as they were.               *)
LEMMA StepOfOne ==
  ASSUME IInv, TypeOK', NEW t \in Task, now' = now,
         \A i \in Id : limited'[i] = limited[i] \/ limited'[i] = NoExpiry,
         \A u \in Task \ {t} : op'[u] = op[u],
         Sound(op'[t], limited', now)
  PROVE  IInv'
<1>1. BlocksEnd'
  BY DEF IInv, BlocksEnd
<1>2. ASSUME NEW u \in Task \ {t}
      PROVE  Sound(op[u], limited', now)
  BY SoundKept DEF IInv, TypeOK
<1> QED
  BY <1>1, <1>2 DEF IInv

(* The strengthened invariant is inductive. *)
LEMMA IInvPreserved == IInv /\ [Next]_vars => IInv'
<1> SUFFICES ASSUME IInv, [Next]_vars
             PROVE  IInv'
  OBVIOUS
<1>t. TypeOK /\ TypeOK'
  BY TypePreserved DEF IInv
<1>i. Sound(Idle, limited', now)
  BY DEF Idle, Sound, HintSound, SleepSound, InsertSound
<1>1. CASE Tick
  <2>1. now \in Nat /\ now' \in Nat /\ now <= now' /\ limited' = limited /\ op' = op
    BY <1>1, <1>t, RateStateAssumption DEF Tick, TypeOK
  <2>2. BlocksEnd'
    BY <1>t, <2>1, EndBoundedLater DEF IInv, BlocksEnd, TypeOK
  <2>3. \A t \in Task : Sound(op[t], limited, now')
    BY <1>t, <2>1, SoundKept DEF IInv, TypeOK
  <2> QED
    BY <1>t, <2>1, <2>2, <2>3 DEF IInv
<1>2. ASSUME NEW t \in Task, NEW i \in Id, NEW d \in Nat, PlanInsert(t, i, d),
             d <= DayMs * TicksPerMs \/ \E e \in ErrorType : d <= Cooldown[e]
      PROVE  IInv'
  <2>1. op'[t] = [pc |-> "insert", id |-> i, expiry |-> now + d]
    BY <1>2, <1>t DEF PlanInsert, Become, TypeOK
  <2>2. (now + d) - now = d
    BY <1>t, RateStateAssumption DEF TypeOK
  <2>3. Sound(op'[t], limited', now)
    BY <1>2, <2>1, <2>2 DEF Sound, HintSound, SleepSound, InsertSound, EndBounded
  <2> QED
    BY <1>2, <1>t, <2>3, StepOfOne DEF PlanInsert, Become, TypeOK
<1>3. ASSUME NEW t \in Task, NEW i \in Id, NEW e \in ErrorType, Mark(t, i, e)
      PROVE  IInv'
  BY <1>2, <1>3, RateStateAssumption DEF Mark
<1>4. ASSUME NEW t \in Task, NEW i \in Id, NEW ms \in RetryAfters, MarkForMs(t, i, ms)
      PROVE  IInv'
  <2> DEFINE clamped == IF ms <= DayMs THEN ms ELSE DayMs
  <2>1. clamped \in Nat /\ DayMs \in Nat /\ clamped <= DayMs
    BY RateStateAssumption
  <2>2. clamped * TicksPerMs \in Nat /\ clamped * TicksPerMs <= DayMs * TicksPerMs
    BY <2>1, TicksMonotone
  <2> QED
    BY <1>2, <1>4, <2>2 DEF MarkForMs
<1>5. ASSUME NEW t \in Task, Insert(t)
      PROVE  IInv'
  <2>1. op[t].id \in Id /\ op[t].expiry \in Nat /\ op[t].pc = "insert" /\ now \in Nat
    BY <1>5, <1>t, RateStateAssumption DEF Insert, Op, Idle, TypeOK
  <2>2. EndBounded(op[t].expiry, now)
    BY <2>1 DEF IInv, Sound, InsertSound
  <2>3. BlocksEnd'
    BY <1>5, <1>t, <2>1, <2>2 DEF Insert, IInv, BlocksEnd, TypeOK
  <2>4. \A u \in Task : Sound(Disturb(op[u], op[t].id), limited', now)
    BY <1>5, <1>t, <2>1, SoundUnderMark DEF Insert, IInv, TypeOK
  <2>5. \A u \in Task : Sound(op'[u], limited', now')
    BY <1>5, <1>i, <2>4 DEF Insert
  <2> QED
    BY <1>t, <2>3, <2>5 DEF IInv
<1>6. ASSUME NEW t \in Task, NEW i \in Id, SeeExpired(t, i)
      PROVE  IInv'
  <2>1. op'[t] = [pc |-> "remove", id |-> i]
    BY <1>6, <1>t DEF SeeExpired, Become, TypeOK
  <2>2. Sound(op'[t], limited', now)
    BY <2>1 DEF Sound, HintSound, SleepSound, InsertSound
  <2> QED
    BY <1>6, <1>t, <2>2, StepOfOne DEF SeeExpired, Become, TypeOK
<1>7. ASSUME NEW t \in Task, Remove(t)
      PROVE  IInv'
  BY <1>7, <1>t, <1>i, StepOfOne DEF Remove, Become, TypeOK
<1>8. ASSUME NEW t \in Task, NEW i \in Id, Clear(t, i)
      PROVE  IInv'
  BY <1>8, <1>t, <1>i, StepOfOne DEF Clear, TypeOK
<1>9. ASSUME NEW t \in Task, NEW S \in SUBSET Id, HintStart(t, S)
      PROVE  IInv'
  <2>1. op'[t] = Hint(S, S, now, NoExpiry, FALSE)
    BY <1>9, <1>t DEF HintStart, Become, TypeOK
  <2>2. Sound(op'[t], limited', now)
    BY <2>1, <1>t DEF Hint, Sound, HintSound, SleepSound, InsertSound, TypeOK
  <2> QED
    BY <1>9, <1>t, <2>2, StepOfOne DEF HintStart, Become, TypeOK
<1>10. ASSUME NEW t \in Task, NEW i \in Id, HintRead(t, i)
       PROVE  IInv'
  <2>1. Sound(op'[t], limited', now)
    BY <1>10, <1>t, HintReadSound DEF HintRead, IInv
  <2> QED
    BY <1>10, <1>t, <2>1, StepOfOne DEF HintRead, Become, TypeOK
<1>11. ASSUME NEW t \in Task, Sleep(t)
       PROVE  IInv'
  <2> DEFINE o == op[t]
             wake == now + o.wait * TicksPerMs
  <2>1. /\ o.pc = "hint" /\ o.ids \in SUBSET Id /\ o.since \in Nat
        /\ o.wait \in Nat \cup {NoExpiry}
    BY <1>11, <1>t DEF Sleep, TypeOK, Op, Idle
  <2>2. ASSUME o.wait # NoExpiry
        PROVE  Sound(Asleep(o.ids, wake, o.disturbed), limited, now)
    <3>1. ~o.disturbed => FreeBy(o.ids, o.since + o.wait * TicksPerMs, limited) /\ o.since <= now
      BY <2>1, <2>2 DEF IInv, Sound, HintSound
    <3>2. o.wait * TicksPerMs \in Nat /\ now \in Nat
      BY <1>t, <2>1, <2>2, TicksMonotone, RateStateAssumption DEF TypeOK
    <3>3. ~o.disturbed => o.since + o.wait * TicksPerMs <= wake
      BY <2>1, <3>1, <3>2
    <3>4. ~o.disturbed => FreeBy(o.ids, wake, limited)
      BY <1>t, <2>1, <3>1, <3>2, <3>3 DEF FreeBy, TypeOK
    <3> QED
      BY <3>4 DEF Asleep, Sound, HintSound, SleepSound, InsertSound
  <2>3. Sound(op'[t], limited', now)
    BY <1>11, <1>t, <1>i, <2>2 DEF Sleep, Become, TypeOK
  <2> QED
    BY <1>11, <1>t, <2>3, StepOfOne DEF Sleep, Become, TypeOK
<1>12. ASSUME NEW t \in Task, Wake(t)
       PROVE  IInv'
  BY <1>12, <1>t, <1>i, StepOfOne DEF Wake, Become, TypeOK
<1>13. CASE UNCHANGED vars
  BY <1>13, <1>t DEF vars, IInv, BlocksEnd
<1> QED
  BY <1>1, <1>3, <1>4, <1>5, <1>6, <1>7, <1>8, <1>9, <1>10, <1>11, <1>12, <1>13
     DEF Next, TaskStep

(* The strengthened invariant holds of every reachable state. *)
THEOREM Invariance == Spec => []IInv
<1>1. Init => IInv
  BY RateStateAssumption
     DEF Init, IInv, TypeOK, Op, Idle, BlocksEnd, Sound, HintSound, SleepSound, InsertSound
<1> QED
  BY <1>1, IInvPreserved, PTL DEF Spec

(* No Retry-After and no late insertion blocks an id for longer than the    *)
(* clamp of a day or the longest cooldown, for any table of cooldowns.      *)
THEOREM BlockBoundedCorrect == Spec => []BlockBounded
<1>1. IInv => BlockBounded
  BY DEF IInv, BlocksEnd, BlockBounded, EndBounded, Limited
<1> QED
  BY <1>1, Invariance, PTL

(* Whatever the rounding to milliseconds, a task that slept as long as its  *)
(* hint said finds one of the hint's ids free, unless one was marked anew.  *)
THEOREM RetryHintCorrect == Spec => []RetryHintSuffices
<1>1. ASSUME IInv
      PROVE  RetryHintSuffices
  <2>1. SUFFICES ASSUME NEW t \in Task, op[t].pc = "asleep", now >= op[t].wake, ~op[t].disturbed
                 PROVE  \E i \in op[t].ids : ~Limited(i)
    BY DEF RetryHintSuffices
  <2>2. op[t].ids \in SUBSET Id /\ op[t].wake \in Nat /\ now \in Nat
    BY <1>1, <2>1, RateStateAssumption DEF IInv, TypeOK, Op, Idle
  <2>3. FreeBy(op[t].ids, op[t].wake, limited)
    BY <1>1, <2>1 DEF IInv, Sound, SleepSound
  <2> QED
    BY <1>1, <2>1, <2>2, <2>3 DEF IInv, TypeOK, FreeBy, Limited
<1> QED
  BY <1>1, Invariance, PTL

(* Nor is it longer than the earliest end of a cooldown asks for, by more   *)
(* than the millisecond of rounding.                                        *)
THEOREM SleepNotTooLongCorrect == Spec => []SleepNotTooLong
<1>1. IInv => SleepNotTooLong
  BY DEF IInv, Sound, HintSound, SleepNotTooLong
<1> QED
  BY <1>1, Invariance, PTL
=============================================================================
