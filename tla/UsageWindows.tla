---------------------------- MODULE UsageWindows ----------------------------
(***************************************************************************)
(* The sliding-window half of crates/core/src/usage_tracker.rs: what a     *)
(* bucket remembers of finished calls, the ceiling learned from 429s, and  *)
(* the hint of when room comes back.  Every operation runs under the       *)
(* bucket's mutex, so each is an operator over the bucket's record.  Time  *)
(* passes in ticks, a minute being Span of them.  The counter of the calls *)
(* under way moves outside the mutex: release takes a call out of it first *)
(* and records the call in the windows later, with others in between.      *)
(* The one-second window is left out: a tick is longer than it.            *)
(***************************************************************************)
EXTENDS Naturals, Sequences, FiniteSets

CONSTANTS
  Span,        \* ticks in the minute of the rpm and tpm windows
  NotLearned,  \* the ceiling of a bucket that has met no 429
  MaxLearned   \* the highest ceiling learned (10000 in the code)

ASSUME UsageWindowsAssumption ==
  /\ Span \in Nat \ {0}
  /\ MaxLearned \in Nat \ {0}
  /\ NotLearned \notin Nat

(* A bucket: reservations, the ages of finished calls in each window (oldest *)
(* first), the floor of the learned ceiling and its age, and whether the     *)
(* provider has announced its limits.                                        *)
NewBucket == [in_flight |-> 0, rpm |-> <<>>, tpm |-> <<>>,
              learned |-> NotLearned, since |-> 0, announced |-> FALSE]

(* How long ago an entry came, Span + 1 being "longer ago than a minute". *)
Older(age) == IF age > Span THEN age ELSE age + 1

(* The entries at the front that are older than a minute. *)
Expired(w) == {i \in DOMAIN w : \A j \in 1..i : w[j] > Span}

(* drain_before pops them; an entry exactly a minute old still counts. *)
Drained(w) == SubSeq(w, Cardinality(Expired(w)) + 1, Len(w))

(* The entries of a window a tick later.  Expired entries leave together, so *)
(* one stands for all of them.                                               *)
AgedWindow(w) ==
  LET aged == [i \in DOMAIN w |-> Older(w[i])]
  IN  IF Expired(aged) = {} THEN aged ELSE <<Span + 1>> \o Drained(aged)

Aged(u) == [u EXCEPT !.rpm = AgedWindow(@), !.tpm = AgedWindow(@),
                     !.since = IF u.learned # NotLearned /\ @ < Span THEN @ + 1 ELSE @]

AtLeast(n, k) == IF n < k THEN k ELSE n
AtMost(n, k) == IF n < k THEN n ELSE k

SaturatingSub(n, k) == IF n >= k THEN n - k ELSE 0

(* The calls a bucket counts: those under way and those of the last minute. *)
Used(u) == u.in_flight + Len(Drained(u.rpm))

TryReserved(u) == [u EXCEPT !.in_flight = @ + 1]

(* All that cancel_reservation does, and the first that release does, ... *)
CancelledReservation(u) == [u EXCEPT !.in_flight = SaturatingSub(@, 1)]

(* ... which then locks the windows and records the call. *)
Recorded(u) == [u EXCEPT !.rpm = Append(@, 0), !.tpm = Append(@, 0)]

(* anchor_limits: what is announced is never forgotten, and the ceiling it *)
(* puts out of force is.                                                   *)
Announced(u) == [u EXCEPT !.announced = TRUE, !.learned = NotLearned, !.since = 0]

(* A plausible bug for mutation: halving may learn a ceiling of nothing. *)
HalvedToNothing(u) ==
  LET rpm == Drained(u.rpm)
      seen == IF u.learned = NotLearned THEN AtLeast(Len(rpm), 2) ELSE u.learned
  IN  [u EXCEPT !.rpm = rpm, !.learned = seen \div 2, !.since = 0]

(* A 429 of an account without known limits halves the ceiling, or learns one *)
(* from the last minute's throughput.                                         *)
Halved(u) ==
  LET rpm == Drained(u.rpm)
      seen == IF u.learned = NotLearned THEN AtLeast(Len(rpm), 2) ELSE u.learned
  IN  [u EXCEPT !.rpm = rpm, !.learned = AtLeast(seen \div 2, 1), !.since = 0]

(* A success raises a ceiling that has stood for a minute by one. *)
Raised(u) ==
  IF u.learned # NotLearned /\ u.since >= Span
  THEN [u EXCEPT !.learned = AtMost(@ + 1, MaxLearned), !.since = 0]
  ELSE u

RecordOutcome(u, rate_limit, unknown_limits) ==
  CASE rate_limit /\ unknown_limits -> Halved(u)
    [] ~rate_limit -> Raised(u)
    [] OTHER -> u

(* A plausible bug for mutation: finished calls do not count. *)
ExhaustedInFlight(u) ==
  ~u.announced /\ u.learned # NotLearned /\ u.in_flight >= u.learned

(* Limits that the provider announces put the learned ceiling out of force. *)
LearnedExhausted(u) ==
  ~u.announced /\ u.learned # NotLearned /\ Used(u) >= u.learned

(* learned_exhausted drains the request window, and headroom_fast both; the *)
(* headroom itself only scores a candidate.                                 *)
LookedAt(u) == [u EXCEPT !.rpm = Drained(@)]
Scored(u) == [u EXCEPT !.rpm = Drained(@), !.tpm = Drained(@)]

(* earliest_drain_ms_for: the ticks until the oldest entry of a window goes, *)
(* of the windows whose oldest entry has not expired undrained; a short wait *)
(* when no bucket has an entry at all; otherwise nothing.                    *)
InFlightHint == 1

Fronts(u) == {w[1] : w \in {v \in {u.rpm, u.tpm} : v # <<>>}}

EarliestDrain(buckets) ==
  LET waits == {Span + 1 - age : age \in
                  {a \in UNION {Fronts(u) : u \in buckets} : a <= Span}}
      idle == {u \in buckets : Fronts(u) = {}}
  IN  IF waits # {} THEN {n \in waits : \A k \in waits : n <= k}
      ELSE IF idle # {} THEN {InFlightHint} ELSE {}
=============================================================================
