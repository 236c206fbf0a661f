-------------------------- MODULE SplitFlowProofs --------------------------
(***************************************************************************)
(* For any clients, threads, models, limits and number of faults: what the *)
(* server counts for a model against the calls that are under way, the     *)
(* learned ceiling against the selects that race for it, and where a retry *)
(* goes.                                                                   *)
(*                                                                         *)
(* Balanced, that the counter of a model and the calls it is due for       *)
(* differ at most by the reports that came for no slot, is inductive with  *)
(* the types.  The ceiling needs Within: while selects race for a model    *)
(* the finished calls of its window, the slots that are due, the selects   *)
(* themselves and the calls a report has taken out of one count and not    *)
(* put into the other stay within the ceiling one of the selects saw.      *)
(* Reserving, giving back and recording only move a call within that sum,  *)
(* and a client that gives up on a job hands its part of it to the thread  *)
(* that goes on.                                                           *)
(***************************************************************************)
EXTENDS SplitFlow, FiniteSetTheorems, SequenceTheorems, TLAPS

(* A window is a sequence of ages. *)
LEMMA WindowType ==
  ASSUME NEW w \in Window
  PROVE  /\ Len(w) \in Nat /\ DOMAIN w = 1..Len(w)
         /\ w \in [1..Len(w) -> 0..(Span + 1)]
         /\ \A i \in 1..Len(w) : w[i] \in 0..(Span + 1)
BY LenProperties, ElementOfSeq DEF Window

(* A window without its expired entries is a window, as much shorter. *)
LEMMA DrainedType ==
  ASSUME NEW w \in Window
  PROVE  /\ IsFiniteSet(Expired(w)) /\ Expired(w) \subseteq 1..Len(w)
         /\ Cardinality(Expired(w)) \in 0..Len(w)
         /\ Drained(w) \in Window
         /\ Len(Drained(w)) = Len(w) - Cardinality(Expired(w))
<1>0. Len(w) \in Nat /\ DOMAIN w = 1..Len(w) /\ \A i \in 1..Len(w) : w[i] \in 0..(Span + 1)
  BY WindowType
<1>1. Expired(w) \subseteq 1..Len(w)
  BY <1>0 DEF Expired
<1>2. IsFiniteSet(1..Len(w)) /\ Cardinality(1..Len(w)) = Len(w)
  <2>1. /\ IsFiniteSet(1..Len(w))
        /\ Cardinality(1..Len(w)) = IF 1 > Len(w) THEN 0 ELSE Len(w) - 1 + 1
    <3>1. 1 \in Int /\ Len(w) \in Int
      BY <1>0
    <3> QED
      BY <3>1, FS_Interval
  <2> QED
    BY <1>0, <2>1
<1>3. IsFiniteSet(Expired(w)) /\ Cardinality(Expired(w)) <= Len(w)
  BY <1>1, <1>2, FS_Subset
<1>4. Cardinality(Expired(w)) \in 0..Len(w)
  BY <1>0, <1>3, FS_CardinalityType
<1> DEFINE n == Cardinality(Expired(w))
<1>5. /\ SubSeq(w, n + 1, Len(w)) \in Window
      /\ Len(SubSeq(w, n + 1, Len(w))) = Len(w) - n
  <2> HIDE DEF n
  <2>1. n \in Nat /\ n + 1 \in 1..(Len(w) + 1)
    BY <1>0, <1>4 DEF n
  <2>2. Len(w) \in Int /\ n + 1 \in Int /\ n <= Len(w)
    BY <1>0, <2>1
  <2>3. \A i \in (n + 1)..Len(w) : w[i] \in 0..(Span + 1)
    BY <1>0, <2>1
  <2>4. /\ SubSeq(w, n + 1, Len(w)) \in Seq(0..(Span + 1))
        /\ Len(SubSeq(w, n + 1, Len(w))) = IF n + 1 <= Len(w) THEN Len(w) - (n + 1) + 1 ELSE 0
    BY <2>2, <2>3, SubSeqProperties
  <2>5. (IF n + 1 <= Len(w) THEN Len(w) - (n + 1) + 1 ELSE 0) = Len(w) - n
    <3>1. ASSUME NEW l \in Nat, NEW k \in 0..l
          PROVE  (IF k + 1 <= l THEN l - (k + 1) + 1 ELSE 0) = l - k
      OBVIOUS
    <3>2. n \in 0..Len(w)
      BY <1>4 DEF n
    <3> QED
      BY <1>0, <3>1, <3>2
  <2> QED
    BY <2>4, <2>5 DEF Window
<1> QED
  BY <1>1, <1>3, <1>4, <1>5 DEF Drained

(* The more of a window has expired, the less of it counts. *)
LEMMA ExpiredMore ==
  ASSUME NEW v \in Window, NEW w \in Window, Expired(v) \subseteq Expired(w)
  PROVE  Cardinality(Expired(v)) <= Cardinality(Expired(w))
BY DrainedType, FS_Subset

(* One call more counts at most once more. *)
LEMMA DrainedAppend ==
  ASSUME NEW w \in Window
  PROVE  /\ Append(w, 0) \in Window
         /\ Len(Drained(Append(w, 0))) <= Len(Drained(w)) + 1
<1>1. /\ Append(w, 0) \in Window /\ Len(Append(w, 0)) = Len(w) + 1
      /\ \A i \in 1..Len(w) : Append(w, 0)[i] = w[i]
  <2>1. 0 \in 0..(Span + 1)
    BY UsageWindowsAssumption
  <2> QED
    BY <2>1, AppendProperties DEF Window
<1>2. Expired(w) \subseteq Expired(Append(w, 0))
  <2>1. /\ Len(w) \in Nat /\ DOMAIN w = 1..Len(w)
        /\ DOMAIN Append(w, 0) = 1..(Len(w) + 1)
    BY <1>1, WindowType
  <2> QED
    BY <1>1, <2>1 DEF Expired
<1>3. Cardinality(Expired(w)) <= Cardinality(Expired(Append(w, 0)))
  BY <1>1, <1>2, ExpiredMore
<1>4. /\ Len(Drained(w)) = Len(w) - Cardinality(Expired(w))
      /\ Cardinality(Expired(w)) \in 0..Len(w) /\ Len(w) \in Nat
  BY DrainedType, WindowType
<1>5. /\ Len(Drained(Append(w, 0))) = Len(w) + 1 - Cardinality(Expired(Append(w, 0)))
      /\ Cardinality(Expired(Append(w, 0))) \in 0..(Len(w) + 1)
  <2> DEFINE v == Append(w, 0)
  <2>1. v \in Window /\ Len(v) = Len(w) + 1
    BY <1>1
  <2> HIDE DEF v
  <2>2. /\ Len(Drained(v)) = Len(v) - Cardinality(Expired(v))
        /\ Cardinality(Expired(v)) \in 0..Len(v)
    BY <2>1, DrainedType
  <2>3. /\ Len(Drained(v)) = Len(w) + 1 - Cardinality(Expired(v))
        /\ Cardinality(Expired(v)) \in 0..(Len(w) + 1)
    BY <2>1, <2>2
  <2> QED
    BY <2>3 DEF v
<1> DEFINE a == Cardinality(Expired(w))
           b == Cardinality(Expired(Append(w, 0)))
<1>6. a \in Nat /\ b \in Nat /\ a <= b /\ Len(w) \in Nat
  BY <1>3, <1>4, <1>5
<1> HIDE DEF a, b
<1>7. Len(w) + 1 - b <= Len(w) - a + 1
  BY <1>6
<1> QED
  BY <1>1, <1>4, <1>5, <1>7 DEF a, b

(* Nothing is left to drain a second time. *)
LEMMA DrainedTwice ==
  ASSUME NEW w \in Window
  PROVE  Len(Drained(Drained(w))) <= Len(Drained(w))
BY DrainedType

(* Time only takes calls out of a window. *)
LEMMA DrainedAged ==
  ASSUME NEW w \in Window
  PROVE  /\ AgedWindow(w) \in Window
         /\ Len(Drained(AgedWindow(w))) <= Len(Drained(w))
<1> DEFINE aged == [i \in DOMAIN w |-> Older(w[i])]
<1>0. Span \in Nat
  BY UsageWindowsAssumption
<1>1. aged \in Window /\ Len(aged) = Len(w) /\ DOMAIN aged = DOMAIN w
      /\ \A i \in DOMAIN w : aged[i] = Older(w[i])
  <2>1. \A a \in 0..(Span + 1) : Older(a) \in 0..(Span + 1)
    BY <1>0 DEF Older
  <2>2. Len(w) \in Nat /\ DOMAIN w = 1..Len(w) /\ \A i \in 1..Len(w) : w[i] \in 0..(Span + 1)
    BY WindowType
  <2>3. aged \in [1..Len(w) -> 0..(Span + 1)]
    BY <2>1, <2>2
  <2>4. aged \in Window
    BY <2>2, <2>3, SeqDef DEF Window
  <2>5. Len(aged) = Len(w)
    BY <2>2, <2>3, <2>4, LenProperties DEF Window
  <2> QED
    BY <2>2, <2>3, <2>4, <2>5
<1> HIDE DEF aged
<1>2. Expired(w) \subseteq Expired(aged)
  <2>1. \A a \in 0..(Span + 1) : a > Span => Older(a) > Span
    BY <1>0 DEF Older
  <2>2. \A i \in DOMAIN w : w[i] \in 0..(Span + 1)
    BY WindowType
  <2>3. \A i \in DOMAIN w : \A j \in 1..i : j \in DOMAIN w
    BY WindowType
  <2> QED
    BY <1>1, <2>1, <2>2, <2>3 DEF Expired
<1>3. Len(Drained(aged)) <= Len(Drained(w))
  <2>1. Cardinality(Expired(w)) <= Cardinality(Expired(aged))
    BY <1>1, <1>2, ExpiredMore
  <2>2. /\ Len(Drained(w)) = Len(w) - Cardinality(Expired(w))
        /\ Cardinality(Expired(w)) \in 0..Len(w) /\ Len(w) \in Nat
    BY DrainedType, WindowType
  <2>3. /\ Len(Drained(aged)) = Len(w) - Cardinality(Expired(aged))
        /\ Cardinality(Expired(aged)) \in 0..Len(w)
    BY <1>1, DrainedType
  <2> QED
    BY <2>1, <2>2, <2>3
<1>4. CASE Expired(aged) = {}
  BY <1>1, <1>3, <1>4 DEF AgedWindow, aged
<1>5. CASE Expired(aged) # {}
  <2> DEFINE v == <<Span + 1>> \o Drained(aged)
  <2>1. v \in Window /\ Len(v) = Len(Drained(aged)) + 1 /\ v[1] = Span + 1
    <3>0. Span + 1 \in 0..(Span + 1)
      BY <1>0
    <3>1. Drained(aged) \in Seq(0..(Span + 1)) /\ <<Span + 1>> \in Seq(0..(Span + 1))
      BY <1>1, <3>0, DrainedType DEF Window
    <3>2. Len(<<Span + 1>>) = 1 /\ Len(Drained(aged)) \in Nat
      BY <3>1, LenProperties
    <3> QED
      BY <3>1, <3>2, ConcatProperties DEF Window
  <2>2. AgedWindow(w) = v
    BY <1>5 DEF AgedWindow, aged
  <2> HIDE DEF v
  <2>3. 1 \in Expired(v)
    <3>1. 1 \in DOMAIN v
      BY <1>1, <2>1, WindowType, DrainedType
    <3> QED
      BY <1>0, <2>1, <3>1 DEF Expired
  <2>4. Cardinality(Expired(v)) # 0
    BY <2>1, <2>3, DrainedType, FS_EmptySet
  <2>5. Cardinality(Expired(v)) >= 1 /\ Len(Drained(v)) = Len(v) - Cardinality(Expired(v))
    BY <2>1, <2>4, DrainedType
  <2>6. Len(Drained(aged)) \in Nat /\ Len(Drained(w)) \in Nat
    <3>1. Drained(aged) \in Window /\ Drained(w) \in Window
      BY <1>1, DrainedType
    <3> QED
      BY <3>1, WindowType
  <2>7. Len(Drained(v)) <= Len(Drained(aged))
    <3> DEFINE k == Cardinality(Expired(v))
               l == Len(Drained(aged))
    <3>1. k \in Nat /\ l \in Nat /\ k >= 1 /\ Len(Drained(v)) = l + 1 - k
      <4>1. k \in Nat
        BY <2>1, DrainedType, FS_CardinalityType
      <4>2. k >= 1 /\ Len(Drained(v)) = l + 1 - k
        BY <2>1, <2>5, <2>6, <4>1
      <4> QED
        BY <2>6, <4>1, <4>2
    <3> HIDE DEF k, l
    <3>2. l + 1 - k <= l
      BY <3>1
    <3> QED
      BY <3>1, <3>2 DEF l
  <2>8. Len(Drained(v)) \in Nat
    BY <2>1, DrainedType, WindowType
  <2>9. Len(Drained(v)) <= Len(Drained(w))
    BY <1>3, <2>6, <2>7, <2>8
  <2> QED
    BY <2>1, <2>2, <2>9
<1> QED
  BY <1>4, <1>5
-----------------------------------------------------------------------------
(* What the operations on a bucket do to its counter, its window and its     *)
(* ceiling: each lemma is about one operator of UsageWindows.                *)
Calls(u) == Len(Drained(u.rpm))

(* v has a ceiling where u has, and no higher one. *)
NoHigher(u, v) ==
  /\ u.learned # NotLearned => v.learned # NotLearned /\ v.learned <= u.learned
  /\ v.announced = u.announced

(* The fields of a bucket. *)
LEMMA UsageFields ==
  ASSUME NEW u \in Usage
  PROVE  /\ u.in_flight \in Nat /\ u.rpm \in Window /\ u.tpm \in Window
         /\ u.learned \in (Nat \ {0}) \cup {NotLearned} /\ u.since \in 0..Span
         /\ u.announced \in BOOLEAN /\ Calls(u) \in Nat /\ NoHigher(u, u)
<1>1. /\ u.in_flight \in Nat /\ u.rpm \in Window /\ u.tpm \in Window
      /\ u.learned \in (Nat \ {0}) \cup {NotLearned} /\ u.since \in 0..Span
      /\ u.announced \in BOOLEAN
  BY DEF Usage
<1>2. u.learned # NotLearned => u.learned <= u.learned
  BY <1>1
<1>3. Calls(u) \in Nat
  BY <1>1, DrainedType, WindowType DEF Calls
<1> QED
  BY <1>1, <1>2, <1>3 DEF NoHigher

(* A new bucket counts nothing. *)
LEMMA NewBucketForm ==
  NewBucket \in Usage /\ NewBucket.in_flight = 0
<1>1. <<>> \in Window
  BY EmptySeq DEF Window
<1>2. 0 \in 0..Span
  BY UsageWindowsAssumption
<1> QED
  BY <1>1, <1>2 DEF NewBucket, Usage

(* Looking at a bucket only drains it. *)
LEMMA LookedAtForm ==
  ASSUME NEW u \in Usage
  PROVE  /\ LookedAt(u) \in Usage /\ Scored(u) \in Usage
         /\ LookedAt(u).in_flight = u.in_flight /\ Scored(u).in_flight = u.in_flight
         /\ LookedAt(u).learned = u.learned /\ Scored(u).learned = u.learned
         /\ LookedAt(u).announced = u.announced /\ Scored(u).announced = u.announced
         /\ Calls(LookedAt(u)) <= Calls(u) /\ Calls(Scored(u)) <= Calls(u)
<1>1. u.rpm \in Window /\ Drained(u.rpm) \in Window /\ Drained(u.tpm) \in Window
  BY UsageFields, DrainedType
<1>2. Len(Drained(Drained(u.rpm))) <= Len(Drained(u.rpm))
  BY <1>1, DrainedTwice
<1>3. /\ LookedAt(u) \in Usage /\ LookedAt(u).in_flight = u.in_flight
      /\ LookedAt(u).learned = u.learned /\ LookedAt(u).announced = u.announced
      /\ LookedAt(u).rpm = Drained(u.rpm)
  BY <1>1 DEF LookedAt, Usage
<1>4. /\ Scored(u) \in Usage /\ Scored(u).in_flight = u.in_flight
      /\ Scored(u).learned = u.learned /\ Scored(u).announced = u.announced
      /\ Scored(u).rpm = Drained(u.rpm)
  BY <1>1 DEF Scored, Usage
<1> QED
  BY <1>2, <1>3, <1>4 DEF Calls

(* A tick ages the calls of a bucket and the time its ceiling has stood. *)
LEMMA AgedForm ==
  ASSUME NEW u \in Usage
  PROVE  /\ Aged(u) \in Usage /\ Aged(u).in_flight = u.in_flight
         /\ Calls(Aged(u)) <= Calls(u) /\ NoHigher(u, Aged(u))
<1>1. u.rpm \in Window /\ AgedWindow(u.rpm) \in Window /\ AgedWindow(u.tpm) \in Window
  BY UsageFields, DrainedAged
<1>2. Len(Drained(AgedWindow(u.rpm))) <= Len(Drained(u.rpm))
  BY <1>1, DrainedAged
<1> DEFINE s == IF u.learned # NotLearned /\ u.since < Span THEN u.since + 1 ELSE u.since
<1>3. s \in 0..Span
  BY UsageFields, UsageWindowsAssumption
<1>4. Aged(u) = [u EXCEPT !.rpm = AgedWindow(u.rpm), !.tpm = AgedWindow(u.tpm), !.since = s]
  BY DEF Aged
<1> HIDE DEF s
<1>5. /\ Aged(u) \in Usage /\ Aged(u).rpm = AgedWindow(u.rpm)
      /\ Aged(u).in_flight = u.in_flight /\ Aged(u).learned = u.learned
      /\ Aged(u).announced = u.announced
  BY <1>1, <1>3, <1>4 DEF Usage
<1>6. u.learned # NotLearned => u.learned <= u.learned
  BY UsageFields
<1> QED
  BY <1>2, <1>5, <1>6 DEF Calls, NoHigher

(* A reservation is counted, a cancelled one is not. *)
LEMMA ReservationForm ==
  ASSUME NEW u \in Usage
  PROVE  /\ TryReserved(u) \in Usage /\ TryReserved(u).in_flight = u.in_flight + 1
         /\ TryReserved(u).rpm = u.rpm /\ NoHigher(u, TryReserved(u))
         /\ CancelledReservation(u) \in Usage
         /\ CancelledReservation(u).in_flight = SaturatingSub(u.in_flight, 1)
         /\ CancelledReservation(u).rpm = u.rpm
         /\ NoHigher(u, CancelledReservation(u))
<1>1. u.in_flight + 1 \in Nat /\ SaturatingSub(u.in_flight, 1) \in Nat
  BY UsageFields DEF SaturatingSub
<1>2. /\ TryReserved(u) \in Usage /\ TryReserved(u).in_flight = u.in_flight + 1
      /\ TryReserved(u).rpm = u.rpm /\ TryReserved(u).learned = u.learned
      /\ TryReserved(u).announced = u.announced
  BY <1>1 DEF TryReserved, Usage
<1>3. /\ CancelledReservation(u) \in Usage
      /\ CancelledReservation(u).in_flight = SaturatingSub(u.in_flight, 1)
      /\ CancelledReservation(u).rpm = u.rpm /\ CancelledReservation(u).learned = u.learned
      /\ CancelledReservation(u).announced = u.announced
  BY <1>1 DEF CancelledReservation, Usage
<1> QED
  BY <1>2, <1>3, UsageFields DEF NoHigher

(* A call that is recorded is one more in the window. *)
LEMMA RecordedForm ==
  ASSUME NEW u \in Usage
  PROVE  /\ Recorded(u) \in Usage /\ Recorded(u).in_flight = u.in_flight
         /\ NoHigher(u, Recorded(u)) /\ Calls(Recorded(u)) <= Calls(u) + 1
<1>1. Append(u.rpm, 0) \in Window /\ Append(u.tpm, 0) \in Window
  BY UsageFields, DrainedAppend
<1>2. Len(Drained(Append(u.rpm, 0))) <= Len(Drained(u.rpm)) + 1
  BY UsageFields, DrainedAppend
<1>3. /\ Recorded(u) \in Usage /\ Recorded(u).in_flight = u.in_flight
      /\ Recorded(u).learned = u.learned /\ Recorded(u).announced = u.announced
      /\ Recorded(u).rpm = Append(u.rpm, 0)
  BY <1>1 DEF Recorded, Usage
<1> QED
  BY <1>2, <1>3, UsageFields DEF Calls, NoHigher

(* Halving never raises a ceiling and leaves one of at least one call. *)
LEMMA HalvedForm ==
  ASSUME NEW u \in Usage
  PROVE  /\ Halved(u) \in Usage /\ Halved(u).in_flight = u.in_flight
         /\ Calls(Halved(u)) <= Calls(u) /\ NoHigher(u, Halved(u))
<1>1. u.rpm \in Window /\ Drained(u.rpm) \in Window /\ Len(Drained(u.rpm)) \in Nat
  BY UsageFields, DrainedType, WindowType
<1>2. Len(Drained(Drained(u.rpm))) <= Len(Drained(u.rpm))
  BY <1>1, DrainedTwice
<1> DEFINE seen == IF u.learned = NotLearned THEN AtLeast(Len(Drained(u.rpm)), 2) ELSE u.learned
           l == AtLeast(seen \div 2, 1)
<1>3. seen \in Nat /\ seen >= 1 /\ (u.learned # NotLearned => seen = u.learned)
  BY <1>1, UsageFields DEF AtLeast
<1> HIDE DEF seen
<1>4. seen \div 2 \in Nat /\ seen \div 2 <= seen
  BY <1>3
<1>5. l \in Nat \ {0} /\ l <= seen
  BY <1>3, <1>4 DEF AtLeast
<1>6. Halved(u) = [u EXCEPT !.rpm = Drained(u.rpm), !.learned = l, !.since = 0]
  BY DEF Halved, seen
<1> HIDE DEF l
<1>7. 0 \in 0..Span
  BY UsageWindowsAssumption
<1>8. /\ Halved(u) \in Usage /\ Halved(u).in_flight = u.in_flight
      /\ Halved(u).learned = l /\ Halved(u).rpm = Drained(u.rpm)
      /\ Halved(u).announced = u.announced
  BY <1>1, <1>5, <1>6, <1>7 DEF Usage
<1>9. l # NotLearned
  BY <1>5, UsageWindowsAssumption
<1> QED
  BY <1>2, <1>3, <1>5, <1>8, <1>9 DEF Calls, NoHigher

(* A success leaves a ceiling where there is one, and touches nothing else. *)
LEMMA RaisedForm ==
  ASSUME NEW u \in Usage
  PROVE  LET v == RecordOutcome(u, FALSE, FALSE) IN
         /\ v \in Usage /\ v.in_flight = u.in_flight /\ v.rpm = u.rpm
         /\ v.announced = u.announced
         /\ u.learned # NotLearned => v.learned # NotLearned
<1>0. RecordOutcome(u, FALSE, FALSE) = Raised(u)
  BY DEF RecordOutcome
<1>1. CASE u.learned # NotLearned /\ u.since >= Span
  <2>1. u.learned \in Nat \ {0}
    BY <1>1, UsageFields
  <2>2. AtMost(u.learned + 1, MaxLearned) \in Nat \ {0}
    BY <2>1, UsageWindowsAssumption DEF AtMost
  <2>3. 0 \in 0..Span /\ AtMost(u.learned + 1, MaxLearned) # NotLearned
    BY <2>2, UsageWindowsAssumption
  <2> DEFINE l == AtMost(u.learned + 1, MaxLearned)
             v == [u EXCEPT !.learned = l, !.since = 0]
  <2>4. Raised(u) = v
    BY <1>1 DEF Raised
  <2> HIDE DEF l
  <2>5. v \in Usage /\ v.in_flight = u.in_flight /\ v.rpm = u.rpm
        /\ v.announced = u.announced /\ v.learned = l
    BY <2>2, <2>3 DEF Usage, l
  <2> QED
    BY <1>0, <2>3, <2>4, <2>5 DEF l
<1>2. CASE ~(u.learned # NotLearned /\ u.since >= Span)
  BY <1>0, <1>2 DEF Raised
<1> QED
  BY <1>1, <1>2

(* Announced limits leave the counts alone. *)
LEMMA AnnouncedForm ==
  ASSUME NEW u \in Usage
  PROVE  /\ Announced(u) \in Usage /\ Announced(u).in_flight = u.in_flight
         /\ Announced(u).rpm = u.rpm /\ Announced(u).announced
<1>1. 0 \in 0..Span
  BY UsageWindowsAssumption
<1> QED
  BY <1>1 DEF Announced, Usage

(* A report of a failure takes a slot from the counter, counts no call more *)
(* and never raises the ceiling.                                            *)
LEMMA AfterFailureForm ==
  ASSUME NEW u \in Usage, NEW kind, NEW unknown \in BOOLEAN
  PROVE  /\ AfterFailure(u, kind, unknown) \in Usage
         /\ AfterFailure(u, kind, unknown).in_flight = SaturatingSub(u.in_flight, 1)
         /\ Calls(AfterFailure(u, kind, unknown)) <= Calls(u)
         /\ NoHigher(u, AfterFailure(u, kind, unknown))
<1> DEFINE h == IF kind = "rate_limit" THEN RecordOutcome(u, TRUE, unknown) ELSE u
<1>1. h \in {u, Halved(u)}
  BY DEF RecordOutcome
<1>2. AfterFailure(u, kind, unknown) = CancelledReservation(h)
  BY DEF AfterFailure
<1> HIDE DEF h
<1>3. /\ h \in Usage /\ h.in_flight = u.in_flight
      /\ Calls(h) <= Calls(u) /\ NoHigher(u, h)
  BY <1>1, HalvedForm, UsageFields
<1>4. /\ CancelledReservation(h) \in Usage
      /\ CancelledReservation(h).in_flight = SaturatingSub(h.in_flight, 1)
      /\ Calls(CancelledReservation(h)) = Calls(h)
      /\ NoHigher(h, CancelledReservation(h))
  BY <1>3, ReservationForm DEF Calls
<1>5. NoHigher(u, CancelledReservation(h))
  <2>1. /\ u.learned \in Nat \cup {NotLearned} /\ h.learned \in Nat \cup {NotLearned}
        /\ CancelledReservation(h).learned \in Nat \cup {NotLearned}
    BY <1>3, <1>4, UsageFields
  <2> QED
    BY <1>3, <1>4, <2>1 DEF NoHigher
<1> QED
  BY <1>2, <1>3, <1>4, <1>5
-----------------------------------------------------------------------------
(* What the server counts for model m in flight and in the last minute, what *)
(* it is due for, and the jobs at work on it: those that record a call and   *)
(* those that may still take a slot.                                         *)
In(m) == usage[m].in_flight
Win(m) == Len(Drained(usage[m].rpm))
Due(m) == Owed(m) + leaked[m]

Owners(m) == {w \in Worker : op[w].owed = 1 /\ op[w].model = m}
Racing(m) == {w \in Worker : op[w].pc = "reserve" /\ m \in op[w].allowed}
Busy(m) == {w \in Worker : \/ op[w].pc = "push" /\ op[w].model = m
                           \/ op[w].pc = "reserve" /\ m \in op[w].allowed}
Load(m) == Win(m) + Cardinality(Busy(m))

(* A call with a model has got one, and only such a call may hold a slot. *)
Calling == {"answering", "running", "report", "push", "outcome", "announce"}
Returned == {"push", "outcome", "announce"}

Shape(o) ==
  /\ o.pc \in Calling => o.model \in Model
  /\ o.pc \notin Calling => o.owed = 0 /\ o.model = NoModel
  /\ o.pc = "answering" => o.owed = 1
  /\ o.pc \in Returned => o.owed = 0

Shaped == \A w \in Worker : Shape(op[w])

(* A model whose failure a call has just reported is blocked. *)
HotBlocked == \A w \in Worker : \A m \in op[w].hot : blocked[m] > 0

(* A ceiling of at most k is in force. *)
InForce(m, k) ==
  ~usage[m].announced /\ usage[m].learned # NotLearned /\ usage[m].learned <= k

(* The calls a model counts, its dues and the jobs at work on it stay within *)
(* what any select that races for it saw as the ceiling.                     *)
WithinFor(m) ==
  \A w \in Racing(m) :
    op[w].peak[m] # NotLearned =>
      /\ InForce(m, op[w].peak[m])
      /\ Load(m) + Due(m) + 1 <= op[w].peak[m] + Cardinality(Worker) + strays[m]

Within == \A m \in Model : WithinFor(m)

(* The counter of a model and its dues differ at most by the strays. *)
Balance(m) == In(m) <= Due(m) /\ Due(m) <= In(m) + strays[m]

Inv == TypeOK /\ Shaped

(* Whether call o holds a slot of model m, and whether it is at work on m. *)
Holds(o, m) == IF o.owed = 1 /\ o.model = m THEN 1 ELSE 0
Busies(o, m) ==
  IF (o.pc = "push" /\ o.model = m) \/ (o.pc = "reserve" /\ m \in o.allowed) THEN 1 ELSE 0

(* There are finitely many workers. *)
LEMMA WorkerFinite == IsFiniteSet(Worker) /\ Cardinality(Worker) \in Nat
BY SplitFlowAssumption, FS_Union, FS_CardinalityType DEF Worker

(* Two sets that differ at most in c differ by at most one element. *)
LEMMA OneChanged ==
  ASSUME NEW S, NEW T, NEW c, IsFiniteSet(S), T \ {c} = S \ {c}
  PROVE  /\ IsFiniteSet(T) /\ Cardinality(S) \in Nat /\ Cardinality(T) \in Nat
         /\ (c \in S <=> c \in T) => Cardinality(T) = Cardinality(S)
         /\ c \notin S /\ c \in T => Cardinality(T) = Cardinality(S) + 1
         /\ c \in S /\ c \notin T => Cardinality(T) = Cardinality(S) - 1
<1>1. CASE c \in S /\ c \in T
  <2>1. S = T
    BY <1>1
  <2> QED
    BY <1>1, <2>1, FS_CardinalityType
<1>2. CASE c \notin S /\ c \notin T
  <2>1. S = T
    BY <1>2
  <2> QED
    BY <1>2, <2>1, FS_CardinalityType
<1>3. CASE c \notin S /\ c \in T
  <2>1. T = S \cup {c}
    BY <1>3
  <2> QED
    BY <1>3, <2>1, FS_CardinalityType, FS_AddElement
<1>4. CASE c \in S /\ c \notin T
  <2>1. T = S \ {c}
    BY <1>4
  <2> QED
    BY <1>4, <2>1, FS_CardinalityType, FS_RemoveElement
<1> QED
  BY <1>1, <1>2, <1>3, <1>4

(* When one call changes, a count of calls follows whether it is counted. *)
LEMMA Recounted ==
  ASSUME NEW w \in Worker, NEW S \in SUBSET Worker, NEW T \in SUBSET Worker,
         \A v \in Worker : v # w => (v \in S <=> v \in T)
  PROVE  /\ Cardinality(S) \in Nat /\ Cardinality(T) \in Nat
         /\ Cardinality(T) <= Cardinality(Worker)
         /\ Cardinality(T) = Cardinality(S) - (IF w \in S THEN 1 ELSE 0)
                                            + (IF w \in T THEN 1 ELSE 0)
<1>1. IsFiniteSet(S) /\ IsFiniteSet(T) /\ Cardinality(T) <= Cardinality(Worker)
  BY WorkerFinite, FS_Subset
<1>2. T \ {w} = S \ {w}
  OBVIOUS
<1>3. /\ Cardinality(S) \in Nat /\ Cardinality(T) \in Nat
      /\ (w \in S <=> w \in T) => Cardinality(T) = Cardinality(S)
      /\ w \notin S /\ w \in T => Cardinality(T) = Cardinality(S) + 1
      /\ w \in S /\ w \notin T => Cardinality(T) = Cardinality(S) - 1
  BY <1>1, <1>2, OneChanged
<1> QED
  BY <1>1, <1>3

-----------------------------------------------------------------------------
(* The fields of a call, and the calls the client's steps make of one. *)

(* A call is what its fields say. *)
LEMMA OpFields ==
  ASSUME NEW o \in Op
  PROVE  /\ o.pc \in PC /\ o.skip \in SUBSET Model /\ o.allowed \in SUBSET Model
         /\ o.model \in Model \cup {NoModel} /\ o.kind \in Kind
         /\ o.tries \in 0..MaxRetries /\ o.owed \in {0, 1}
         /\ o.hot \in SUBSET Model /\ o.peak \in [Model -> Nat \cup {NotLearned}]
BY DEF Op

(* A call holds the slot it owes, of its model only. *)
LEMMA HoldsForm ==
  ASSUME NEW o \in Op, NEW m
  PROVE  /\ Holds(o, m) \in {0, 1} /\ Busies(o, m) \in {0, 1}
         /\ o.owed = 0 => Holds(o, m) = 0
         /\ o.model # m => Holds(o, m) = 0
         /\ o.model = m => Holds(o, m) = o.owed
         /\ o.pc \notin {"push", "reserve"} => Busies(o, m) = 0
BY OpFields DEF Holds, Busies

(* A call not begun holds nothing and races for nothing. *)
LEMMA NoCallForm ==
  /\ NoCall \in Op /\ Shape(NoCall) /\ NoCall.hot = {} /\ NoCall.pc = "idle"
  /\ NoCall.owed = 0 /\ NoCall.allowed = {} /\ NoCall.model = NoModel
  /\ NoCall.peak \in [Model -> Nat \cup {NotLearned}]
<1>1. 0 \in 0..MaxRetries
  BY SplitFlowAssumption
<1>2. [m \in Model |-> NotLearned] \in [Model -> Nat \cup {NotLearned}]
  OBVIOUS
<1> QED
  BY <1>1, <1>2 DEF NoCall, Op, PC, Kind, Shape, Calling, Returned

(* A request sent again, or given up, holds nothing. *)
LEMMA AskAgainForm ==
  ASSUME NEW o \in Op
  PROVE  /\ AskAgain(o) \in Op /\ Shape(AskAgain(o)) /\ AskAgain(o).hot \subseteq o.hot
         /\ AskAgain(o).owed = 0 /\ AskAgain(o).pc \notin {"reserve", "push"}
<1>1. CASE o.tries < MaxRetries
  <2> DEFINE q == [o EXCEPT !.pc = "select", !.tries = o.tries + 1, !.allowed = {},
                            !.model = NoModel, !.owed = 0, !.peak = NoCall.peak]
  <2>1. AskAgain(o) = q
    BY <1>1 DEF AskAgain
  <2>2. o.tries + 1 \in 0..MaxRetries
    BY <1>1, OpFields, SplitFlowAssumption
  <2>3. q \in Op
    <3>1. NoCall.peak \in [Model -> Nat \cup {NotLearned}] /\ "select" \in PC
      BY NoCallForm DEF PC
    <3> QED
      BY <2>2, <3>1 DEF Op
  <2>4. q.pc = "select" /\ q.owed = 0 /\ q.model = NoModel /\ q.hot = o.hot
    BY DEF Op
  <2> HIDE DEF q
  <2> QED
    BY <2>1, <2>3, <2>4 DEF Shape, Calling, Returned
<1>2. CASE ~(o.tries < MaxRetries)
  BY <1>2, NoCallForm DEF AskAgain
<1> QED
  BY <1>1, <1>2

(* A refused call waits or raises, a refused job ends: neither holds more. *)
LEMMA RefusedForm ==
  ASSUME NEW w \in Worker, op[w] \in Op, Shape(op[w]), op[w].pc \notin Calling, NEW hints
  PROVE  /\ Refused(w, hints) \in Op /\ Shape(Refused(w, hints))
         /\ Refused(w, hints).hot \subseteq op[w].hot /\ Refused(w, hints).owed = 0
         /\ Refused(w, hints).pc \notin {"reserve", "push"}
         /\ Refused(w, hints).allowed = {} /\ Refused(w, hints).model = NoModel
<1>1. CASE w \in Thread
  BY <1>1, NoCallForm DEF Refused
<1>2. CASE w \notin Thread
  <2> DEFINE s == IF hints = {} THEN "refused" ELSE "hinted"
             q == [op[w] EXCEPT !.pc = s, !.allowed = {}, !.peak = NoCall.peak]
  <2>1. Refused(w, hints) = q
    BY <1>2 DEF Refused
  <2>2. s \in {"refused", "hinted"}
    OBVIOUS
  <2> HIDE DEF s
  <2>3. op[w].owed = 0 /\ op[w].model = NoModel
    BY DEF Shape
  <2>4. q \in Op /\ q.pc = s /\ q.hot = op[w].hot /\ q.owed = 0 /\ q.allowed = {}
        /\ q.model = NoModel
    BY <2>2, <2>3, NoCallForm DEF Op, PC
  <2> HIDE DEF q
  <2> QED
    BY <2>1, <2>2, <2>4 DEF Shape, Calling, Returned
<1> QED
  BY <1>1, <1>2

(* A report sent again keeps what the call holds, or it is given up. *)
LEMMA ReportAgainForm ==
  ASSUME NEW o \in Op, Shape(o), o.pc \in {"report", "push"}
  PROVE  /\ ReportAgain(o) \in Op /\ Shape(ReportAgain(o))
         /\ ReportAgain(o).hot \subseteq o.hot
         /\ ReportAgain(o).pc \notin {"reserve", "push"}
         /\ \/ ReportAgain(o).owed = o.owed /\ ReportAgain(o).model = o.model
            \/ ReportAgain(o).owed = 0
<1>0. o.model \in Model
  BY DEF Shape, Calling
<1>1. CASE o.tries < MaxRetries
  <2> DEFINE q == [o EXCEPT !.pc = "report", !.tries = o.tries + 1]
  <2>1. ReportAgain(o) = q
    BY <1>1 DEF ReportAgain
  <2>2. o.tries + 1 \in 0..MaxRetries
    BY <1>1, OpFields, SplitFlowAssumption
  <2>3. q \in Op /\ q.pc = "report" /\ q.owed = o.owed /\ q.model = o.model /\ q.hot = o.hot
    BY <2>2 DEF Op, PC
  <2> HIDE DEF q
  <2> QED
    BY <1>0, <2>1, <2>3 DEF Shape, Calling, Returned
<1>2. CASE ~(o.tries < MaxRetries) /\ o.kind = "rounds"
  <2> DEFINE q == [o EXCEPT !.pc = "report", !.tries = 0, !.kind = "error"]
  <2>1. ReportAgain(o) = q
    BY <1>2 DEF ReportAgain
  <2>2. 0 \in 0..MaxRetries
    BY SplitFlowAssumption
  <2>3. q \in Op /\ q.pc = "report" /\ q.owed = o.owed /\ q.model = o.model /\ q.hot = o.hot
    BY <2>2 DEF Op, Kind, PC
  <2> HIDE DEF q
  <2> QED
    BY <1>0, <2>1, <2>3 DEF Shape, Calling, Returned
<1>3. CASE ~(o.tries < MaxRetries) /\ o.kind # "rounds"
  <2>1. ReportAgain(o) = NoCall
    BY <1>3 DEF ReportAgain
  <2> QED
    BY <2>1, NoCallForm
<1> QED
  BY <1>1, <1>2, <1>3

(* A reported call asks for another model or ends. *)
LEMMA ReportedForm ==
  ASSUME NEW o \in Op, o.owed = 0, o.model \in Model
  PROVE  /\ Reported(o) \in Op /\ Shape(Reported(o)) /\ Reported(o).hot \subseteq o.hot
         /\ Reported(o).owed = 0 /\ Reported(o).pc \notin {"reserve", "push"}
<1>1. CASE o.kind = "rounds"
  BY <1>1, NoCallForm DEF Reported
<1>2. CASE o.kind # "rounds"
  <2> DEFINE skip == IF o.kind = "parse" THEN o.skip \cup {o.model} ELSE o.skip
             q == [o EXCEPT !.pc = "select", !.tries = 0, !.model = NoModel,
                            !.kind = "error", !.skip = skip]
  <2>1. Reported(o) = q
    BY <1>2 DEF Reported
  <2>2. skip \in SUBSET Model /\ 0 \in 0..MaxRetries
    BY OpFields, SplitFlowAssumption
  <2> HIDE DEF skip
  <2>3. q \in Op /\ q.pc = "select" /\ q.owed = 0 /\ q.model = NoModel /\ q.hot = o.hot
    BY <2>2 DEF Op, PC, Kind
  <2> HIDE DEF q
  <2> QED
    BY <2>1, <2>3 DEF Shape, Calling, Returned
<1> QED
  BY <1>1, <1>2

(* A failure that has been applied holds nothing, and is hot if it blocked. *)
LEMMA FailedForm ==
  ASSUME NEW o \in Op, o.model \in Model
  PROVE  /\ Failed(o) \in Op /\ Failed(o).pc = o.pc /\ Failed(o).model = o.model
         /\ Failed(o).kind = o.kind /\ Failed(o).owed = 0
         /\ \A m \in Failed(o).hot : m \in o.hot \/ (m = o.model /\ o.kind # "parse")
<1> DEFINE hot == IF o.kind = "parse" THEN o.hot ELSE o.hot \cup {o.model}
<1>1. Failed(o) = [o EXCEPT !.owed = 0, !.hot = hot]
  BY DEF Failed
<1>2. hot \in SUBSET Model /\ \A m \in hot : m \in o.hot \/ (m = o.model /\ o.kind # "parse")
  BY OpFields
<1> HIDE DEF hot
<1>3. [o EXCEPT !.owed = 0, !.hot = hot] \in Op
  BY <1>2 DEF Op
<1> QED
  BY <1>1, <1>2, <1>3 DEF Op
-----------------------------------------------------------------------------
(* What a step does to the server's books. *)

(* The ways the counter, the dues, the strays and the load of a model move   *)
(* together: calls only leave the load, or one is reserved, or one is given  *)
(* back that was due, or one that was not.                                   *)
Moved(i, j, d, e, s, t, l, k) ==
  \/ j = i /\ e = d /\ t = s /\ k <= l
  \/ j = i + 1 /\ e = d + 1 /\ t = s /\ k + 1 <= l
  \/ j = SaturatingSub(i, 1) /\ e + 1 = d /\ t = s /\ k <= l + 1
  \/ j = SaturatingSub(i, 1) /\ e = d /\ t = s + 1 /\ k <= l + 1

(* Everything is forgotten. *)
Forgotten(m) == In(m)' = 0 /\ Due(m)' = 0 /\ Racing(m)' = {}

Booked(m) ==
  \/ Moved(In(m), In(m)', Due(m), Due(m)', strays[m], strays'[m], Load(m), Load(m)')
  \/ Forgotten(m)

(* Select v has seen of model m's ceiling what select u had seen of it. *)
Sees(u, v, m) ==
  op'[v].peak[m] # NotLearned =>
    /\ op[u].peak[m] # NotLearned /\ op[u].peak[m] <= op'[v].peak[m]
    /\ InForce(m, op[u].peak[m]) =>
         /\ ~usage'[m].announced /\ usage'[m].learned # NotLearned
         /\ usage'[m].learned <= op'[v].peak[m]

(* Nobody joins the race for m, but a job may go on without its client. *)
RaceStep(m) == \A v \in Racing(m)' : \E u \in Racing(m) : Sees(u, v, m)

(* Or a select has found m open and comes to race for it. *)
Looks(m) ==
  /\ In(m)' = In(m) /\ Due(m)' = Due(m) /\ strays'[m] = strays[m] /\ Win(m)' <= Win(m)
GateTaken == \E w \in Worker : Gate(w)

(* What a call has just reported is blocked, or as blocked as it was. *)
HotStep ==
  \A w \in Worker : \A m \in op'[w].hot :
    blocked'[m] > 0 \/ (m \in op[w].hot /\ blocked'[m] = blocked[m])

StepEffect ==
  /\ TypeOK' /\ Shaped' /\ HotStep
  /\ \/ \A m \in Model : Booked(m) /\ RaceStep(m)
     \/ GateTaken /\ \A m \in Model : Looks(m)

(* The types and the shape of one call. *)
LEMMA InvFields ==
  ASSUME Inv
  PROVE  /\ usage \in [Model -> Usage] /\ blocked \in [Model -> Nat] /\ known \subseteq Model
         /\ op \in [Worker -> Op] /\ transit \in [Model -> Nat]
         /\ stale \in [Model -> Nat] /\ leaked \in [Model -> Nat]
         /\ strays \in [Model -> Nat] /\ faults \in 0..MaxFaults
         /\ \A w \in Worker : op[w] \in Op /\ Shape(op[w])
BY DEF Inv, TypeOK, Shaped

(* A fault is counted. *)
LEMMA FaultForm ==
  ASSUME Inv, Fault
  PROVE  faults' \in 0..MaxFaults
BY SplitFlowAssumption DEF Fault, Inv, TypeOK

(* The counts of a model are numbers. *)
LEMMA NumbersType ==
  ASSUME Inv, NEW m \in Model
  PROVE  /\ In(m) \in Nat /\ Win(m) \in Nat /\ Due(m) \in Nat /\ Load(m) \in Nat
         /\ strays[m] \in Nat /\ transit[m] \in Nat /\ leaked[m] \in Nat
         /\ Cardinality(Owners(m)) \in Nat /\ Cardinality(Busy(m)) \in Nat
         /\ Cardinality(Busy(m)) <= Cardinality(Worker)
         /\ Due(m) = transit[m] + Cardinality(Owners(m)) + leaked[m]
<1>1. usage[m] \in Usage /\ transit[m] \in Nat /\ leaked[m] \in Nat /\ strays[m] \in Nat
  BY InvFields
<1>2. In(m) \in Nat /\ Win(m) \in Nat
  BY <1>1, UsageFields DEF In, Win, Calls
<1>3. Owners(m) \subseteq Worker /\ Busy(m) \subseteq Worker
  BY DEF Owners, Busy
<1>4. /\ Cardinality(Owners(m)) \in Nat /\ Cardinality(Busy(m)) \in Nat
      /\ Cardinality(Busy(m)) <= Cardinality(Worker)
  BY <1>3, WorkerFinite, FS_Subset, FS_CardinalityType
<1>5. Due(m) = transit[m] + Cardinality(Owners(m)) + leaked[m]
  BY DEF Due, Owed, Owners
<1>6. Load(m) \in Nat
  BY <1>2, <1>4 DEF Load
<1> QED
  BY <1>1, <1>2, <1>4, <1>5, <1>6

(* So they are after a step that keeps the types. *)
LEMMA NumbersNext ==
  ASSUME TypeOK', NEW m \in Model
  PROVE  /\ In(m)' \in Nat /\ Win(m)' \in Nat /\ Due(m)' \in Nat /\ Load(m)' \in Nat
         /\ strays'[m] \in Nat /\ Cardinality(Busy(m))' <= Cardinality(Worker)
         /\ Cardinality(Busy(m))' \in Nat
         /\ Due(m)' = transit'[m] + Cardinality(Owners(m))' + leaked'[m]
<1>1. usage'[m] \in Usage /\ transit'[m] \in Nat /\ leaked'[m] \in Nat /\ strays'[m] \in Nat
  BY DEF TypeOK
<1>2. In(m)' \in Nat /\ Win(m)' \in Nat
  <2>1. usage'[m].in_flight \in Nat /\ Calls(usage'[m]) \in Nat
    BY <1>1, UsageFields
  <2> QED
    BY <2>1 DEF In, Win, Calls
<1>3. Owners(m)' \subseteq Worker /\ Busy(m)' \subseteq Worker
  BY DEF Owners, Busy
<1>4. /\ Cardinality(Owners(m)') \in Nat /\ Cardinality(Busy(m)') \in Nat
      /\ Cardinality(Busy(m)') <= Cardinality(Worker)
  BY <1>3, WorkerFinite, FS_Subset, FS_CardinalityType
<1>5. Due(m)' = transit'[m] + Cardinality(Owners(m)') + leaked'[m]
  BY DEF Due, Owed, Owners
<1>6. Load(m)' = Win(m)' + Cardinality(Busy(m)')
  BY DEF Load
<1> QED
  BY <1>1, <1>2, <1>4, <1>5, <1>6

(* Only the call of w changes, and becomes q: but for its histories. *)
Turned(w, q) ==
  /\ op' \in [Worker -> Op] /\ op'[w] = q /\ Shape(q)
  /\ \A v \in Worker : v # w =>
       /\ op'[v].pc = op[v].pc /\ op'[v].allowed = op[v].allowed
       /\ op'[v].owed = op[v].owed /\ op'[v].model = op[v].model

(* Then its slots and its work are all that changes in the counts. *)
LEMMA TurnCounts ==
  ASSUME Inv, NEW w \in Worker, NEW q, Turned(w, q), NEW m \in Model
  PROVE  /\ Cardinality(Owners(m))' = Cardinality(Owners(m)) - Holds(op[w], m) + Holds(q, m)
         /\ Cardinality(Busy(m))' = Cardinality(Busy(m)) - Busies(op[w], m) + Busies(q, m)
         /\ Cardinality(Owners(m))' \in Nat /\ Cardinality(Busy(m))' \in Nat
         /\ Holds(op[w], m) \in {0, 1} /\ Holds(q, m) \in {0, 1}
         /\ Busies(op[w], m) \in {0, 1} /\ Busies(q, m) \in {0, 1}
         /\ Due(m)' = transit'[m] + Cardinality(Owners(m))' + leaked'[m]
<1>1. op'[w] = q /\ \A v \in Worker : v # w =>
       /\ op'[v].pc = op[v].pc /\ op'[v].allowed = op[v].allowed
       /\ op'[v].owed = op[v].owed /\ op'[v].model = op[v].model
  BY DEF Turned
<1>2. \A v \in Worker : v # w => (v \in Owners(m) <=> v \in Owners(m)')
  BY <1>1 DEF Owners
<1>3. \A v \in Worker : v # w => (v \in Busy(m) <=> v \in Busy(m)')
  BY <1>1 DEF Busy
<1>4. /\ Owners(m) \in SUBSET Worker /\ Owners(m)' \in SUBSET Worker
      /\ Busy(m) \in SUBSET Worker /\ Busy(m)' \in SUBSET Worker
  BY DEF Owners, Busy
<1>5. /\ (w \in Owners(m) <=> Holds(op[w], m) = 1) /\ (w \in Owners(m)' <=> Holds(q, m) = 1)
      /\ Holds(op[w], m) \in {0, 1} /\ Holds(q, m) \in {0, 1}
  BY <1>1 DEF Owners, Holds
<1>6. /\ (w \in Busy(m) <=> Busies(op[w], m) = 1) /\ (w \in Busy(m)' <=> Busies(q, m) = 1)
      /\ Busies(op[w], m) \in {0, 1} /\ Busies(q, m) \in {0, 1}
  BY <1>1 DEF Busy, Busies
<1> DEFINE S == Owners(m)
           T == Owners(m)'
           U == Busy(m)
           V == Busy(m)'
<1>7. /\ Cardinality(S) \in Nat /\ Cardinality(T) \in Nat
      /\ Cardinality(T) = Cardinality(S) - (IF w \in S THEN 1 ELSE 0) + (IF w \in T THEN 1 ELSE 0)
  <2> HIDE DEF S, T
  <2>1. S \in SUBSET Worker /\ T \in SUBSET Worker /\ \A v \in Worker : v # w => (v \in S <=> v \in T)
    BY <1>2, <1>4 DEF S, T
  <2> QED
    BY <2>1, Recounted
<1>8. /\ Cardinality(U) \in Nat /\ Cardinality(V) \in Nat
      /\ Cardinality(V) = Cardinality(U) - (IF w \in U THEN 1 ELSE 0) + (IF w \in V THEN 1 ELSE 0)
  <2> HIDE DEF U, V
  <2>1. U \in SUBSET Worker /\ V \in SUBSET Worker /\ \A v \in Worker : v # w => (v \in U <=> v \in V)
    BY <1>3, <1>4 DEF U, V
  <2> QED
    BY <2>1, Recounted
<1>9. /\ Holds(op[w], m) = (IF w \in S THEN 1 ELSE 0) /\ Holds(q, m) = (IF w \in T THEN 1 ELSE 0)
      /\ Busies(op[w], m) = (IF w \in U THEN 1 ELSE 0) /\ Busies(q, m) = (IF w \in V THEN 1 ELSE 0)
  BY <1>5, <1>6
<1>10. Due(m)' = transit'[m] + Cardinality(Owners(m))' + leaked'[m]
  BY DEF Due, Owed, Owners
<1> QED
  BY <1>5, <1>6, <1>7, <1>8, <1>9, <1>10

(* What the call of w moves of the books is what moves. *)
LEMMA TurnBooked ==
  ASSUME Inv, NEW w \in Worker, NEW q, Turned(w, q), TypeOK', NEW m \in Model,
         Moved(In(m), In(m)',
               transit[m] + leaked[m] + Holds(op[w], m), transit'[m] + leaked'[m] + Holds(q, m),
               strays[m], strays'[m],
               Win(m) + Busies(op[w], m), Win(m)' + Busies(q, m))
  PROVE  Booked(m)
<1> DEFINE a == transit[m] + leaked[m]
           b == transit'[m] + leaked'[m]
           h == Holds(op[w], m)
           g == Holds(q, m)
           y == Busies(op[w], m)
           z == Busies(q, m)
           n == Cardinality(Owners(m))
           p == Cardinality(Busy(m))
           x == Win(m)
           v == Win(m)'
           i == In(m)
           j == In(m)'
           s == strays[m]
           t == strays'[m]
<1>1. /\ a \in Nat /\ n \in Nat /\ p \in Nat /\ x \in Nat /\ i \in Nat /\ s \in Nat
      /\ Due(m) = a + n /\ Load(m) = x + p
  BY NumbersType DEF Load
<1>2. /\ b \in Nat /\ v \in Nat /\ j \in Nat /\ t \in Nat
  <2>1. transit'[m] \in Nat /\ leaked'[m] \in Nat
    BY DEF TypeOK
  <2> QED
    BY <2>1, NumbersNext
<1>3. /\ h \in Nat /\ g \in Nat /\ y \in Nat /\ z \in Nat
      /\ Due(m)' = b + (n - h + g) /\ Load(m)' = v + (p - y + z)
      /\ n - h + g \in Nat /\ p - y + z \in Nat
  <2>1. /\ Cardinality(Owners(m))' = n - h + g /\ Cardinality(Busy(m))' = p - y + z
        /\ Cardinality(Owners(m))' \in Nat /\ Cardinality(Busy(m))' \in Nat
        /\ h \in {0, 1} /\ g \in {0, 1} /\ y \in {0, 1} /\ z \in {0, 1}
        /\ Due(m)' = transit'[m] + Cardinality(Owners(m))' + leaked'[m]
    BY TurnCounts
  <2>2. Load(m)' = v + Cardinality(Busy(m))'
    BY DEF Load
  <2>3. transit'[m] \in Nat /\ leaked'[m] \in Nat
    BY DEF TypeOK
  <2>4. Due(m)' = b + Cardinality(Owners(m))'
    BY <2>1, <2>3
  <2> HIDE DEF h, g, y, z, n, p, v, b
  <2> QED
    BY <2>1, <2>2, <2>4
<1>4. Moved(i, j, a + h, b + g, s, t, x + y, v + z)
  OBVIOUS
<1> HIDE DEF a, b, h, g, y, z, n, p, x, v, i, j, s, t
<1>5. Moved(i, j, a + n, b + (n - h + g), s, t, x + p, v + (p - y + z))
  BY <1>1, <1>2, <1>3, <1>4 DEF Moved
<1> QED
  BY <1>1, <1>3, <1>5 DEF Booked, i, j, s, t

(* A call whose peak stays follows a ceiling that does not rise. *)
LEMMA StaySees ==
  ASSUME Inv, NEW u \in Worker, NEW v \in Worker, NEW m \in Model, usage'[m] \in Usage,
         op'[v].peak = op[u].peak, NoHigher(usage[m], usage'[m])
  PROVE  Sees(u, v, m)
<1> DEFINE k == op[u].peak[m]
<1>1. op'[v].peak[m] = k /\ k \in Nat \cup {NotLearned}
  BY InvFields, OpFields
<1>2. /\ usage[m].learned \in Nat \cup {NotLearned}
      /\ usage'[m].learned \in Nat \cup {NotLearned}
  BY InvFields, UsageFields
<1>3. ASSUME k # NotLearned, InForce(m, k)
      PROVE  ~usage'[m].announced /\ usage'[m].learned # NotLearned /\ usage'[m].learned <= k
  <2> HIDE DEF k
  <2> QED
    BY <1>1, <1>2, <1>3 DEF InForce, NoHigher
<1>4. k # NotLearned => k <= k
  BY <1>1
<1> QED
  BY <1>1, <1>3, <1>4 DEF Sees

(* A ceiling as it was is not higher. *)
LEMMA SameBucket ==
  ASSUME Inv, NEW m \in Model, usage'[m] = usage[m]
  PROVE  /\ usage'[m] \in Usage /\ NoHigher(usage[m], usage'[m])
         /\ In(m)' = In(m) /\ Win(m)' = Win(m) /\ Win(m) \in Nat
BY InvFields, UsageFields, NumbersType DEF In, Win

(* The step of a call that then races for nothing. *)
LEMMA TurnEffect ==
  ASSUME Inv, NEW w \in Worker, NEW q, Turned(w, q), TypeOK', HotStep, q.pc # "reserve",
         \A v \in Worker : v # w => op'[v].peak = op[v].peak,
         \A m \in Model : NoHigher(usage[m], usage'[m]),
         \A m \in Model :
           Moved(In(m), In(m)',
                 transit[m] + leaked[m] + Holds(op[w], m), transit'[m] + leaked'[m] + Holds(q, m),
                 strays[m], strays'[m],
                 Win(m) + Busies(op[w], m), Win(m)' + Busies(q, m))
  PROVE  StepEffect
<1>1. Shaped'
  BY InvFields DEF Turned, Shaped, Shape
<1>2. ASSUME NEW m \in Model
      PROVE  Booked(m) /\ RaceStep(m)
  <2>1. Booked(m)
    BY TurnBooked
  <2>2. usage'[m] \in Usage
    BY DEF TypeOK
  <2>3. ASSUME NEW v \in Racing(m)'
        PROVE  v \in Racing(m) /\ Sees(v, v, m)
    <3>1. v \in Worker /\ op'[v].pc = "reserve" /\ m \in op'[v].allowed
      BY DEF Racing
    <3>2. v # w
      BY <3>1 DEF Turned
    <3>3. v \in Racing(m)
      BY <3>1, <3>2 DEF Turned, Racing
    <3> QED
      BY <2>2, <3>1, <3>2, <3>3, StaySees
  <2> QED
    BY <2>1, <2>3 DEF RaceStep
<1> QED
  BY <1>1, <1>2 DEF StepEffect
-----------------------------------------------------------------------------
(* Steps of one call. *)

(* When the call of w alone changes, it turns. *)
LEMMA AloneTurned ==
  ASSUME Inv, NEW w \in Worker, NEW q \in Op, op' = [op EXCEPT ![w] = q], Shape(q)
  PROVE  /\ Turned(w, q)
         /\ \A v \in Worker : v # w => op'[v].peak = op[v].peak /\ op'[v].hot = op[v].hot
BY InvFields DEF Turned

(* A step that the server's bucket does not see: what is due stays due. *)
LEMMA QuietTurn ==
  ASSUME Inv, NEW w \in Worker, NEW q \in Op, op' = [op EXCEPT ![w] = q],
         Shape(q), q.hot \subseteq op[w].hot, q.pc \notin {"reserve", "push"},
         UNCHANGED <<usage, blocked, known, strays>>,
         transit' \in [Model -> Nat], leaked' \in [Model -> Nat],
         stale' \in [Model -> Nat], faults' \in 0..MaxFaults,
         \A m \in Model : transit'[m] + leaked'[m] + Holds(q, m)
                            = transit[m] + leaked[m] + Holds(op[w], m)
  PROVE  StepEffect
<1>1. /\ Turned(w, q)
      /\ \A v \in Worker : v # w => op'[v].peak = op[v].peak /\ op'[v].hot = op[v].hot
  BY AloneTurned
<1>2. TypeOK'
  BY <1>1, InvFields DEF TypeOK, Turned
<1>3. HotStep
  <2> SUFFICES ASSUME NEW v \in Worker, NEW m \in op'[v].hot
               PROVE  m \in op[v].hot /\ blocked'[m] = blocked[m]
    BY DEF HotStep
  <2> QED
    BY <1>1 DEF Turned
<1>4. ASSUME NEW m \in Model
      PROVE  /\ NoHigher(usage[m], usage'[m])
             /\ Moved(In(m), In(m)',
                      transit[m] + leaked[m] + Holds(op[w], m),
                      transit'[m] + leaked'[m] + Holds(q, m), strays[m], strays'[m],
                      Win(m) + Busies(op[w], m), Win(m)' + Busies(q, m))
  <2>1. NoHigher(usage[m], usage'[m]) /\ In(m)' = In(m) /\ Win(m)' = Win(m) /\ Win(m) \in Nat
    BY SameBucket
  <2>2. Busies(q, m) = 0 /\ Busies(op[w], m) \in Nat
    BY InvFields, HoldsForm
  <2>3. Win(m)' + Busies(q, m) <= Win(m) + Busies(op[w], m)
    BY <2>1, <2>2
  <2> QED
    BY <2>1, <2>3 DEF Moved
<1> QED
  BY <1>1, <1>2, <1>3, <1>4, TurnEffect

(* A step that only moves the call on. *)
LEMMA PlainTurn ==
  ASSUME Inv, NEW w \in Worker, NEW q \in Op, op' = [op EXCEPT ![w] = q],
         Shape(q), q.hot \subseteq op[w].hot, q.pc \notin {"reserve", "push"},
         \A m \in Model : Holds(q, m) = Holds(op[w], m), faults' \in 0..MaxFaults,
         UNCHANGED <<usage, blocked, known, transit, stale, leaked, strays>>
  PROVE  StepEffect
BY InvFields, QuietTurn

(* The steps of a call that neither server nor slots notice. *)
LEMMA PlainSteps ==
  ASSUME Inv, NEW c \in Client
  PROVE  /\ Call(c) => StepEffect
         /\ RetryAfterHint(c) => StepEffect
         /\ RaiseExhausted(c) => StepEffect
         /\ Answer(c) => StepEffect
         /\ \A kind \in Kind : Fail(c, kind) => StepEffect
<1> DEFINE o == op[c]
<1>0. o \in Op /\ Shape(o) /\ 0 \in 0..MaxRetries /\ faults \in 0..MaxFaults /\ c \in Worker
  BY InvFields, SplitFlowAssumption DEF Worker
<1>1. ASSUME Call(c)
      PROVE  StepEffect
  <2> DEFINE q == [NoCall EXCEPT !.pc = "select"]
  <2>1. q \in Op /\ q.pc = "select" /\ q.hot = {} /\ q.owed = 0 /\ q.model = NoModel
    BY NoCallForm DEF Op, PC
  <2>2. op' = [op EXCEPT ![c] = q] /\ o.pc = "idle"
    BY <1>1 DEF Call
  <2>3. UNCHANGED <<usage, blocked, known, transit, stale, leaked, strays>> /\ faults' = faults
    BY <1>1 DEF Call, history
  <2> HIDE DEF q
  <2>4. Shape(q)
    BY <2>1 DEF Shape, Calling, Returned
  <2>5. o.owed = 0
    BY <1>0, <2>2 DEF Shape, Calling, Returned
  <2>6. \A m \in Model : Holds(q, m) = Holds(o, m)
    BY <1>0, <2>1, <2>5, HoldsForm
  <2> QED
    BY <1>0, <2>1, <2>2, <2>3, <2>4, <2>6, PlainTurn
<1>2. ASSUME RetryAfterHint(c)
      PROVE  StepEffect
  <2> DEFINE q == [o EXCEPT !.pc = "select", !.tries = 0]
  <2>1. q \in Op /\ q.pc = "select" /\ q.hot = o.hot /\ q.owed = o.owed /\ q.model = o.model
    BY <1>0 DEF Op, PC
  <2>2. op' = [op EXCEPT ![c] = q] /\ o.pc = "hinted"
    BY <1>2 DEF RetryAfterHint
  <2>3. UNCHANGED <<usage, blocked, known, transit, stale, leaked, strays>> /\ faults' = faults
    BY <1>2 DEF RetryAfterHint, history
  <2> HIDE DEF q
  <2>4. o.owed = 0 /\ o.model = NoModel
    BY <1>0, <2>2 DEF Shape, Calling, Returned
  <2>5. Shape(q)
    BY <2>1, <2>4 DEF Shape, Calling, Returned
  <2>6. \A m \in Model : Holds(q, m) = Holds(o, m)
    BY <1>0, <2>1, <2>4, HoldsForm
  <2> QED
    BY <1>0, <2>1, <2>2, <2>3, <2>5, <2>6, PlainTurn
<1>3. ASSUME RaiseExhausted(c)
      PROVE  StepEffect
  <2>1. op' = [op EXCEPT ![c] = NoCall] /\ o.pc \in {"refused", "hinted"}
    BY <1>3 DEF RaiseExhausted
  <2>2. UNCHANGED <<usage, blocked, known, transit, stale, leaked, strays>> /\ faults' = faults
    BY <1>3 DEF RaiseExhausted, history
  <2>3. o.owed = 0
    BY <1>0, <2>1 DEF Shape, Calling, Returned
  <2>4. \A m \in Model : Holds(NoCall, m) = Holds(o, m)
    BY <1>0, <2>3, NoCallForm, HoldsForm
  <2> QED
    BY <1>0, <2>1, <2>2, <2>4, NoCallForm, PlainTurn
<1>4. ASSUME Answer(c)
      PROVE  StepEffect
  <2> DEFINE q == [o EXCEPT !.pc = "running", !.tries = 0]
  <2>1. q \in Op /\ q.pc = "running" /\ q.hot = o.hot /\ q.owed = o.owed /\ q.model = o.model
    BY <1>0 DEF Op, PC
  <2>2. op' = [op EXCEPT ![c] = q] /\ o.pc = "answering"
    BY <1>4 DEF Answer
  <2>3. UNCHANGED <<usage, blocked, known, transit, stale, leaked, strays>> /\ faults' = faults
    BY <1>4 DEF Answer, history
  <2> HIDE DEF q
  <2>4. o.model \in Model
    BY <1>0, <2>2 DEF Shape, Calling, Returned
  <2>5. Shape(q)
    BY <2>1, <2>4 DEF Shape, Calling, Returned
  <2>6. \A m \in Model : Holds(q, m) = Holds(o, m)
    BY <2>1 DEF Holds
  <2> QED
    BY <1>0, <2>1, <2>2, <2>3, <2>5, <2>6, PlainTurn
<1>5. ASSUME NEW kind \in Kind, Fail(c, kind)
      PROVE  StepEffect
  <2> DEFINE q == [o EXCEPT !.pc = "report", !.kind = kind, !.tries = 0]
  <2>1. q \in Op /\ q.pc = "report" /\ q.hot = o.hot /\ q.owed = o.owed /\ q.model = o.model
    BY <1>0 DEF Op, PC
  <2>2. op' = [op EXCEPT ![c] = q] /\ o.pc = "running"
    BY <1>5 DEF Fail
  <2>3. UNCHANGED <<usage, blocked, known, transit, stale, leaked, strays>> /\ faults' = faults
    BY <1>5 DEF Fail, history
  <2> HIDE DEF q
  <2>4. o.model \in Model
    BY <1>0, <2>2 DEF Shape, Calling, Returned
  <2>5. Shape(q)
    BY <2>1, <2>4 DEF Shape, Calling, Returned
  <2>6. \A m \in Model : Holds(q, m) = Holds(o, m)
    BY <2>1 DEF Holds
  <2> QED
    BY <1>0, <2>1, <2>2, <2>3, <2>5, <2>6, PlainTurn
<1> QED
  BY <1>1, <1>2, <1>3, <1>4, <1>5

(* A slot moved between a call, its report and what is lost stays due. *)
LEMMA MovedTurn ==
  ASSUME Inv, NEW c \in Client, NEW q \in Op, op' = [op EXCEPT ![c] = q],
         Shape(q), q.hot \subseteq op[c].hot, q.pc \notin {"reserve", "push"},
         UNCHANGED <<usage, blocked, known, strays>>,
         transit' \in [Model -> Nat], leaked' \in [Model -> Nat],
         stale' \in [Model -> Nat], faults' \in 0..MaxFaults,
         NEW n \in Model, op[c].model = n,
         \A m \in Model : m # n => /\ transit'[m] = transit[m] /\ leaked'[m] = leaked[m]
                                  /\ Holds(q, m) = 0,
         transit'[n] + leaked'[n] + Holds(q, n) = transit[n] + leaked[n] + op[c].owed
  PROVE  StepEffect
<1>1. op[c] \in Op /\ c \in Worker
  BY InvFields DEF Worker
<1>2. ASSUME NEW m \in Model
      PROVE  transit'[m] + leaked'[m] + Holds(q, m) = transit[m] + leaked[m] + Holds(op[c], m)
  <2>1. CASE m = n
    BY <1>1, <2>1, HoldsForm
  <2>2. CASE m # n
    <3>1. transit'[m] = transit[m] /\ leaked'[m] = leaked[m] /\ Holds(q, m) = 0
      BY <2>2
    <3>2. Holds(op[c], m) = 0
      BY <1>1, <2>2, HoldsForm
    <3> QED
      BY <3>1, <3>2
  <2> QED
    BY <2>1, <2>2
<1> QED
  BY <1>1, <1>2, QuietTurn

(* An answer lost on its way leaves its slot to nobody. *)
LEMMA LoseAnswerQuiet ==
  ASSUME Inv, NEW c \in Client, LoseAnswer(c)
  PROVE  StepEffect
<1> DEFINE o == op[c]
           q == AskAgain(o)
<1>1. o \in Op /\ Shape(o)
  BY InvFields DEF Worker
<1>2. /\ o.pc = "answering" /\ op' = [op EXCEPT ![c] = q]
      /\ UNCHANGED <<usage, blocked, known, strays>>
  BY DEF LoseAnswer
<1>3. Fault /\ transit' = transit /\ stale' = stale
      /\ leaked' = [leaked EXCEPT ![o.model] = @ + 1]
  BY DEF LoseAnswer
<1>4. o.model \in Model /\ o.owed = 1
  BY <1>1, <1>2 DEF Shape, Calling, Returned
<1>5. q \in Op /\ Shape(q) /\ q.hot \subseteq o.hot /\ q.owed = 0 /\ q.pc \notin {"reserve", "push"}
  BY <1>1, AskAgainForm
<1> HIDE DEF q, o
<1>6. \A m : Holds(q, m) = 0
  BY <1>5, HoldsForm
<1>7. /\ transit' \in [Model -> Nat] /\ leaked' \in [Model -> Nat]
      /\ \A m \in Model : m # o.model => transit'[m] = transit[m] /\ leaked'[m] = leaked[m]
      /\ transit'[o.model] = transit[o.model] /\ leaked'[o.model] = leaked[o.model] + 1
  BY <1>3, <1>4, InvFields
<1>8. transit'[o.model] + leaked'[o.model] + Holds(q, o.model)
        = transit[o.model] + leaked[o.model] + o.owed
  BY <1>4, <1>6, <1>7, InvFields
<1>9. stale' \in [Model -> Nat] /\ faults' \in 0..MaxFaults
  BY <1>3, InvFields, FaultForm
<1>10. \A m \in Model : m # o.model => /\ transit'[m] = transit[m] /\ leaked'[m] = leaked[m]
                                       /\ Holds(q, m) = 0
  BY <1>6, <1>7
<1> QED
  BY <1>2, <1>4, <1>5, <1>6, <1>7, <1>8, <1>9, <1>10, MovedTurn DEF o

(* A success leaves the slot of its call to a report, which may be stale. *)
LEMMA SucceedQuiet ==
  ASSUME Inv, NEW c \in Client, Succeed(c)
  PROVE  StepEffect
<1> DEFINE o == op[c]
<1>1. o \in Op /\ Shape(o)
  BY InvFields DEF Worker
<1>2. /\ o.pc = "running" /\ op' = [op EXCEPT ![c] = NoCall]
      /\ UNCHANGED <<usage, blocked, known, strays>> /\ leaked' = leaked /\ faults' = faults
  BY DEF Succeed, history
<1>3. o.model \in Model /\ o.owed \in {0, 1}
  BY <1>1, <1>2, OpFields DEF Shape, Calling, Returned
<1>4. \A m : Holds(NoCall, m) = 0
  BY NoCallForm, HoldsForm
<1>5. /\ stale' \in [Model -> Nat] /\ transit' \in [Model -> Nat]
      /\ \A m \in Model : m # o.model => transit'[m] = transit[m]
      /\ transit'[o.model] = transit[o.model] + o.owed
  <2>1. CASE o.owed = 1
    <3>1. stale' = stale /\ transit' = [transit EXCEPT ![o.model] = @ + 1]
      BY <2>1 DEF Succeed
    <3> QED
      BY <1>3, <2>1, <3>1, InvFields
  <2>2. CASE o.owed = 0
    <3>1. stale' = [stale EXCEPT ![o.model] = @ + 1] /\ transit' = transit
      BY <2>2 DEF Succeed
    <3>2. transit[o.model] \in Nat
      BY <1>3, InvFields
    <3> QED
      BY <1>3, <2>2, <3>1, <3>2, InvFields
  <2> QED
    BY <1>3, <2>1, <2>2
<1> HIDE DEF o
<1>6. leaked' \in [Model -> Nat] /\ faults' \in 0..MaxFaults
  BY <1>2, InvFields
<1>7. transit'[o.model] + leaked'[o.model] + Holds(NoCall, o.model)
        = transit[o.model] + leaked[o.model] + o.owed
  BY <1>2, <1>3, <1>4, <1>5, InvFields
<1>8. \A m \in Model : m # o.model => /\ transit'[m] = transit[m] /\ leaked'[m] = leaked[m]
                                      /\ Holds(NoCall, m) = 0
  BY <1>2, <1>4, <1>5
<1> QED
  BY <1>2, <1>3, <1>5, <1>6, <1>7, <1>8, NoCallForm, MovedTurn DEF o

(* A client that dies leaves its slot to nobody. *)
LEMMA DieQuiet ==
  ASSUME Inv, NEW c \in Client, Die(c)
  PROVE  StepEffect
<1> DEFINE o == op[c]
<1>1. o \in Op /\ Shape(o)
  BY InvFields DEF Worker
<1>2. /\ o.pc = "running" /\ op' = [op EXCEPT ![c] = NoCall]
      /\ UNCHANGED <<usage, blocked, known, strays>>
  BY DEF Die
<1>3. Fault /\ transit' = transit /\ stale' = stale
      /\ leaked' = [leaked EXCEPT ![o.model] = @ + o.owed]
  BY DEF Die
<1>4. o.model \in Model /\ o.owed \in {0, 1}
  BY <1>1, <1>2, OpFields DEF Shape, Calling, Returned
<1>5. \A m : Holds(NoCall, m) = 0
  BY NoCallForm, HoldsForm
<1> HIDE DEF o
<1>6. /\ transit' \in [Model -> Nat] /\ leaked' \in [Model -> Nat]
      /\ \A m \in Model : m # o.model => transit'[m] = transit[m] /\ leaked'[m] = leaked[m]
      /\ transit'[o.model] = transit[o.model] /\ leaked'[o.model] = leaked[o.model] + o.owed
  BY <1>3, <1>4, InvFields
<1>7. transit'[o.model] + leaked'[o.model] + Holds(NoCall, o.model)
        = transit[o.model] + leaked[o.model] + o.owed
  BY <1>4, <1>5, <1>6, InvFields
<1>8. stale' \in [Model -> Nat] /\ faults' \in 0..MaxFaults
  BY <1>3, InvFields, FaultForm
<1>9. \A m \in Model : m # o.model => /\ transit'[m] = transit[m] /\ leaked'[m] = leaked[m]
                                       /\ Holds(NoCall, m) = 0
  BY <1>5, <1>6
<1> QED
  BY <1>2, <1>4, <1>5, <1>6, <1>7, <1>8, <1>9, NoCallForm, MovedTurn DEF o

(* A report lost for good leaves the slot of its call to nobody. *)
LEMMA LoseReportQuiet ==
  ASSUME Inv, NEW c \in Client, LoseReport(c)
  PROVE  StepEffect
<1> DEFINE o == op[c]
           q == ReportAgain(o)
<1>1. o \in Op /\ Shape(o)
  BY InvFields DEF Worker
<1>2. /\ o.pc = "report" /\ op' = [op EXCEPT ![c] = q]
      /\ UNCHANGED <<usage, blocked, known, strays>>
  BY DEF LoseReport
<1>3. Fault /\ transit' = transit /\ stale' = stale
      /\ leaked' = [leaked EXCEPT ![o.model] = @ + o.owed - q.owed]
  BY DEF LoseReport
<1>4. o.model \in Model /\ o.owed \in {0, 1}
  BY <1>1, <1>2, OpFields DEF Shape, Calling, Returned
<1>5. /\ q \in Op /\ Shape(q) /\ q.hot \subseteq o.hot /\ q.pc \notin {"reserve", "push"}
      /\ (q.owed = o.owed /\ q.model = o.model) \/ q.owed = 0
  BY <1>1, <1>2, ReportAgainForm
<1> HIDE DEF q, o
<1>6. q.owed \in {0, 1} /\ q.owed <= o.owed
  BY <1>4, <1>5, OpFields
<1>7. Holds(q, o.model) = q.owed /\ \A m : m # o.model => Holds(q, m) = 0
  BY <1>5, HoldsForm
<1>8. /\ transit' \in [Model -> Nat] /\ leaked' \in [Model -> Nat]
      /\ \A m \in Model : m # o.model => transit'[m] = transit[m] /\ leaked'[m] = leaked[m]
      /\ transit'[o.model] = transit[o.model]
      /\ leaked'[o.model] = leaked[o.model] + o.owed - q.owed
  BY <1>3, <1>4, <1>6, InvFields
<1>9. transit'[o.model] + leaked'[o.model] + Holds(q, o.model)
        = transit[o.model] + leaked[o.model] + o.owed
  BY <1>4, <1>6, <1>7, <1>8, InvFields
<1>10. stale' \in [Model -> Nat] /\ faults' \in 0..MaxFaults
  BY <1>3, InvFields, FaultForm
<1>11. \A m \in Model : m # o.model => /\ transit'[m] = transit[m] /\ leaked'[m] = leaked[m]
                                       /\ Holds(q, m) = 0
  BY <1>7, <1>8
<1> QED
  BY <1>2, <1>4, <1>5, <1>7, <1>8, <1>9, <1>10, <1>11, MovedTurn DEF o

(* A refusal that is lost is asked for again. *)
LEMMA LoseRefusalEffect ==
  ASSUME Inv, NEW c \in Client, LoseRefusal(c)
  PROVE  StepEffect
<1> DEFINE o == op[c]
           q == AskAgain(o)
<1>1. o \in Op /\ Shape(o) /\ c \in Worker
  BY InvFields DEF Worker
<1>2. /\ o.pc \in {"refused", "hinted"} /\ op' = [op EXCEPT ![c] = q] /\ Fault
      /\ UNCHANGED <<usage, blocked, known, transit, stale, leaked, strays>>
  BY DEF LoseRefusal, history
<1>3. o.owed = 0
  BY <1>1, <1>2 DEF Shape, Calling
<1>4. q \in Op /\ Shape(q) /\ q.hot \subseteq o.hot /\ q.owed = 0 /\ q.pc \notin {"reserve", "push"}
  BY <1>1, AskAgainForm
<1> HIDE DEF q
<1>5. \A m \in Model : Holds(q, m) = Holds(o, m)
  BY <1>1, <1>3, <1>4, HoldsForm
<1>6. faults' \in 0..MaxFaults
  BY <1>2, FaultForm
<1> QED
  BY <1>1, <1>2, <1>4, <1>5, <1>6, PlainTurn

(* A step in which the server takes back the slot of the call of w, of model *)
(* n, whether it counts one for it or not, and may be left to record it.     *)
LEMMA BackTurn ==
  ASSUME Inv, NEW w \in Worker, NEW q \in Op, op' = [op EXCEPT ![w] = q],
         Shape(q), q.pc # "reserve", q.owed = 0,
         NEW n \in Model, op[w].model = n, q.pc = "push" => q.model = n,
         usage' \in [Model -> Usage], \A m \in Model : m # n => usage'[m] = usage[m],
         usage'[n].in_flight = SaturatingSub(usage[n].in_flight, 1),
         Calls(usage'[n]) <= Calls(usage[n]), NoHigher(usage[n], usage'[n]),
         blocked' \in [Model -> Nat], faults' \in 0..MaxFaults,
         UNCHANGED <<known, transit, stale, leaked>>,
         strays' \in [Model -> Nat], \A m \in Model : m # n => strays'[m] = strays[m],
         strays'[n] = strays[n] + 1 - op[w].owed, HotStep
  PROVE  StepEffect
<1>1. /\ Turned(w, q)
      /\ \A v \in Worker : v # w => op'[v].peak = op[v].peak
  BY AloneTurned
<1>2. TypeOK'
  BY <1>1, InvFields DEF TypeOK, Turned
<1>3. op[w] \in Op
  BY InvFields
<1>4. ASSUME NEW m \in Model
      PROVE  /\ NoHigher(usage[m], usage'[m])
             /\ Moved(In(m), In(m)',
                      transit[m] + leaked[m] + Holds(op[w], m),
                      transit'[m] + leaked'[m] + Holds(q, m), strays[m], strays'[m],
                      Win(m) + Busies(op[w], m), Win(m)' + Busies(q, m))
  <2> DEFINE d == transit[m] + leaked[m] + Holds(op[w], m)
             e == transit'[m] + leaked'[m] + Holds(q, m)
             x == Win(m)
             y == Busies(op[w], m)
             v == Win(m)'
             z == Busies(q, m)
  <2>1. /\ transit'[m] = transit[m] /\ leaked'[m] = leaked[m]
        /\ transit[m] \in Nat /\ leaked[m] \in Nat /\ strays[m] \in Nat
        /\ x \in Nat /\ v \in Nat /\ y \in {0, 1} /\ z \in {0, 1}
    BY <1>2, <1>3, NumbersType, NumbersNext, HoldsForm
  <2>2. Holds(q, m) = 0 /\ Holds(op[w], m) = IF m = n THEN op[w].owed ELSE 0
    BY <1>3, HoldsForm
  <2>3. op[w].owed \in {0, 1}
    BY <1>3, OpFields
  <2>4. CASE m # n
    <3>1. NoHigher(usage[m], usage'[m]) /\ In(m)' = In(m) /\ v = x
      BY <2>4, SameBucket
    <3>2. z = 0
      BY <2>4 DEF Busies
    <3>3. e = d /\ v + z <= x + y /\ strays'[m] = strays[m]
      BY <2>1, <2>2, <2>4, <3>1, <3>2
    <3> QED
      BY <3>1, <3>3 DEF Moved
  <2>5. CASE m = n
    <3>1. NoHigher(usage[m], usage'[m]) /\ In(m)' = SaturatingSub(In(m), 1) /\ v <= x
      BY <2>5 DEF In, Win, Calls
    <3>2. v + z <= x + y + 1
      <4> HIDE DEF v, x, y, z
      <4> QED
        BY <2>1, <3>1
    <3>3. CASE op[w].owed = 1
      <4>1. e + 1 = d /\ strays'[m] = strays[m]
        BY <2>1, <2>2, <2>5, <3>3
      <4> QED
        BY <3>1, <3>2, <4>1 DEF Moved
    <3>4. CASE op[w].owed = 0
      <4>1. e = d /\ strays'[m] = strays[m] + 1
        BY <2>1, <2>2, <2>5, <3>4
      <4> QED
        BY <3>1, <3>2, <4>1 DEF Moved
    <3> QED
      BY <2>3, <3>3, <3>4
  <2> QED
    BY <2>4, <2>5
<1> QED
  BY <1>1, <1>2, <1>4, TurnEffect

(* The slot of a result that nobody awaits is given back. *)
LEMMA DropEffect ==
  ASSUME Inv, NEW t \in Thread, DropUnclaimed(t)
  PROVE  StepEffect
<1> DEFINE o == op[t]
           n == op[t].model
<1>1. o \in Op /\ Shape(o) /\ t \in Worker
  BY InvFields DEF Worker
<1>2. /\ o.pc = "answering" /\ op' = [op EXCEPT ![t] = NoCall]
      /\ usage' = [usage EXCEPT ![n] = CancelledReservation(@)]
      /\ UNCHANGED <<blocked, known, transit, stale, leaked, strays, faults>>
  BY DEF DropUnclaimed, history
<1>3. n \in Model /\ o.owed = 1
  BY <1>1, <1>2 DEF Shape, Calling
<1>4. usage[n] \in Usage /\ usage'[n] = CancelledReservation(usage[n])
      /\ \A m \in Model : m # n => usage'[m] = usage[m]
  BY <1>2, <1>3, InvFields
<1>5. /\ CancelledReservation(usage[n]) \in Usage
      /\ CancelledReservation(usage[n]).in_flight = SaturatingSub(usage[n].in_flight, 1)
      /\ CancelledReservation(usage[n]).rpm = usage[n].rpm
      /\ NoHigher(usage[n], CancelledReservation(usage[n]))
  BY <1>4, ReservationForm
<1>6. usage' \in [Model -> Usage]
  BY <1>2, <1>3, <1>4, <1>5, InvFields
<1>7. Calls(usage'[n]) <= Calls(usage[n])
  BY <1>4, <1>5, UsageFields DEF Calls
<1>8. HotStep
  <2> SUFFICES ASSUME NEW v \in Worker, NEW m \in op'[v].hot
               PROVE  m \in op[v].hot /\ blocked'[m] = blocked[m]
    BY DEF HotStep
  <2> QED
    BY <1>1, <1>2, InvFields, NoCallForm
<1>9. /\ blocked' \in [Model -> Nat] /\ faults' \in 0..MaxFaults /\ strays' \in [Model -> Nat]
      /\ strays'[n] = strays[n] + 1 - o.owed /\ \A m \in Model : strays'[m] = strays[m]
  BY <1>2, <1>3, InvFields
<1> QED
  BY <1>1, <1>2, <1>3, <1>4, <1>5, <1>6, <1>7, <1>8, <1>9, NoCallForm, BackTurn

(* What the report of a failure of c's call does to bucket and cooldown of   *)
(* its model: only an unparsable answer blocks nothing.                      *)
LEMMA FailureForm ==
  ASSUME Inv, NEW c \in Client, ApplyFailure(c)
  PROVE  /\ op[c].model \in Model
         /\ usage' \in [Model -> Usage] /\ UNCHANGED <<known, transit, stale, leaked>>
         /\ \A m \in Model : m # op[c].model => usage'[m] = usage[m] /\ strays'[m] = strays[m]
         /\ usage'[op[c].model].in_flight = SaturatingSub(usage[op[c].model].in_flight, 1)
         /\ Calls(usage'[op[c].model]) <= Calls(usage[op[c].model])
         /\ NoHigher(usage[op[c].model], usage'[op[c].model])
         /\ blocked' \in [Model -> Nat]
         /\ \A m \in Model : blocked'[m] = blocked[m] \/ blocked'[m] > 0
         /\ op[c].kind # "parse" => blocked'[op[c].model] > 0
         /\ strays' \in [Model -> Nat]
         /\ strays'[op[c].model] = strays[op[c].model] + 1 - op[c].owed
<1> DEFINE n == op[c].model
           kind == op[c].kind
<1>1. n \in Model /\ op[c].owed \in {0, 1}
  BY InvFields, OpFields DEF ApplyFailure, Shape, Calling, Worker
<1>2. /\ usage' = [usage EXCEPT ![n] = AfterFailure(@, kind, n \in Unknown \ known)]
      /\ strays' = [strays EXCEPT ![n] = @ + 1 - op[c].owed]
  BY DEF ApplyFailure
<1>3. PICK ticks \in CooldownOf(kind) :
        blocked' = [blocked EXCEPT ![n] = IF ticks = 0 THEN @ ELSE ticks]
  BY DEF ApplyFailure
<1>4. ticks \in Nat /\ (kind # "parse" => ticks > 0)
  <2>1. ticks \in IF kind = "parse" THEN {0} ELSE Cooldowns
    BY <1>3 DEF CooldownOf
  <2>2. Cooldowns \subseteq Nat \ {0}
    BY SplitFlowAssumption
  <2> HIDE DEF kind
  <2> QED
    BY <2>1, <2>2
<1> HIDE DEF n, kind
<1>5. /\ blocked' \in [Model -> Nat]
      /\ \A m \in Model : blocked'[m] = blocked[m] \/ blocked'[m] > 0
      /\ kind # "parse" => blocked'[n] > 0
  <2>1. CASE ticks = 0
    <3>1. blocked' = [blocked EXCEPT ![n] = blocked[n]]
      BY <1>3, <2>1
    <3> QED
      BY <1>1, <1>4, <2>1, <3>1, InvFields
  <2>2. CASE ticks # 0
    <3>1. blocked' = [blocked EXCEPT ![n] = ticks]
      BY <1>3, <2>2
    <3> QED
      BY <1>1, <1>4, <2>2, <3>1, InvFields
  <2> QED
    BY <2>1, <2>2
<1>6. usage[n] \in Usage /\ usage'[n] = AfterFailure(usage[n], kind, n \in Unknown \ known)
      /\ \A m \in Model : m # n => usage'[m] = usage[m]
  BY <1>1, <1>2, InvFields
<1>7. /\ usage'[n] \in Usage
      /\ usage'[n].in_flight = SaturatingSub(usage[n].in_flight, 1)
      /\ Calls(usage'[n]) <= Calls(usage[n])
      /\ NoHigher(usage[n], usage'[n])
  <2>1. ASSUME NEW unknown \in BOOLEAN
        PROVE  LET v == AfterFailure(usage[n], kind, unknown) IN
               /\ v \in Usage
               /\ v.in_flight = SaturatingSub(usage[n].in_flight, 1)
               /\ Calls(v) <= Calls(usage[n])
               /\ NoHigher(usage[n], v)
    BY <1>6, AfterFailureForm
  <2>2. (n \in Unknown \ known) \in BOOLEAN
    OBVIOUS
  <2> QED
    BY <1>6, <2>1, <2>2
<1>8. usage' \in [Model -> Usage]
  <2>1. usage' = [usage EXCEPT ![n] = usage'[n]]
    BY <1>2, <1>6
  <2> QED
    BY <1>7, <2>1, InvFields
<1>9. /\ strays' \in [Model -> Nat] /\ strays'[n] = strays[n] + 1 - op[c].owed
      /\ \A m \in Model : m # n => strays'[m] = strays[m]
  BY <1>1, <1>2, InvFields
<1>10. UNCHANGED <<known, transit, stale, leaked>>
  BY DEF ApplyFailure
<1> QED
  BY <1>1, <1>5, <1>6, <1>7, <1>8, <1>9, <1>10 DEF n, kind

(* A reported failure gives the slot back and, unless the answer did not     *)
(* parse, blocks what the call must not be given next.                       *)
LEMMA FailureBack ==
  ASSUME Inv, NEW c \in Client, ApplyFailure(c),
         NEW q \in Op, op' = [op EXCEPT ![c] = q], Shape(q), q.pc # "reserve", q.owed = 0,
         q.pc = "push" => q.model = op[c].model,
         \A m \in q.hot : m \in op[c].hot \/ (m = op[c].model /\ op[c].kind # "parse"),
         faults' \in 0..MaxFaults
  PROVE  StepEffect
<1>1. op'[c] = q /\ (\A v \in Worker : v # c => op'[v] = op[v]) /\ c \in Worker
  BY InvFields DEF Worker
<1>2. /\ \A m \in Model : blocked'[m] = blocked[m] \/ blocked'[m] > 0
      /\ op[c].kind # "parse" => blocked'[op[c].model] > 0
  BY FailureForm
<1>3. HotStep
  <2> SUFFICES ASSUME NEW v \in Worker, NEW m \in op'[v].hot
               PROVE  blocked'[m] > 0 \/ (m \in op[v].hot /\ blocked'[m] = blocked[m])
    BY DEF HotStep
  <2>1. m \in Model
    <3>1. op'[v] \in Op
      BY <1>1, InvFields
    <3> QED
      BY <3>1, OpFields
  <2>2. CASE v = c
    BY <1>1, <1>2, <2>1, <2>2
  <2>3. CASE v # c
    BY <1>1, <1>2, <2>1, <2>3
  <2> QED
    BY <2>2, <2>3
<1> DEFINE n == op[c].model
<1>4. /\ n \in Model /\ usage' \in [Model -> Usage] /\ UNCHANGED <<known, transit, stale, leaked>>
      /\ \A m \in Model : m # n => usage'[m] = usage[m] /\ strays'[m] = strays[m]
      /\ usage'[n].in_flight = SaturatingSub(usage[n].in_flight, 1)
      /\ Calls(usage'[n]) <= Calls(usage[n]) /\ NoHigher(usage[n], usage'[n])
      /\ blocked' \in [Model -> Nat] /\ strays' \in [Model -> Nat]
      /\ strays'[n] = strays[n] + 1 - op[c].owed
  BY FailureForm
<1>5. /\ op[c].model = n /\ c \in Worker /\ (q.pc = "push" => q.model = n)
      /\ \A m \in Model : m # n => usage'[m] = usage[m]
      /\ \A m \in Model : m # n => strays'[m] = strays[m]
  BY <1>1, <1>4
<1> HIDE DEF n
<1> QED
  BY <1>3, <1>4, <1>5, BackTurn

(* A report of a failure that is answered, or is not. *)
LEMMA FailureEffect ==
  ASSUME Inv, NEW c \in Client, ApplyFailure(c),
         ReportArrives(c) \/ (Fault /\ op' = [op EXCEPT ![c] = ReportAgain(Failed(@))])
  PROVE  StepEffect
<1> DEFINE o == op[c]
           n == op[c].model
           p == Failed(o)
<1>1. o \in Op /\ Shape(o) /\ c \in Worker /\ o.pc = "report"
  BY InvFields DEF Worker, ApplyFailure
<1>2. n \in Model
  BY <1>1 DEF Shape, Calling
<1>3. /\ p \in Op /\ p.pc = "report" /\ p.model = n /\ p.owed = 0
      /\ \A m \in p.hot : m \in o.hot \/ (m = n /\ o.kind # "parse")
  BY <1>1, <1>2, FailedForm
<1> HIDE DEF p
<1>4. Shape(p)
  BY <1>2, <1>3 DEF Shape, Calling, Returned
<1>5. ASSUME NEW q \in Op, op' = [op EXCEPT ![c] = q], Shape(q), q.pc # "reserve", q.owed = 0,
             q.pc = "push" => q.model = n, q.hot \subseteq p.hot, faults' \in 0..MaxFaults
      PROVE  StepEffect
  BY <1>3, <1>5, FailureBack
<1>6. CASE Fault /\ op' = [op EXCEPT ![c] = ReportAgain(Failed(@))]
  <2> DEFINE q == ReportAgain(p)
  <2>1. op' = [op EXCEPT ![c] = q] /\ faults' \in 0..MaxFaults
    BY <1>6, FaultForm DEF p
  <2>2. q \in Op /\ Shape(q) /\ q.hot \subseteq p.hot /\ q.pc \notin {"reserve", "push"} /\ q.owed = 0
    BY <1>3, <1>4, ReportAgainForm
  <2> HIDE DEF q
  <2> QED
    BY <1>5, <2>1, <2>2
<1>7. CASE ReportArrives(c)
  <2>1. /\ faults' \in 0..MaxFaults
        /\ \/ op' = [op EXCEPT ![c] = Reported(p)]
           \/ op' = [op EXCEPT ![c] = [p EXCEPT !.pc = "push"]]
    BY <1>7, InvFields DEF ReportArrives, p
  <2>2. CASE op' = [op EXCEPT ![c] = Reported(p)]
    <3> DEFINE q == Reported(p)
    <3>1. q \in Op /\ Shape(q) /\ q.hot \subseteq p.hot /\ q.owed = 0 /\ q.pc \notin {"reserve", "push"}
      BY <1>2, <1>3, ReportedForm
    <3>2. op' = [op EXCEPT ![c] = q]
      BY <2>2
    <3> HIDE DEF q
    <3> QED
      BY <1>5, <2>1, <3>1, <3>2
  <2>3. CASE op' = [op EXCEPT ![c] = [p EXCEPT !.pc = "push"]]
    <3> DEFINE q == [p EXCEPT !.pc = "push"]
    <3>1. q \in Op /\ q.pc = "push" /\ q.model = n /\ q.owed = 0 /\ q.hot = p.hot
      BY <1>3 DEF Op, PC
    <3>2. op' = [op EXCEPT ![c] = q]
      BY <2>3
    <3> HIDE DEF q
    <3>3. Shape(q)
      BY <1>2, <3>1 DEF Shape, Calling, Returned
    <3> QED
      BY <1>5, <2>1, <3>1, <3>2, <3>3
  <2> QED
    BY <2>1, <2>2, <2>3
<1> QED
  BY <1>6, <1>7

(* A call that is recorded goes from the jobs at work on it to its window. *)
LEMMA PushTurn ==
  ASSUME Inv, NEW w \in Worker, NEW q \in Op, op' = [op EXCEPT ![w] = q],
         Shape(q), q.hot \subseteq op[w].hot, q.pc \notin {"reserve", "push"}, q.owed = 0,
         op[w].pc = "push", usage' = [usage EXCEPT ![op[w].model] = Recorded(@)],
         UNCHANGED <<blocked, known, transit, stale, leaked, strays>>, faults' \in 0..MaxFaults
  PROVE  StepEffect
<1> DEFINE n == op[w].model
<1>1. /\ Turned(w, q)
      /\ \A v \in Worker : v # w => op'[v].peak = op[v].peak /\ op'[v].hot = op[v].hot
  BY AloneTurned
<1>2. n \in Model /\ op[w] \in Op /\ op[w].owed = 0
  BY InvFields DEF Shape, Calling, Returned
<1>3. usage[n] \in Usage /\ usage'[n] = Recorded(usage[n])
      /\ \A m \in Model : m # n => usage'[m] = usage[m]
  BY <1>2, InvFields
<1>4. /\ Recorded(usage[n]) \in Usage /\ Recorded(usage[n]).in_flight = usage[n].in_flight
      /\ NoHigher(usage[n], Recorded(usage[n])) /\ Calls(Recorded(usage[n])) <= Calls(usage[n]) + 1
  BY <1>3, RecordedForm
<1>5. usage' \in [Model -> Usage]
  BY <1>2, <1>3, <1>4, InvFields
<1>6. TypeOK'
  BY <1>1, <1>5, InvFields DEF TypeOK, Turned
<1>7. HotStep
  <2> SUFFICES ASSUME NEW v \in Worker, NEW m \in op'[v].hot
               PROVE  m \in op[v].hot /\ blocked'[m] = blocked[m]
    BY DEF HotStep
  <2> QED
    BY <1>1 DEF Turned
<1>8. ASSUME NEW m \in Model
      PROVE  /\ NoHigher(usage[m], usage'[m])
             /\ Moved(In(m), In(m)',
                      transit[m] + leaked[m] + Holds(op[w], m),
                      transit'[m] + leaked'[m] + Holds(q, m), strays[m], strays'[m],
                      Win(m) + Busies(op[w], m), Win(m)' + Busies(q, m))
  <2>1. Holds(op[w], m) = 0 /\ Holds(q, m) = 0 /\ Busies(q, m) = 0
    BY <1>2, HoldsForm
  <2>2. Win(m) \in Nat /\ Win(m)' \in Nat
    BY <1>6, NumbersType, NumbersNext
  <2>3. CASE m # n
    <3>1. NoHigher(usage[m], usage'[m]) /\ In(m)' = In(m) /\ Win(m)' = Win(m)
      BY <1>3, <2>3, SameBucket
    <3>2. Win(m)' + Busies(q, m) <= Win(m) + Busies(op[w], m)
      BY <2>1, <2>2, <3>1 DEF Busies
    <3> QED
      BY <2>1, <3>1, <3>2 DEF Moved
  <2>4. CASE m = n
    <3>1. NoHigher(usage[m], usage'[m]) /\ In(m)' = In(m) /\ Win(m)' <= Win(m) + 1
      BY <1>3, <1>4, <2>4 DEF In, Win, Calls
    <3>2. Busies(op[w], m) = 1
      BY <2>4 DEF Busies
    <3>3. Win(m)' + Busies(q, m) <= Win(m) + Busies(op[w], m)
      BY <2>1, <2>2, <3>1, <3>2
    <3> QED
      BY <2>1, <3>1, <3>3 DEF Moved
  <2> QED
    BY <2>3, <2>4
<1> QED
  BY <1>1, <1>6, <1>7, <1>8, TurnEffect

(* The second half of a report. *)
LEMMA PushEffect ==
  ASSUME Inv, NEW w \in Worker, Push(w)
  PROVE  StepEffect
<1> DEFINE o == op[w]
           q == IF w \in Client THEN Reported(o)
                ELSE IF o.kind = "success" THEN [o EXCEPT !.pc = "outcome"] ELSE NoCall
<1>1. o \in Op /\ Shape(o) /\ faults \in 0..MaxFaults
  BY InvFields
<1>2. /\ o.pc = "push" /\ op' = [op EXCEPT ![w] = q] /\ faults' = faults
      /\ usage' = [usage EXCEPT ![o.model] = Recorded(@)]
      /\ UNCHANGED <<blocked, known, transit, stale, leaked, strays>>
  BY DEF Push, history
<1>3. o.model \in Model /\ o.owed = 0
  BY <1>1, <1>2 DEF Shape, Calling, Returned
<1>4. q \in Op /\ Shape(q) /\ q.hot \subseteq o.hot /\ q.owed = 0 /\ q.pc \notin {"reserve", "push"}
  <2>1. CASE w \in Client
    BY <1>1, <1>3, <2>1, ReportedForm
  <2>2. CASE w \notin Client /\ o.kind = "success"
    <3> DEFINE p == [o EXCEPT !.pc = "outcome"]
    <3>1. p \in Op /\ p.pc = "outcome" /\ p.model = o.model /\ p.owed = 0 /\ p.hot = o.hot
      BY <1>1, <1>3 DEF Op, PC
    <3>2. q = p
      BY <2>2
    <3> HIDE DEF p, q
    <3>3. Shape(p)
      BY <1>3, <3>1 DEF Shape, Calling, Returned
    <3> QED
      BY <3>1, <3>2, <3>3
  <2>3. CASE w \notin Client /\ o.kind # "success"
    BY <2>3, NoCallForm
  <2> QED
    BY <2>1, <2>2, <2>3
<1> HIDE DEF q
<1> QED
  BY <1>1, <1>2, <1>4, PushTurn

(* A report whose answer is lost after its job has ended. *)
LEMMA UnansweredEffect ==
  ASSUME Inv, NEW c \in Client, ReportUnanswered(c)
  PROVE  StepEffect
<1> DEFINE o == op[c]
           q == ReportAgain(o)
<1>1. CASE ApplyFailure(c) /\ op' = [op EXCEPT ![c] = ReportAgain(Failed(@))]
  BY <1>1, FailureEffect DEF ReportUnanswered
<1>2. CASE /\ o.pc = "push" /\ usage' = [usage EXCEPT ![o.model] = Recorded(@)]
           /\ op' = [op EXCEPT ![c] = ReportAgain(@)]
           /\ UNCHANGED <<blocked, known, transit, stale, history>>
  <2>1. o \in Op /\ Shape(o) /\ c \in Worker
    BY InvFields DEF Worker
  <2>2. o.owed = 0 /\ faults' \in 0..MaxFaults
    BY <1>2, <2>1, FaultForm DEF Shape, Calling, Returned, ReportUnanswered
  <2>3. q \in Op /\ Shape(q) /\ q.hot \subseteq o.hot /\ q.owed = 0 /\ q.pc \notin {"reserve", "push"}
    BY <1>2, <2>1, <2>2, ReportAgainForm
  <2>4. op' = [op EXCEPT ![c] = q]
    BY <1>2
  <2> HIDE DEF q
  <2> QED
    BY <1>2, <2>1, <2>2, <2>3, <2>4, PushTurn DEF history
<1> QED
  BY <1>1, <1>2 DEF ReportUnanswered

(* A select that gets model n leaves the race with a slot more. *)
LEMMA ReserveEffect ==
  ASSUME Inv, NEW w \in Worker, op[w].pc = "reserve", NEW n \in op[w].allowed,
         usage' = [usage EXCEPT ![n] = TryReserved(@)],
         op' = [op EXCEPT ![w] = [@ EXCEPT !.pc = "answering", !.allowed = {}, !.model = n,
                                           !.owed = 1, !.peak = NoCall.peak]],
         UNCHANGED <<blocked, known, transit, stale, leaked, strays, faults>>
  PROVE  /\ StepEffect
         /\ n \in Model /\ op'[w].model = n /\ op'[w].pc = "answering"
         /\ In(n)' = In(n) + 1 /\ Win(n)' = Win(n)
         /\ \A v \in Worker : v # w => op'[v] = op[v]
<1> DEFINE o == op[w]
           q == [o EXCEPT !.pc = "answering", !.allowed = {}, !.model = n,
                          !.owed = 1, !.peak = NoCall.peak]
<1>1. o \in Op /\ Shape(o) /\ n \in Model
  BY InvFields, OpFields
<1>2. q \in Op /\ q.pc = "answering" /\ q.owed = 1 /\ q.model = n /\ q.hot = o.hot
  <2>0. NoCall.peak \in [Model -> Nat \cup {NotLearned}] /\ "answering" \in PC
    BY NoCallForm DEF PC
  <2>1. q \in Op
    BY <1>1, <2>0 DEF Op
  <2>2. q.pc = "answering" /\ q.owed = 1 /\ q.model = n /\ q.hot = o.hot
    BY <1>1 DEF Op
  <2> QED
    BY <2>1, <2>2
<1>3. op' = [op EXCEPT ![w] = q]
  OBVIOUS
<1> HIDE DEF q
<1>4. Shape(q)
  BY <1>1, <1>2 DEF Shape, Calling, Returned
<1>5. /\ Turned(w, q) /\ op'[w] = q /\ \A v \in Worker : v # w => op'[v] = op[v]
      /\ \A v \in Worker : v # w => op'[v].peak = op[v].peak
  BY <1>2, <1>3, <1>4, AloneTurned, InvFields
<1>6. usage[n] \in Usage /\ usage'[n] = TryReserved(usage[n])
      /\ \A m \in Model : m # n => usage'[m] = usage[m]
  BY <1>1, InvFields
<1>7. /\ TryReserved(usage[n]) \in Usage
      /\ TryReserved(usage[n]).in_flight = usage[n].in_flight + 1
      /\ TryReserved(usage[n]).rpm = usage[n].rpm /\ NoHigher(usage[n], TryReserved(usage[n]))
  BY <1>6, ReservationForm
<1>8. usage' \in [Model -> Usage]
  BY <1>1, <1>6, <1>7, InvFields
<1>9. TypeOK'
  BY <1>5, <1>8, InvFields DEF TypeOK, Turned
<1>10. HotStep
  <2> SUFFICES ASSUME NEW v \in Worker, NEW m \in op'[v].hot
               PROVE  m \in op[v].hot /\ blocked'[m] = blocked[m]
    BY DEF HotStep
  <2> QED
    BY <1>2, <1>5
<1>11. In(n)' = In(n) + 1 /\ Win(n)' = Win(n)
  BY <1>6, <1>7 DEF In, Win
<1>12. ASSUME NEW m \in Model
       PROVE  /\ NoHigher(usage[m], usage'[m])
              /\ Moved(In(m), In(m)',
                       transit[m] + leaked[m] + Holds(op[w], m),
                       transit'[m] + leaked'[m] + Holds(q, m), strays[m], strays'[m],
                       Win(m) + Busies(op[w], m), Win(m)' + Busies(q, m))
  <2>1. /\ Holds(o, m) = 0 /\ Busies(q, m) = 0 /\ Holds(q, m) = IF m = n THEN 1 ELSE 0
    BY <1>1, <1>2, HoldsForm DEF Shape, Calling
  <2>2. Win(m) \in Nat /\ Busies(o, m) \in {0, 1} /\ transit[m] \in Nat /\ leaked[m] \in Nat
    BY <1>1, NumbersType, HoldsForm
  <2>3. CASE m # n
    <3>1. NoHigher(usage[m], usage'[m]) /\ In(m)' = In(m) /\ Win(m)' = Win(m)
      BY <1>6, <2>3, SameBucket
    <3>2. Win(m)' + Busies(q, m) <= Win(m) + Busies(o, m)
      BY <2>1, <2>2, <3>1
    <3> QED
      BY <2>1, <2>3, <3>1, <3>2 DEF Moved
  <2>4. CASE m = n
    <3>1. Busies(o, m) = 1 /\ NoHigher(usage[m], usage'[m])
      BY <1>6, <1>7, <2>4 DEF Busies
    <3>2. Win(m)' + Busies(q, m) + 1 <= Win(m) + Busies(o, m)
      BY <1>11, <2>1, <2>2, <2>4, <3>1
    <3>3. transit'[m] + leaked'[m] + Holds(q, m) = (transit[m] + leaked[m] + Holds(o, m)) + 1
      BY <2>1, <2>2, <2>4
    <3> QED
      BY <1>11, <2>4, <3>1, <3>2, <3>3 DEF Moved
  <2> QED
    BY <2>3, <2>4
<1>13. StepEffect
  BY <1>2, <1>5, <1>9, <1>10, <1>12, TurnEffect
<1> QED
  BY <1>1, <1>2, <1>5, <1>11, <1>13

(* A select that no cap lets in is refused. *)
LEMMA RefusedEffect ==
  ASSUME Inv, NEW w \in Worker, op[w].pc = "reserve",
         op' = [op EXCEPT ![w] = Refused(w, {InFlightHint})],
         UNCHANGED <<usage, blocked, known, transit, stale, leaked, strays, faults>>
  PROVE  StepEffect /\ op'[w].model = NoModel
<1> DEFINE o == op[w]
           q == Refused(w, {InFlightHint})
<1>1. o \in Op /\ Shape(o) /\ o.pc \notin Calling /\ faults \in 0..MaxFaults
  BY InvFields DEF Calling
<1>2. o.owed = 0
  BY <1>1 DEF Shape
<1>3. /\ q \in Op /\ Shape(q) /\ q.hot \subseteq o.hot /\ q.owed = 0
      /\ q.pc \notin {"reserve", "push"} /\ q.model = NoModel
  BY <1>1, RefusedForm
<1> HIDE DEF q
<1>4. \A m \in Model : Holds(q, m) = Holds(o, m)
  BY <1>1, <1>2, <1>3, HoldsForm
<1>5. op' = [op EXCEPT ![w] = q]
  BY DEF q
<1>6. op'[w] = q
  BY <1>5, InvFields
<1> QED
  BY <1>1, <1>3, <1>4, <1>5, <1>6, PlainTurn
-----------------------------------------------------------------------------
(* The gates. *)

(* Looking at a model changes what no gate reads: it drains its windows. *)
LEMMA LookedForm ==
  ASSUME Inv, NEW m \in Model
  PROVE  /\ Looked(m) \in Usage /\ Looked(m).in_flight = usage[m].in_flight
         /\ Looked(m).learned = usage[m].learned /\ Looked(m).announced = usage[m].announced
         /\ Calls(Looked(m)) <= Calls(usage[m])
<1>1. usage[m] \in Usage /\ Calls(usage[m]) <= Calls(usage[m])
  BY InvFields, UsageFields
<1>2. Looked(m) \in {usage[m], LookedAt(usage[m]), Scored(usage[m])}
  BY DEF Looked
<1> QED
  BY <1>1, <1>2, LookedAtForm

(* The models that a select at its gates may give w. *)
Joins(w, m) ==
  op'[w].pc = "reserve" /\ m \in op'[w].allowed
    => Open(m) /\ ~Full(m) /\ op'[w].peak[m] = Ceiling(m)

(* A select at its gates only drains windows, and joins the race for the     *)
(* models that are open and not full.                                        *)
LEMMA GateEffect ==
  ASSUME Inv, NEW w \in Worker, Gate(w)
  PROVE  /\ StepEffect
         /\ \A m \in Model : /\ Looks(m) /\ Joins(w, m)
                             /\ usage'[m].learned = usage[m].learned
                             /\ usage'[m].announced = usage[m].announced
         /\ Turned(w, op'[w]) /\ op[w].pc = "select"
         /\ \A v \in Worker : v # w => op'[v] = op[v]
         /\ op'[w].allowed = {} \/ op'[w].pc = "reserve"
<1> DEFINE o == op[w]
           tried == Model \ o.skip
           open == {m \in tried : Open(m) /\ ~Full(m)}
           peak == [m \in Model |-> IF m \in open THEN Ceiling(m) ELSE NotLearned]
           r == Refused(w, RetryAfter(tried))
           s == [o EXCEPT !.pc = "reserve", !.allowed = open, !.peak = peak]
           q == IF open = {} THEN r ELSE s
<1>1. /\ o.pc = "select"
      /\ usage' = [m \in Model |-> IF m \in tried /\ Open(m) THEN Looked(m) ELSE usage[m]]
      /\ UNCHANGED <<blocked, known, transit, stale, leaked, strays, faults>>
  BY DEF Gate, history
<1>2. op' = [op EXCEPT ![w] = q]
  BY DEF Gate
<1>3. o \in Op /\ Shape(o) /\ o.pc \notin Calling
  BY <1>1, InvFields DEF Calling
<1>4. o.owed = 0 /\ o.model = NoModel
  BY <1>3 DEF Shape
<1>5. /\ r \in Op /\ Shape(r) /\ r.hot \subseteq o.hot /\ r.owed = 0 /\ r.allowed = {}
  BY <1>3, RefusedForm
<1>6. /\ open \in SUBSET Model /\ peak \in [Model -> Nat \cup {NotLearned}]
      /\ \A m \in open : peak[m] = Ceiling(m) /\ Open(m) /\ ~Full(m)
  <2>1. \A m \in Model : Ceiling(m) \in Nat \cup {NotLearned}
    BY InvFields, UsageFields DEF Ceiling
  <2>2. open \in SUBSET Model /\ \A m \in open : Open(m) /\ ~Full(m)
    OBVIOUS
  <2> HIDE DEF open
  <2> QED
    BY <2>1, <2>2
<1> HIDE DEF r, open, peak, tried
<1>7. /\ s \in Op /\ s.pc = "reserve" /\ s.allowed = open /\ s.peak = peak
      /\ s.owed = 0 /\ s.model = NoModel /\ s.hot = o.hot
  BY <1>3, <1>4, <1>6 DEF Op, PC
<1> HIDE DEF s
<1>8. Shape(s)
  BY <1>7 DEF Shape, Calling, Returned
<1>9. /\ q \in Op /\ Shape(q) /\ q.hot \subseteq o.hot /\ q.owed = 0
      /\ q.allowed = {} \/ (q.pc = "reserve" /\ q.allowed = open /\ q.peak = peak)
  BY <1>5, <1>7, <1>8
<1> HIDE DEF q
<1>10. op'[w] = q /\ (\A v \in Worker : v # w => op'[v] = op[v]) /\ Turned(w, q)
  BY <1>2, <1>9, InvFields, AloneTurned
<1>11. ASSUME NEW m \in Model
       PROVE  /\ usage'[m] \in Usage /\ usage'[m].in_flight = usage[m].in_flight
              /\ usage'[m].learned = usage[m].learned
              /\ usage'[m].announced = usage[m].announced
              /\ Calls(usage'[m]) <= Calls(usage[m])
  <2>1. usage'[m] \in {usage[m], Looked(m)}
    BY <1>1
  <2>2. usage[m] \in Usage /\ Calls(usage[m]) <= Calls(usage[m])
    BY InvFields, UsageFields
  <2> QED
    BY <2>1, <2>2, LookedForm
<1>12. usage' \in [Model -> Usage]
  BY <1>1, <1>11
<1>13. TypeOK'
  BY <1>1, <1>10, <1>12, InvFields DEF TypeOK, Turned
<1>14. Shaped'
  BY <1>9, <1>10, InvFields DEF Shaped
<1>15. HotStep
  <2> SUFFICES ASSUME NEW v \in Worker, NEW m \in op'[v].hot
               PROVE  m \in op[v].hot /\ blocked'[m] = blocked[m]
    BY DEF HotStep
  <2> QED
    BY <1>1, <1>9, <1>10
<1>16. ASSUME NEW m \in Model
       PROVE  Looks(m) /\ Joins(w, m)
  <2>1. In(m)' = In(m) /\ Win(m)' <= Win(m)
    BY <1>11 DEF In, Win, Calls
  <2>2. Due(m)' = Due(m)
    <3>1. Holds(o, m) = 0 /\ Holds(q, m) = 0
      BY <1>3, <1>4, <1>9, HoldsForm
    <3>2. /\ Cardinality(Owners(m))' = Cardinality(Owners(m)) - Holds(o, m) + Holds(q, m)
          /\ Due(m)' = transit'[m] + Cardinality(Owners(m))' + leaked'[m]
      BY <1>10, TurnCounts
    <3>3. Cardinality(Owners(m))' = Cardinality(Owners(m))
      BY <3>1, <3>2, NumbersType
    <3> QED
      BY <1>1, <3>2, <3>3, NumbersType
  <2>3. Joins(w, m)
    BY <1>6, <1>9, <1>10 DEF Joins
  <2> QED
    BY <1>1, <2>1, <2>2, <2>3 DEF Looks
<1>17. StepEffect
  BY <1>13, <1>14, <1>15, <1>16 DEF StepEffect, GateTaken
<1> QED
  BY <1>1, <1>9, <1>10, <1>11, <1>16, <1>17

(* Whoever joins the race has seen room under the ceiling: the calls counted *)
(* with the room of every job that may be at work stay within it.            *)
LEMMA GateWithin ==
  ASSUME Inv, NEW m \in Model, Balance(m), WithinFor(m), NEW w \in Worker, Gate(w)
  PROVE  WithinFor(m)'
<1>1. /\ Looks(m) /\ Joins(w, m) /\ usage'[m].learned = usage[m].learned
      /\ usage'[m].announced = usage[m].announced
      /\ Turned(w, op'[w]) /\ op[w].pc = "select" /\ TypeOK'
      /\ \A v \in Worker : v # w => op'[v] = op[v]
  BY GateEffect DEF StepEffect
<1> DEFINE l == usage[m].learned
           n == Cardinality(Worker)
           s == strays[m]
           i == In(m)
           x == Win(m)
           d == Due(m)
           y == Win(m)'
           b == Cardinality(Busy(m))'
           k == y + b + d + 1
<1>2. /\ i \in Nat /\ x \in Nat /\ d \in Nat /\ s \in Nat /\ y \in Nat /\ b \in Nat
      /\ n \in Nat /\ b <= n /\ y <= x /\ l \in Nat \cup {NotLearned}
      /\ Load(m)' + Due(m)' + 1 = k /\ strays'[m] = s
  <2>1. /\ i \in Nat /\ x \in Nat /\ d \in Nat /\ s \in Nat /\ y \in Nat /\ b \in Nat /\ b <= n
    BY <1>1, NumbersType, NumbersNext
  <2>2. n \in Nat /\ l \in Nat \cup {NotLearned}
    BY WorkerFinite, InvFields, UsageFields
  <2>3. y <= x /\ Due(m)' = d /\ strays'[m] = s
    BY <1>1 DEF Looks
  <2>4. Load(m)' = y + b
    BY DEF Load
  <2> QED
    BY <2>1, <2>2, <2>3, <2>4
<1> SUFFICES ASSUME NEW v \in Racing(m)', op'[v].peak[m] # NotLearned
             PROVE  /\ ~usage[m].announced /\ l # NotLearned /\ l <= op'[v].peak[m]
                    /\ k <= op'[v].peak[m] + n + s
  BY <1>1, <1>2 DEF WithinFor, InForce
<1>3. v \in Worker /\ op'[v].pc = "reserve" /\ m \in op'[v].allowed
  BY DEF Racing
<1>4. op'[v].peak[m] \in Nat
  <2>1. op'[v] \in Op
    BY <1>1, <1>3 DEF Turned
  <2> QED
    BY <2>1, OpFields
<1>5. v # w => /\ v \in Racing(m) /\ op'[v] = op[v]
               /\ InForce(m, op[v].peak[m])
               /\ Load(m) + Due(m) + 1 <= op[v].peak[m] + n + s
  <2> SUFFICES ASSUME v # w
               PROVE  /\ v \in Racing(m) /\ op'[v] = op[v]
                      /\ InForce(m, op[v].peak[m])
                      /\ Load(m) + Due(m) + 1 <= op[v].peak[m] + n + s
    OBVIOUS
  <2>1. op'[v] = op[v] /\ v \in Racing(m)
    BY <1>1, <1>3 DEF Racing
  <2> QED
    BY <2>1 DEF WithinFor
<1>6. CASE op'[w].pc = "reserve" /\ m \in op'[w].allowed
  <2>1. ~Full(m) /\ op'[w].peak[m] = Ceiling(m)
    BY <1>1, <1>6 DEF Joins
  <2>2. ~usage[m].announced /\ l # NotLearned /\ l <= op'[v].peak[m]
    <3>1. CASE v = w
      <4>1. ~usage[m].announced /\ op'[v].peak[m] = l
        BY <2>1, <3>1 DEF Ceiling
      <4> QED
        BY <1>2, <1>4, <4>1
    <3>2. CASE v # w
      BY <1>5, <3>2 DEF InForce
    <3> QED
      BY <3>1, <3>2
  <2>3. i + x < l /\ l \in Nat
    <3>1. ~(Used(usage[m]) >= l) /\ l \in Nat
      BY <1>2, <2>1, <2>2 DEF Full, LearnedExhausted
    <3>2. Used(usage[m]) = i + x
      BY DEF Used, In, Win
    <3> HIDE DEF l
    <3> QED
      BY <1>2, <3>1, <3>2
  <2>4. d <= i + s
    BY DEF Balance
  <2> DEFINE p == op'[v].peak[m]
  <2>5. p \in Nat /\ l <= p
    BY <1>4, <2>2
  <2> HIDE DEF p, l, n, s, i, x, d, y, b
  <2>6. k <= p + n + s
    BY <1>2, <2>3, <2>4, <2>5
  <2> QED
    BY <2>2, <2>6 DEF p
<1>7. CASE ~(op'[w].pc = "reserve" /\ m \in op'[w].allowed)
  <2>1. v # w
    BY <1>3, <1>7
  <2>2. b <= Cardinality(Busy(m)) /\ Cardinality(Busy(m)) \in Nat
    <3>1. Busies(op'[w], m) = 0 \/ op'[w].pc = "push"
      BY <1>7 DEF Busies
    <3>2. op'[w].pc # "push"
      <4>1. op'[w].allowed = {} \/ op'[w].pc = "reserve"
        BY GateEffect
      <4>2. PICK hints : op'[w].pc = "reserve" \/ op'[w] = Refused(w, hints)
        <5>1. op[w] \in Op
          BY InvFields
        <5> QED
          BY <5>1, InvFields DEF Gate, Op
      <4>3. Refused(w, hints).pc # "push"
        BY <1>1, InvFields, RefusedForm DEF Calling
      <4> QED
        BY <4>2, <4>3
    <3>3. /\ b = Cardinality(Busy(m)) - Busies(op[w], m) + Busies(op'[w], m)
          /\ Busies(op[w], m) \in {0, 1}
      BY <1>1, TurnCounts
    <3>4. Cardinality(Busy(m)) \in Nat
      BY NumbersType
    <3> HIDE DEF b
    <3> QED
      BY <3>1, <3>2, <3>3, <3>4
  <2>3. /\ ~usage[m].announced /\ l # NotLearned /\ l <= op[v].peak[m] /\ op'[v] = op[v]
        /\ x + Cardinality(Busy(m)) + d + 1 <= op[v].peak[m] + n + s
    BY <1>5, <2>1 DEF InForce, Load
  <2> DEFINE p == op[v].peak[m]
             c == Cardinality(Busy(m))
  <2>4. p \in Nat /\ c \in Nat /\ b <= c /\ x + c + d + 1 <= p + n + s
    BY <1>4, <2>2, <2>3
  <2> HIDE DEF p, l, n, s, i, x, d, y, b, c
  <2>5. k <= p + n + s
    BY <1>2, <2>4
  <2> QED
    BY <2>3, <2>5 DEF p
<1> QED
  BY <1>6, <1>7
-----------------------------------------------------------------------------
(* A job that goes on without its client. *)

(* A set in which t takes the place of c has as many elements. *)
LEMMA Swapped ==
  ASSUME NEW c \in Worker, NEW t \in Worker, c # t,
         NEW S \in SUBSET Worker, NEW T \in SUBSET Worker,
         t \notin S, c \notin T, c \in S <=> t \in T,
         \A v \in Worker : v # c /\ v # t => (v \in S <=> v \in T)
  PROVE  Cardinality(T) = Cardinality(S)
<1> DEFINE R == S \ {c}
<1>1. /\ R \in SUBSET Worker /\ c \notin R /\ t \notin R
      /\ \A v \in Worker : v # c => (v \in S <=> v \in R)
      /\ \A v \in Worker : v # t => (v \in R <=> v \in T)
  OBVIOUS
<1> HIDE DEF R
<1>2. /\ Cardinality(S) \in Nat /\ Cardinality(R) \in Nat
      /\ Cardinality(R) = Cardinality(S) - (IF c \in S THEN 1 ELSE 0) + 0
  BY <1>1, Recounted
<1>3. /\ Cardinality(T) \in Nat
      /\ Cardinality(T) = Cardinality(R) - 0 + (IF t \in T THEN 1 ELSE 0)
  BY <1>1, Recounted
<1> QED
  BY <1>2, <1>3

(* What the call of c was at work on, or holds, the job of t is and does. *)
LEMMA Handed ==
  ASSUME Inv, NEW c \in Client, NEW t \in Thread, NEW q \in Op, NEW r \in Op,
         op' = [op EXCEPT ![c] = q, ![t] = r], op[t].pc = "idle", Shape(q), Shape(r),
         q.hot \subseteq op[c].hot, r.hot = {}, q.owed = 0, q.pc \notin {"reserve", "push"},
         r.owed = op[c].owed, r.model = op[c].model, r.pc = op[c].pc,
         r.pc = "reserve" => r.allowed = op[c].allowed /\ r.peak = op[c].peak, Fault,
         UNCHANGED <<usage, blocked, known, transit, stale, leaked, strays>>
  PROVE  StepEffect
<1>1. c \in Worker /\ t \in Worker /\ c # t
  BY SplitFlowAssumption DEF Worker
<1>2. op'[c] = q /\ op'[t] = r /\ \A v \in Worker : v # c /\ v # t => op'[v] = op[v]
  BY <1>1, InvFields
<1>3. TypeOK'
  BY <1>1, InvFields, FaultForm DEF TypeOK
<1>4. Shaped'
  BY <1>2, InvFields DEF Shaped
<1>5. HotStep
  <2> SUFFICES ASSUME NEW v \in Worker, NEW m \in op'[v].hot
               PROVE  m \in op[v].hot /\ blocked'[m] = blocked[m]
    BY DEF HotStep
  <2> QED
    BY <1>2
<1>6. op[t].owed = 0
  BY <1>1, InvFields DEF Shape, Calling
<1>7. ASSUME NEW m \in Model
      PROVE  Booked(m) /\ RaceStep(m)
  <2>1. Cardinality(Owners(m))' = Cardinality(Owners(m))
    <3>1. /\ t \notin Owners(m) /\ c \notin Owners(m)' /\ (c \in Owners(m) <=> t \in Owners(m)')
          /\ \A v \in Worker : v # c /\ v # t => (v \in Owners(m) <=> v \in Owners(m)')
          /\ Owners(m) \in SUBSET Worker /\ Owners(m)' \in SUBSET Worker
      <4>1. t \notin Owners(m)
        BY <1>6 DEF Owners
      <4>2. c \notin Owners(m)'
        BY <1>2 DEF Owners
      <4>3. c \in Owners(m) <=> t \in Owners(m)'
        BY <1>1, <1>2 DEF Owners
      <4>4. \A v \in Worker : v # c /\ v # t => (v \in Owners(m) <=> v \in Owners(m)')
        BY <1>2 DEF Owners
      <4>5. Owners(m) \in SUBSET Worker /\ Owners(m)' \in SUBSET Worker
        BY DEF Owners
      <4> QED
        BY <4>1, <4>2, <4>3, <4>4, <4>5
    <3> DEFINE S == Owners(m)
               T == Owners(m)'
    <3> HIDE DEF S, T
    <3>2. Cardinality(T) = Cardinality(S)
      BY <1>1, <3>1, Swapped DEF S, T
    <3> QED
      BY <3>2 DEF S, T
  <2>2. Cardinality(Busy(m))' = Cardinality(Busy(m))
    <3>1. /\ t \notin Busy(m) /\ c \notin Busy(m)' /\ (c \in Busy(m) <=> t \in Busy(m)')
          /\ \A v \in Worker : v # c /\ v # t => (v \in Busy(m) <=> v \in Busy(m)')
          /\ Busy(m) \in SUBSET Worker /\ Busy(m)' \in SUBSET Worker
      <4>1. t \notin Busy(m)
        BY DEF Busy
      <4>2. c \notin Busy(m)'
        BY <1>2 DEF Busy
      <4>3. c \in Busy(m) <=> t \in Busy(m)'
        BY <1>1, <1>2 DEF Busy
      <4>4. \A v \in Worker : v # c /\ v # t => (v \in Busy(m) <=> v \in Busy(m)')
        BY <1>2 DEF Busy
      <4>5. Busy(m) \in SUBSET Worker /\ Busy(m)' \in SUBSET Worker
        BY DEF Busy
      <4> QED
        BY <4>1, <4>2, <4>3, <4>4, <4>5
    <3> DEFINE S == Busy(m)
               T == Busy(m)'
    <3> HIDE DEF S, T
    <3>2. Cardinality(T) = Cardinality(S)
      BY <1>1, <3>1, Swapped DEF S, T
    <3> QED
      BY <3>2 DEF S, T
  <2>3. NoHigher(usage[m], usage'[m]) /\ In(m)' = In(m) /\ Win(m)' = Win(m) /\ usage'[m] \in Usage
    BY SameBucket
  <2>4. Due(m)' = Due(m) /\ Load(m)' = Load(m)
    BY <1>3, <2>1, <2>2, <2>3, NumbersType, NumbersNext DEF Load
  <2>5. Booked(m)
    <3>1. Load(m)' <= Load(m)
      BY <2>4, NumbersType
    <3> QED
      BY <2>3, <2>4, <3>1 DEF Booked, Moved
  <2>6. RaceStep(m)
    <3> SUFFICES ASSUME NEW v \in Racing(m)'
                 PROVE  \E u \in Racing(m) : Sees(u, v, m)
      BY DEF RaceStep
    <3>1. v \in Worker /\ op'[v].pc = "reserve" /\ m \in op'[v].allowed
      BY DEF Racing
    <3>2. CASE v = t
      <4>1. c \in Racing(m) /\ op'[t].peak = op[c].peak
        BY <1>1, <1>2, <3>1, <3>2 DEF Racing
      <4> QED
        BY <1>1, <2>3, <3>2, <4>1, StaySees
    <3>3. CASE v # t
      <4>1. v \in Racing(m) /\ op'[v].peak = op[v].peak
        BY <1>2, <3>1, <3>3 DEF Racing
      <4> QED
        BY <2>3, <3>1, <4>1, StaySees
    <3> QED
      BY <3>2, <3>3
  <2> QED
    BY <2>5, <2>6
<1> QED
  BY <1>3, <1>4, <1>5, <1>7 DEF StepEffect

(* A client that times out leaves its select, or its report, to a thread. *)
LEMMA HandEffect ==
  ASSUME Inv, NEW c \in Client, NEW t \in Thread, TimeOut(c, t) \/ ReportTimesOut(c, t)
  PROVE  StepEffect
<1> DEFINE o == op[c]
<1>1. o \in Op /\ Shape(o) /\ 0 \in 0..MaxRetries
  BY InvFields, SplitFlowAssumption DEF Worker
<1>2. /\ op[t].pc = "idle" /\ Fault
      /\ UNCHANGED <<usage, blocked, known, transit, stale, leaked, strays>>
  BY DEF TimeOut, ReportTimesOut, history
<1>3. CASE TimeOut(c, t)
  <2> DEFINE q == AskAgain(o)
             r == [o EXCEPT !.tries = 0, !.hot = {}]
  <2>1. op' = [op EXCEPT ![c] = q, ![t] = r]
    BY <1>3 DEF TimeOut
  <2>2. q \in Op /\ Shape(q) /\ q.hot \subseteq o.hot /\ q.owed = 0 /\ q.pc \notin {"reserve", "push"}
    BY <1>1, AskAgainForm
  <2>3. /\ r \in Op /\ r.hot = {} /\ r.owed = o.owed /\ r.model = o.model /\ r.pc = o.pc
        /\ r.allowed = o.allowed /\ r.peak = o.peak
    BY <1>1 DEF Op
  <2> HIDE DEF q, r
  <2>4. Shape(r)
    BY <1>1, <2>3 DEF Shape
  <2> QED
    BY <1>1, <1>2, <2>1, <2>2, <2>3, <2>4, Handed
<1>4. CASE ReportTimesOut(c, t)
  <2> DEFINE q == ReportAgain(o)
             r == [NoCall EXCEPT !.pc = "push", !.model = o.model]
  <2>1. op' = [op EXCEPT ![c] = q, ![t] = r] /\ o.pc = "push"
    BY <1>4 DEF ReportTimesOut
  <2>2. o.model \in Model /\ o.owed = 0
    BY <1>1, <2>1 DEF Shape, Calling, Returned
  <2>3. q \in Op /\ Shape(q) /\ q.hot \subseteq o.hot /\ q.owed = 0 /\ q.pc \notin {"reserve", "push"}
    BY <1>1, <2>1, <2>2, ReportAgainForm
  <2>4. r \in Op /\ r.hot = {} /\ r.owed = 0 /\ r.model = o.model /\ r.pc = "push"
    BY <2>2, NoCallForm DEF Op, PC
  <2> HIDE DEF q, r
  <2>5. Shape(r)
    BY <2>2, <2>4 DEF Shape, Calling, Returned
  <2> QED
    BY <1>1, <1>2, <2>1, <2>2, <2>3, <2>4, <2>5, Handed
<1> QED
  BY <1>3, <1>4
-----------------------------------------------------------------------------
(* The reports of successes. *)

(* A report of a success gives back the slot it is for, or one that is not   *)
(* due; the same report may be due twice only when it is stale.              *)
LEMMA SuccessEffect ==
  ASSUME Inv, NEW n \in Model, NEW t \in Thread, DeliverSuccess(n, t) \/ DuplicateSuccess(n, t)
  PROVE  StepEffect
<1> DEFINE q == [NoCall EXCEPT !.pc = "push", !.model = n, !.kind = "success"]
<1>1. /\ op[t].pc = "idle" /\ usage' = [usage EXCEPT ![n] = CancelledReservation(@)]
      /\ blocked' = [blocked EXCEPT ![n] = 0] /\ known' = known
      /\ op' = [w \in Worker |-> IF w = t THEN q ELSE [op[w] EXCEPT !.hot = @ \ {n}]]
  BY DEF DeliverSuccess, DuplicateSuccess, ApplySuccess
<1>2. q \in Op /\ q.pc = "push" /\ q.model = n /\ q.owed = 0 /\ q.hot = {}
  BY NoCallForm DEF Op, PC, Kind
<1> HIDE DEF q
<1>3. Shape(q)
  BY <1>2 DEF Shape, Calling, Returned
<1>4. t \in Worker /\ op'[t] = q
  BY <1>1 DEF Worker
<1>5. ASSUME NEW v \in Worker, v # t
      PROVE  /\ op'[v] \in Op /\ op'[v].pc = op[v].pc /\ op'[v].allowed = op[v].allowed
             /\ op'[v].owed = op[v].owed /\ op'[v].model = op[v].model
             /\ op'[v].hot = op[v].hot \ {n} /\ op'[v].peak = op[v].peak
  <2> DEFINE h == op[v].hot \ {n}
  <2>1. op[v] \in Op /\ h \in SUBSET Model
    BY InvFields, OpFields
  <2>2. op'[v] = [op[v] EXCEPT !.hot = h]
    BY <1>1, <1>5
  <2> HIDE DEF h
  <2>3. /\ op'[v] \in Op /\ op'[v].pc = op[v].pc /\ op'[v].allowed = op[v].allowed
        /\ op'[v].owed = op[v].owed /\ op'[v].model = op[v].model
        /\ op'[v].hot = h /\ op'[v].peak = op[v].peak
    BY <2>1, <2>2 DEF Op
  <2> QED
    BY <2>3 DEF h
<1>6. op' \in [Worker -> Op]
  <2>1. op' = [w \in Worker |-> op'[w]]
    BY <1>1
  <2>2. \A w \in Worker : op'[w] \in Op
    BY <1>2, <1>4, <1>5
  <2> QED
    BY <2>1, <2>2
<1>7. Turned(t, q)
  BY <1>3, <1>4, <1>5, <1>6 DEF Turned
<1>8. usage[n] \in Usage /\ usage'[n] = CancelledReservation(usage[n])
      /\ \A m \in Model : m # n => usage'[m] = usage[m]
  BY <1>1, InvFields
<1>9. /\ CancelledReservation(usage[n]) \in Usage
      /\ CancelledReservation(usage[n]).in_flight = SaturatingSub(usage[n].in_flight, 1)
      /\ CancelledReservation(usage[n]).rpm = usage[n].rpm
      /\ NoHigher(usage[n], CancelledReservation(usage[n]))
  BY <1>8, ReservationForm
<1>10. usage' \in [Model -> Usage] /\ blocked' \in [Model -> Nat]
  BY <1>1, <1>8, <1>9, InvFields
<1>11. leaked' = leaked /\ faults' \in 0..MaxFaults
  BY InvFields, FaultForm DEF DeliverSuccess, DuplicateSuccess, history
<1>12. /\ transit' \in [Model -> Nat] /\ stale' \in [Model -> Nat] /\ strays' \in [Model -> Nat]
       /\ \A m \in Model : m # n => transit'[m] = transit[m] /\ strays'[m] = strays[m]
       /\ \/ transit'[n] + 1 = transit[n] /\ strays'[n] = strays[n]
          \/ transit'[n] = transit[n] /\ strays'[n] = strays[n] + 1
  <2>1. CASE DuplicateSuccess(n, t)
    <3>1. /\ transit[n] > 0 /\ transit' = [transit EXCEPT ![n] = @ - 1]
          /\ stale' = [stale EXCEPT ![n] = @ + 1] /\ strays' = strays
      BY <2>1 DEF DuplicateSuccess, history
    <3> QED
      BY <3>1, InvFields
  <2>2. CASE DeliverSuccess(n, t)
    <3>1. CASE transit[n] > 0 /\ transit' = [transit EXCEPT ![n] = @ - 1] /\ UNCHANGED <<stale, strays>>
      BY <3>1, InvFields
    <3>2. CASE /\ stale[n] > 0 /\ stale' = [stale EXCEPT ![n] = @ - 1]
               /\ strays' = [strays EXCEPT ![n] = @ + 1] /\ UNCHANGED transit
      BY <3>2, InvFields
    <3> QED
      BY <2>2, <3>1, <3>2 DEF DeliverSuccess
  <2> QED
    BY <2>1, <2>2
<1>13. TypeOK'
  BY <1>1, <1>6, <1>10, <1>11, <1>12, InvFields DEF TypeOK
<1>14. HotStep
  <2> SUFFICES ASSUME NEW v \in Worker, NEW m \in op'[v].hot
               PROVE  m \in op[v].hot /\ blocked'[m] = blocked[m]
    BY DEF HotStep
  <2>1. m \in op[v].hot /\ m # n
    BY <1>2, <1>4, <1>5
  <2> QED
    BY <1>1, <2>1, InvFields
<1>15. ASSUME NEW m \in Model
       PROVE  /\ NoHigher(usage[m], usage'[m])
              /\ Moved(In(m), In(m)',
                       transit[m] + leaked[m] + Holds(op[t], m),
                       transit'[m] + leaked'[m] + Holds(q, m), strays[m], strays'[m],
                       Win(m) + Busies(op[t], m), Win(m)' + Busies(q, m))
  <2>1. Holds(op[t], m) = 0 /\ Holds(q, m) = 0 /\ Busies(op[t], m) = 0
    BY <1>1, <1>2, <1>4, InvFields, HoldsForm DEF Shape, Calling
  <2>2. /\ Win(m) \in Nat /\ Win(m)' \in Nat /\ transit[m] \in Nat /\ leaked[m] \in Nat
        /\ transit'[m] \in Nat /\ Busies(q, m) = IF m = n THEN 1 ELSE 0
    BY <1>2, <1>12, <1>13, NumbersType, NumbersNext DEF Busies
  <2>3. CASE m # n
    <3>1. NoHigher(usage[m], usage'[m]) /\ In(m)' = In(m) /\ Win(m)' = Win(m)
      BY <1>8, <2>3, SameBucket
    <3>2. Win(m)' + Busies(q, m) <= Win(m) + Busies(op[t], m)
      BY <2>1, <2>2, <2>3, <3>1
    <3> QED
      BY <1>11, <1>12, <2>1, <2>3, <3>1, <3>2 DEF Moved
  <2>4. CASE m = n
    <3>1. NoHigher(usage[m], usage'[m]) /\ In(m)' = SaturatingSub(In(m), 1) /\ Win(m)' = Win(m)
      BY <1>8, <1>9, <2>4 DEF In, Win
    <3>2. Win(m)' + Busies(q, m) <= Win(m) + Busies(op[t], m) + 1
      BY <2>1, <2>2, <2>4, <3>1
    <3>3. \/ /\ transit'[m] + leaked'[m] + Holds(q, m) + 1 = transit[m] + leaked[m] + Holds(op[t], m)
             /\ strays'[m] = strays[m]
          \/ /\ transit'[m] + leaked'[m] + Holds(q, m) = transit[m] + leaked[m] + Holds(op[t], m)
             /\ strays'[m] = strays[m] + 1
      BY <1>11, <1>12, <2>1, <2>2, <2>4
    <3> QED
      BY <3>1, <3>2, <3>3 DEF Moved
  <2> QED
    BY <2>3, <2>4
<1> QED
  BY <1>2, <1>4, <1>5, <1>7, <1>13, <1>14, <1>15, TurnEffect

(* What a select sees of a ceiling rises with it, and ends with it. *)
LEMMA PeaksForm ==
  ASSUME Inv, NEW n \in Model, NEW after \in Usage, NEW v \in Worker
  PROVE  LET p == Peaks(n, after)[v] IN
         /\ p \in Op /\ p.pc = op[v].pc /\ p.allowed = op[v].allowed
         /\ p.owed = op[v].owed /\ p.model = op[v].model /\ p.hot = op[v].hot
         /\ \A m \in Model : m # n => p.peak[m] = op[v].peak[m]
         /\ p.peak[n] # NotLearned =>
              /\ op[v].peak[n] # NotLearned /\ op[v].peak[n] <= p.peak[n] /\ ~after.announced
              /\ after.learned # NotLearned => after.learned <= p.peak[n]
<1> DEFINE o == op[v]
           k == o.peak[n]
           j == IF k = NotLearned \/ after.announced THEN NotLearned
                ELSE AtLeast(k, after.learned)
           r == [o.peak EXCEPT ![n] = j]
           p == [o EXCEPT !.peak = r]
<1>1. Peaks(n, after)[v] = p
  BY DEF Peaks
<1>2. o \in Op /\ o.peak \in [Model -> Nat \cup {NotLearned}]
  BY InvFields, OpFields
<1>3. k \in Nat \cup {NotLearned} /\ after.learned \in Nat \cup {NotLearned}
  BY <1>2, UsageFields
<1>4. /\ j \in Nat \cup {NotLearned}
      /\ j # NotLearned => /\ k # NotLearned /\ k <= j /\ ~after.announced
                           /\ after.learned # NotLearned => after.learned <= j
  <2> HIDE DEF k
  <2> QED
    BY <1>3 DEF AtLeast
<1> HIDE DEF j
<1>5. /\ r \in [Model -> Nat \cup {NotLearned}] /\ r[n] = j
      /\ \A m \in Model : m # n => r[m] = o.peak[m]
  BY <1>2, <1>4
<1> HIDE DEF r
<1>6. /\ p \in Op /\ p.pc = o.pc /\ p.allowed = o.allowed /\ p.owed = o.owed
      /\ p.model = o.model /\ p.hot = o.hot /\ p.peak = r
  BY <1>2, <1>5 DEF Op
<1> QED
  BY <1>1, <1>4, <1>5, <1>6

(* A step of a success's report after its call is recorded: no count moves,  *)
(* and no select misses a ceiling that rises or is put out of force.         *)
LEMMA PeakEffect ==
  ASSUME Inv, NEW t \in Thread, NEW n \in Model, NEW after \in Usage, NEW q \in Op,
         op[t].pc \in {"outcome", "announce"},
         op' = [Peaks(n, after) EXCEPT ![t] = q], usage' = [usage EXCEPT ![n] = after],
         Shape(q), q.owed = 0, q.pc \notin {"reserve", "push"}, q.hot \subseteq op[t].hot,
         after.in_flight = usage[n].in_flight, after.rpm = usage[n].rpm,
         ~after.announced /\ usage[n].learned # NotLearned => after.learned # NotLearned,
         known' \subseteq Model, UNCHANGED <<blocked, transit, stale, leaked, strays, faults>>
  PROVE  StepEffect
<1>1. t \in Worker
  BY DEF Worker
<1>2. /\ op' = [v \in Worker |-> op'[v]] /\ op'[t] = q
      /\ \A v \in Worker : v # t => op'[v] = Peaks(n, after)[v]
  BY <1>1 DEF Peaks
<1>3. ASSUME NEW v \in Worker, v # t
      PROVE  /\ op'[v] \in Op /\ op'[v].pc = op[v].pc /\ op'[v].allowed = op[v].allowed
             /\ op'[v].owed = op[v].owed /\ op'[v].model = op[v].model /\ op'[v].hot = op[v].hot
             /\ \A m \in Model : m # n => op'[v].peak[m] = op[v].peak[m]
             /\ op'[v].peak[n] # NotLearned =>
                  /\ op[v].peak[n] # NotLearned /\ op[v].peak[n] <= op'[v].peak[n]
                  /\ ~after.announced
                  /\ after.learned # NotLearned => after.learned <= op'[v].peak[n]
  BY <1>2, <1>3, PeaksForm
<1>4. Turned(t, q)
  <2>1. \A v \in Worker : op'[v] \in Op
    BY <1>2, <1>3
  <2> QED
    BY <1>2, <1>3, <2>1 DEF Turned
<1>5. /\ usage' \in [Model -> Usage] /\ usage'[n] = after
      /\ \A m \in Model : m # n => usage'[m] = usage[m]
  BY InvFields
<1>6. TypeOK'
  BY <1>4, <1>5, InvFields DEF TypeOK, Turned
<1>7. HotStep
  <2> SUFFICES ASSUME NEW v \in Worker, NEW m \in op'[v].hot
               PROVE  m \in op[v].hot /\ blocked'[m] = blocked[m]
    BY DEF HotStep
  <2> QED
    BY <1>2, <1>3
<1>8. Shaped'
  <2>1. \A v \in Worker : v # t => Shape(op'[v])
    BY <1>3, InvFields DEF Shape
  <2> QED
    BY <1>2, <2>1 DEF Shaped
<1>9. ASSUME NEW m \in Model
      PROVE  Booked(m) /\ RaceStep(m)
  <2>1. Holds(op[t], m) = 0 /\ Holds(q, m) = 0 /\ Busies(op[t], m) = 0 /\ Busies(q, m) = 0
    BY <1>1, InvFields, HoldsForm DEF Shape, Returned
  <2>2. In(m)' = In(m) /\ Win(m)' = Win(m) /\ Win(m) \in Nat
    <3>1. CASE m = n
      BY <1>5, <3>1, NumbersType DEF In, Win
    <3>2. CASE m # n
      BY <1>5, <3>2, SameBucket
    <3> QED
      BY <3>1, <3>2
  <2>3. Booked(m)
    <3>1. Win(m)' + Busies(q, m) <= Win(m) + Busies(op[t], m)
      BY <2>1, <2>2
    <3>2. Moved(In(m), In(m)',
                transit[m] + leaked[m] + Holds(op[t], m), transit'[m] + leaked'[m] + Holds(q, m),
                strays[m], strays'[m],
                Win(m) + Busies(op[t], m), Win(m)' + Busies(q, m))
      BY <2>1, <2>2, <3>1 DEF Moved
    <3> QED
      BY <1>1, <1>4, <1>6, <3>2, TurnBooked
  <2>4. ASSUME NEW v \in Racing(m)'
        PROVE  v \in Racing(m) /\ Sees(v, v, m)
    <3>1. v \in Worker /\ op'[v].pc = "reserve" /\ m \in op'[v].allowed
      BY DEF Racing
    <3>2. v # t
      BY <1>2, <3>1
    <3>3. v \in Racing(m)
      BY <1>3, <3>1, <3>2 DEF Racing
    <3>4. op[v].peak[m] \in Nat \cup {NotLearned}
      BY <3>1, InvFields, OpFields
    <3>5. CASE m # n
      <4>1. op'[v].peak[m] = op[v].peak[m] /\ usage'[m] = usage[m]
        BY <1>3, <1>5, <3>1, <3>2, <3>5
      <4>2. op[v].peak[m] # NotLearned => op[v].peak[m] <= op[v].peak[m]
        BY <3>4
      <4> QED
        BY <3>3, <4>1, <4>2 DEF Sees, InForce
    <3>6. CASE m = n
      BY <1>3, <1>5, <3>1, <3>2, <3>3, <3>6 DEF Sees, InForce
    <3> QED
      BY <3>5, <3>6
  <2> QED
    BY <2>3, <2>4 DEF RaceStep
<1> QED
  BY <1>6, <1>7, <1>8, <1>9 DEF StepEffect

(* A success that raises a ceiling, or brings the limits that end it. *)
LEMMA OutcomeEffect ==
  ASSUME Inv, NEW t \in Thread,
         (\E announces \in BOOLEAN : Outcome(t, announces)) \/ Announce(t)
  PROVE  StepEffect
<1> DEFINE o == op[t]
           n == op[t].model
<1>1. o \in Op /\ Shape(o) /\ o.pc \in {"outcome", "announce"}
  BY InvFields DEF Worker, Outcome, Announce
<1>2. n \in Model /\ usage[n] \in Usage /\ o.owed = 0
  BY <1>1, InvFields DEF Shape, Calling, Returned
<1>3. ASSUME NEW announces \in BOOLEAN, Outcome(t, announces)
      PROVE  StepEffect
  <2> DEFINE after == RecordOutcome(usage[n], FALSE, FALSE)
             q == IF announces THEN [o EXCEPT !.pc = "announce"] ELSE NoCall
  <2>1. /\ usage' = [usage EXCEPT ![n] = after] /\ op' = [Peaks(n, after) EXCEPT ![t] = q]
        /\ UNCHANGED <<blocked, known, transit, stale, leaked, strays, faults>>
    BY <1>3 DEF Outcome, history
  <2>2. /\ after \in Usage /\ after.in_flight = usage[n].in_flight /\ after.rpm = usage[n].rpm
        /\ usage[n].learned # NotLearned => after.learned # NotLearned
    BY <1>2, RaisedForm
  <2>3. q \in Op /\ Shape(q) /\ q.owed = 0 /\ q.pc \notin {"reserve", "push"} /\ q.hot \subseteq o.hot
    <3>1. CASE announces
      <4> DEFINE p == [o EXCEPT !.pc = "announce"]
      <4>1. p \in Op /\ p.pc = "announce" /\ p.model = n /\ p.owed = 0 /\ p.hot = o.hot
        BY <1>1, <1>2 DEF Op, PC
      <4>2. q = p
        BY <3>1
      <4> HIDE DEF p, q
      <4>3. Shape(p)
        BY <1>2, <4>1 DEF Shape, Calling, Returned
      <4> QED
        BY <4>1, <4>2, <4>3
    <3>2. CASE ~announces
      BY <3>2, NoCallForm
    <3> QED
      BY <3>1, <3>2
  <2> HIDE DEF after, q
  <2>4. known' \subseteq Model
    BY <2>1, InvFields
  <2> QED
    BY <1>1, <1>2, <2>1, <2>2, <2>3, <2>4, PeakEffect
<1>4. CASE Announce(t)
  <2> DEFINE after == Announced(usage[n])
  <2>1. /\ usage' = [usage EXCEPT ![n] = after] /\ op' = [Peaks(n, after) EXCEPT ![t] = NoCall]
        /\ known' = known \cup {n}
        /\ UNCHANGED <<blocked, transit, stale, leaked, strays, faults>>
    BY <1>4 DEF Announce, history
  <2>2. /\ after \in Usage /\ after.in_flight = usage[n].in_flight /\ after.rpm = usage[n].rpm
        /\ after.announced
    BY <1>2, AnnouncedForm
  <2> HIDE DEF after
  <2>3. known' \subseteq Model
    BY <1>2, <2>1, InvFields
  <2> QED
    BY <1>1, <1>2, <2>1, <2>2, <2>3, NoCallForm, PeakEffect
<1> QED
  BY <1>3, <1>4
-----------------------------------------------------------------------------
(* The steps of nobody's call. *)

(* A step in which no call goes on: slots change hands, time passes. *)
LEMMA SameEffect ==
  ASSUME Inv, TypeOK', HotStep,
         \A w \in Worker :
           /\ op'[w].pc = op[w].pc /\ op'[w].allowed = op[w].allowed
           /\ op'[w].owed = op[w].owed /\ op'[w].model = op[w].model
           /\ op'[w].peak = op[w].peak,
         \A m \in Model :
           /\ In(m)' = In(m) /\ Win(m)' <= Win(m) /\ strays'[m] = strays[m]
           /\ transit'[m] + leaked'[m] = transit[m] + leaked[m]
           /\ NoHigher(usage[m], usage'[m])
  PROVE  StepEffect
<1>1. Shaped'
  BY InvFields DEF Shaped, Shape
<1>2. ASSUME NEW m \in Model
      PROVE  Booked(m) /\ RaceStep(m)
  <2>1. Owners(m)' = Owners(m) /\ Racing(m)' = Racing(m) /\ Busy(m)' = Busy(m)
    BY DEF Owners, Racing, Busy
  <2>2. Due(m)' = Due(m)
    <3>1. /\ Due(m)' = transit'[m] + Cardinality(Owners(m)) + leaked'[m]
          /\ Due(m) = transit[m] + Cardinality(Owners(m)) + leaked[m]
      BY <2>1, NumbersType, NumbersNext
    <3>2. /\ Cardinality(Owners(m)) \in Nat /\ transit[m] \in Nat /\ leaked[m] \in Nat
          /\ transit'[m] \in Nat /\ leaked'[m] \in Nat
      BY NumbersType DEF TypeOK
    <3>3. transit'[m] + leaked'[m] = transit[m] + leaked[m]
      OBVIOUS
    <3> QED
      BY <3>1, <3>2, <3>3
  <2>3. Load(m)' <= Load(m)
    <3>1. /\ Load(m)' = Win(m)' + Cardinality(Busy(m)') /\ Cardinality(Busy(m)') = Cardinality(Busy(m))
          /\ Load(m) = Win(m) + Cardinality(Busy(m))
      BY <2>1 DEF Load
    <3> QED
      BY <3>1, NumbersType, NumbersNext
  <2>4. Booked(m)
    BY <2>2, <2>3 DEF Booked, Moved
  <2>5. usage'[m] \in Usage
    BY DEF TypeOK
  <2>6. ASSUME NEW v \in Racing(m)'
        PROVE  v \in Racing(m) /\ Sees(v, v, m)
    <3>1. v \in Racing(m) /\ v \in Worker
      BY <2>1 DEF Racing
    <3> QED
      BY <2>5, <3>1, StaySees
  <2> QED
    BY <2>4, <2>6 DEF RaceStep
<1> QED
  BY <1>1, <1>2 DEF StepEffect

(* A report lost for good stays due. *)
LEMMA LoseEffect ==
  ASSUME Inv, NEW n \in Model, LoseSuccess(n)
  PROVE  StepEffect
<1>1. /\ transit[n] > 0 /\ transit' = [transit EXCEPT ![n] = @ - 1]
      /\ leaked' = [leaked EXCEPT ![n] = @ + 1] /\ faults' \in 0..MaxFaults
      /\ UNCHANGED <<usage, blocked, known, op, stale, strays>>
  BY FaultForm DEF LoseSuccess
<1>2. /\ transit' \in [Model -> Nat] /\ leaked' \in [Model -> Nat]
      /\ \A m \in Model : transit'[m] + leaked'[m] = transit[m] + leaked[m]
  BY <1>1, InvFields
<1>3. TypeOK' /\ HotStep
  BY <1>1, <1>2, InvFields DEF TypeOK, HotStep
<1>4. \A m \in Model : /\ In(m)' = In(m) /\ Win(m)' <= Win(m)
                       /\ NoHigher(usage[m], usage'[m])
  BY <1>1, SameBucket
<1> QED
  BY <1>1, <1>2, <1>3, <1>4, SameEffect

(* Time drains windows and forgets whose failure was just reported. *)
LEMMA TickEffect ==
  ASSUME Inv, Tick
  PROVE  StepEffect
<1>1. /\ usage' = [m \in Model |-> Aged(usage[m])]
      /\ blocked' = [m \in Model |-> SaturatingSub(blocked[m], 1)]
      /\ op' = [w \in Worker |-> [op[w] EXCEPT !.hot = {}]]
      /\ UNCHANGED <<known, transit, stale, leaked, strays, faults>>
  BY DEF Tick, history
<1>2. ASSUME NEW w \in Worker
      PROVE  /\ op'[w] \in Op /\ op'[w].pc = op[w].pc /\ op'[w].allowed = op[w].allowed
             /\ op'[w].owed = op[w].owed /\ op'[w].model = op[w].model
             /\ op'[w].hot = {} /\ op'[w].peak = op[w].peak
  <2>1. op[w] \in Op /\ op'[w] = [op[w] EXCEPT !.hot = {}]
    BY <1>1, InvFields
  <2> QED
    BY <2>1 DEF Op
<1>3. ASSUME NEW m \in Model
      PROVE  /\ usage'[m] \in Usage /\ blocked'[m] \in Nat
             /\ In(m)' = In(m) /\ Win(m)' <= Win(m) /\ NoHigher(usage[m], usage'[m])
  <2>1. usage[m] \in Usage /\ usage'[m] = Aged(usage[m])
    BY <1>1, InvFields
  <2>2. blocked'[m] \in Nat
    BY <1>1, InvFields DEF SaturatingSub
  <2> QED
    BY <2>1, <2>2, AgedForm DEF In, Win, Calls
<1>4. TypeOK'
  BY <1>1, <1>2, <1>3, InvFields DEF TypeOK
<1>5. HotStep
  BY <1>2 DEF HotStep
<1>6. \A m \in Model : strays'[m] = strays[m] /\ transit'[m] + leaked'[m] = transit[m] + leaked[m]
  BY <1>1
<1> QED
  BY <1>2, <1>3, <1>4, <1>5, <1>6, SameEffect

(* A step that changes nothing keeps everything. *)
LEMMA StutterEffect ==
  ASSUME Inv, UNCHANGED vars
  PROVE  StepEffect
<1>1. UNCHANGED <<usage, blocked, known, op, transit, stale, leaked, strays, faults>>
  BY DEF vars, history
<1>2. TypeOK' /\ HotStep
  BY <1>1, InvFields DEF TypeOK, HotStep
<1>3. \A m \in Model : /\ In(m)' = In(m) /\ Win(m)' <= Win(m)
                       /\ NoHigher(usage[m], usage'[m])
  BY <1>1, SameBucket
<1> QED
  BY <1>1, <1>2, <1>3, SameEffect

(* A restart leaves no slot counted, none due and nobody at work. *)
LEMMA RestartEffect ==
  ASSUME Inv, Restart
  PROVE  StepEffect
<1> DEFINE call(w) == [op[w] EXCEPT !.hot = {}]
           next(w) == IF w \in Thread THEN NoCall
                      ELSE CASE call(w).pc \in {"select", "reserve", "answering"} -> AskAgain(call(w))
                             [] call(w).pc \in {"running", "report"} -> [call(w) EXCEPT !.owed = 0]
                             [] call(w).pc = "push" -> ReportAgain(call(w))
                             [] OTHER -> call(w)
<1>1. /\ usage' = [m \in Model |-> NewBucket]
      /\ blocked' = [m \in Model |-> 0] /\ transit' = [m \in Model |-> 0]
      /\ stale' = [m \in Model |-> stale[m] + transit[m]]
      /\ leaked' = [m \in Model |-> 0] /\ strays' = [m \in Model |-> 0]
      /\ known' = known /\ faults' \in 0..MaxFaults
  BY FaultForm DEF Restart
<1>2. op' = [w \in Worker |-> next(w)]
  BY DEF Restart
<1>3. ASSUME NEW w \in Worker
      PROVE  /\ op'[w] \in Op /\ Shape(op'[w]) /\ op'[w].owed = 0 /\ op'[w].pc # "reserve"
             /\ op'[w].hot = {}
  <2> DEFINE o == op[w]
             p == call(w)
             pcs == {"select", "reserve", "answering"}
  <2>1. o \in Op /\ Shape(o)
    BY InvFields
  <2>2. p \in Op /\ p.pc = o.pc /\ p.model = o.model /\ p.owed = o.owed /\ p.hot = {}
    BY <2>1 DEF Op
  <2>3. op'[w] = IF w \in Thread THEN NoCall
                 ELSE CASE p.pc \in pcs -> AskAgain(p)
                        [] p.pc \in {"running", "report"} -> [p EXCEPT !.owed = 0]
                        [] p.pc = "push" -> ReportAgain(p)
                        [] OTHER -> p
    BY <1>2
  <2> HIDE DEF o, p, call, next
  <2>4. Shape(p)
    BY <2>1, <2>2 DEF Shape
  <2>5. CASE w \in Thread
    BY <2>3, <2>5, NoCallForm
  <2>6. CASE w \notin Thread /\ p.pc \in pcs
    <3>1. op'[w] = AskAgain(p)
      BY <2>3, <2>6
    <3> QED
      BY <2>2, <3>1, AskAgainForm
  <2>7. CASE w \notin Thread /\ p.pc \in {"running", "report"}
    <3> DEFINE q == [p EXCEPT !.owed = 0]
    <3>1. op'[w] = q
      BY <2>3, <2>7
    <3>2. q \in Op /\ q.pc = p.pc /\ q.model = p.model /\ q.owed = 0 /\ q.hot = {}
      BY <2>2 DEF Op
    <3> HIDE DEF q
    <3>3. Shape(q)
      BY <2>4, <2>7, <3>2 DEF Shape, Calling, Returned
    <3> QED
      BY <2>7, <3>1, <3>2, <3>3
  <2>8. CASE w \notin Thread /\ p.pc = "push"
    <3>1. op'[w] = ReportAgain(p)
      BY <2>3, <2>8
    <3>2. /\ ReportAgain(p) \in Op /\ Shape(ReportAgain(p)) /\ ReportAgain(p).hot \subseteq p.hot
          /\ ReportAgain(p).pc \notin {"reserve", "push"}
          /\ ReportAgain(p).owed = p.owed \/ ReportAgain(p).owed = 0
      BY <2>2, <2>4, <2>8, ReportAgainForm
    <3>3. p.owed = 0
      BY <2>4, <2>8 DEF Shape, Returned
    <3> QED
      BY <2>2, <3>1, <3>2, <3>3
  <2>9. CASE w \notin Thread /\ p.pc \notin pcs /\ p.pc \notin {"running", "report", "push"}
    <3>1. op'[w] = p
      BY <2>3, <2>9
    <3>2. p.owed = 0
      BY <2>4, <2>9 DEF Shape, Calling, Returned
    <3> QED
      BY <2>2, <2>4, <2>9, <3>1, <3>2
  <2> QED
    BY <2>5, <2>6, <2>7, <2>8, <2>9
<1> HIDE DEF next, call
<1>4. op' \in [Worker -> Op] /\ Shaped'
  BY <1>2, <1>3 DEF Shaped
<1>5. TypeOK'
  <2>1. stale' \in [Model -> Nat]
    BY <1>1, InvFields
  <2> QED
    BY <1>1, <1>4, <2>1, InvFields, NewBucketForm DEF TypeOK
<1>6. HotStep
  BY <1>3 DEF HotStep
<1>7. ASSUME NEW m \in Model
      PROVE  Booked(m) /\ RaceStep(m)
  <2>1. Owners(m)' = {} /\ Racing(m)' = {}
    BY <1>3 DEF Owners, Racing
  <2>2. Due(m)' = 0
    <3>1. Due(m)' = transit'[m] + Cardinality(Owners(m)') + leaked'[m]
      BY DEF Due, Owed, Owners
    <3>2. Cardinality(Owners(m)') = 0
      BY <2>1, FS_EmptySet
    <3> QED
      BY <1>1, <3>1, <3>2
  <2>3. In(m)' = 0
    BY <1>1, NewBucketForm DEF In
  <2> QED
    BY <2>1, <2>2, <2>3 DEF Booked, Forgotten, RaceStep
<1> QED
  BY <1>4, <1>5, <1>6, <1>7 DEF StepEffect
-----------------------------------------------------------------------------
(* Every step at once. *)

(* The end of a select takes a slot or is refused. *)
LEMMA ReserveStep ==
  ASSUME Inv, NEW w \in Worker, Reserve(w)
  PROVE  StepEffect
<1>1. /\ op[w].pc = "reserve"
      /\ UNCHANGED <<blocked, known, transit, stale, leaked, strays, faults>>
  BY DEF Reserve, history
<1>2. ASSUME NEW n \in op[w].allowed,
             usage' = [usage EXCEPT ![n] = TryReserved(@)],
             op' = [op EXCEPT ![w] = [@ EXCEPT !.pc = "answering", !.allowed = {}, !.model = n,
                                               !.owed = 1, !.peak = NoCall.peak]]
      PROVE  StepEffect
  BY <1>1, <1>2, ReserveEffect
<1>3. ASSUME op' = [op EXCEPT ![w] = Refused(w, {InFlightHint})], UNCHANGED usage
      PROVE  StepEffect
  BY <1>1, <1>3, RefusedEffect
<1> QED
  BY <1>2, <1>3 DEF Reserve

(* The steps of one call. *)
LEMMA ClientEffect ==
  ASSUME Inv, NEW c \in Client, ClientStep(c)
  PROVE  StepEffect
<1>0. c \in Worker
  BY DEF Worker
<1>1. CASE Call(c) \/ RetryAfterHint(c) \/ RaiseExhausted(c) \/ Answer(c)
  BY <1>1, PlainSteps
<1>2. CASE ProviderReturns(c)
  BY <1>2, PlainSteps, SucceedQuiet DEF ProviderReturns
<1>3. CASE LoseRefusal(c) \/ LoseAnswer(c) \/ Die(c) \/ LoseReport(c)
  BY <1>3, LoseRefusalEffect, LoseAnswerQuiet, DieQuiet, LoseReportQuiet
<1>4. CASE ReportArrives(c)
  <2>1. ApplyFailure(c)
    BY <1>4 DEF ReportArrives
  <2> QED
    BY <1>4, <2>1, FailureEffect
<1>5. CASE ReportUnanswered(c)
  BY <1>5, UnansweredEffect
<1>6. CASE Push(c)
  BY <1>0, <1>6, PushEffect
<1>7. CASE Gate(c)
  BY <1>0, <1>7, GateEffect
<1>8. CASE Reserve(c)
  BY <1>0, <1>8, ReserveStep
<1> QED
  BY <1>1, <1>2, <1>3, <1>4, <1>5, <1>6, <1>7, <1>8 DEF ClientStep

(* Those of a job without its client. *)
LEMMA ThreadEffect ==
  ASSUME Inv, NEW t \in Thread, ThreadStep(t)
  PROVE  StepEffect
<1>0. t \in Worker
  BY DEF Worker
<1>1. CASE Gate(t)
  BY <1>0, <1>1, GateEffect
<1>2. CASE Reserve(t)
  BY <1>0, <1>2, ReserveStep
<1>3. CASE DropUnclaimed(t)
  BY <1>3, DropEffect
<1>4. CASE Push(t)
  BY <1>0, <1>4, PushEffect
<1>5. CASE Announce(t) \/ \E announces \in BOOLEAN : Outcome(t, announces)
  BY <1>5, OutcomeEffect
<1> QED
  BY <1>1, <1>2, <1>3, <1>4, <1>5 DEF ThreadStep

(* And every other. *)
LEMMA NextEffect ==
  ASSUME Inv, Next
  PROVE  StepEffect
<1>1. ASSUME NEW c \in Client, ClientStep(c)
      PROVE  StepEffect
  BY <1>1, ClientEffect
<1>2. ASSUME NEW t \in Thread, ThreadStep(t)
      PROVE  StepEffect
  BY <1>2, ThreadEffect
<1>3. ASSUME NEW c \in Client, NEW t \in Thread, TimeOut(c, t) \/ ReportTimesOut(c, t)
      PROVE  StepEffect
  BY <1>3, HandEffect
<1>4. ASSUME NEW m \in Model, NEW t \in Thread, DeliverSuccess(m, t) \/ DuplicateSuccess(m, t)
      PROVE  StepEffect
  BY <1>4, SuccessEffect
<1>5. ASSUME NEW m \in Model, LoseSuccess(m)
      PROVE  StepEffect
  BY <1>5, LoseEffect
<1> QED
  BY <1>1, <1>2, <1>3, <1>4, <1>5, RestartEffect, TickEffect DEF Next
-----------------------------------------------------------------------------
(* The invariants. *)

Balanced == \A m \in Model : Balance(m)

IInv == Inv /\ Balanced /\ Within /\ HotBlocked

(* Whatever moves of the books, the counter and the dues move together. *)
LEMMA BalanceKept ==
  ASSUME Inv, TypeOK', NEW m \in Model, Balance(m), Booked(m) \/ Looks(m)
  PROVE  Balance(m)'
<1> DEFINE i == In(m)
           d == Due(m)
           s == strays[m]
           j == In(m)'
           e == Due(m)'
           t == strays'[m]
<1>1. i \in Nat /\ d \in Nat /\ s \in Nat /\ j \in Nat /\ e \in Nat /\ t \in Nat
  BY NumbersType, NumbersNext
<1>2. i <= d /\ d <= i + s
  BY DEF Balance
<1>3. \/ e = d /\ j = i /\ t = s
      \/ e = d + 1 /\ j = i + 1 /\ t = s
      \/ e + 1 = d /\ j = SaturatingSub(i, 1) /\ t = s
      \/ e = d /\ j = SaturatingSub(i, 1) /\ t = s + 1
      \/ e = 0 /\ j = 0
  BY DEF Booked, Moved, Looks, Forgotten
<1> HIDE DEF i, d, s, j, e, t
<1>4. j <= e /\ e <= j + t
  BY <1>1, <1>2, <1>3 DEF SaturatingSub
<1> QED
  BY <1>4 DEF Balance, j, e, t

(* What moves between the window, the dues and the jobs at work leaves their *)
(* sum within the ceiling, unless a select joins the race.                   *)
LEMMA WithinKept ==
  ASSUME Inv, TypeOK', NEW m \in Model, WithinFor(m), Booked(m), RaceStep(m)
  PROVE  WithinFor(m)'
<1> SUFFICES ASSUME NEW v \in Racing(m)', op'[v].peak[m] # NotLearned
             PROVE  /\ ~usage'[m].announced /\ usage'[m].learned # NotLearned
                    /\ usage'[m].learned <= op'[v].peak[m]
                    /\ Load(m)' + Due(m)' + 1
                         <= op'[v].peak[m] + Cardinality(Worker) + strays'[m]
  BY DEF WithinFor, InForce
<1>1. PICK u \in Racing(m) : Sees(u, v, m)
  BY DEF RaceStep
<1>2. op[u].peak[m] # NotLearned /\ op[u].peak[m] <= op'[v].peak[m]
  BY <1>1 DEF Sees
<1>3. /\ InForce(m, op[u].peak[m])
      /\ Load(m) + Due(m) + 1 <= op[u].peak[m] + Cardinality(Worker) + strays[m]
  BY <1>2 DEF WithinFor
<1>4. /\ ~usage'[m].announced /\ usage'[m].learned # NotLearned
      /\ usage'[m].learned <= op'[v].peak[m]
  BY <1>1, <1>3 DEF Sees
<1>5. Moved(In(m), In(m)', Due(m), Due(m)', strays[m], strays'[m], Load(m), Load(m)')
  BY DEF Booked, Forgotten
<1> DEFINE l == Load(m)
           d == Due(m)
           s == strays[m]
           x == Load(m)'
           e == Due(m)'
           t == strays'[m]
           k == op[u].peak[m]
           p == op'[v].peak[m]
           n == Cardinality(Worker)
<1>6. l \in Nat /\ d \in Nat /\ s \in Nat /\ x \in Nat /\ e \in Nat /\ t \in Nat
  BY NumbersType, NumbersNext
<1>7. k \in Nat /\ p \in Nat /\ n \in Nat
  <2>1. op[u] \in Op /\ op'[v] \in Op
    BY InvFields DEF TypeOK, Racing
  <2>2. /\ op[u].peak \in [Model -> Nat \cup {NotLearned}]
        /\ op'[v].peak \in [Model -> Nat \cup {NotLearned}]
    BY <2>1, OpFields
  <2> QED
    BY <1>2, <2>2, WorkerFinite
<1>8. \/ e = d /\ t = s /\ x <= l
      \/ e = d + 1 /\ t = s /\ x + 1 <= l
      \/ e + 1 = d /\ t = s /\ x <= l + 1
      \/ e = d /\ t = s + 1 /\ x <= l + 1
  BY <1>5 DEF Moved
<1>9. l + d + 1 <= k + n + s /\ k <= p
  BY <1>2, <1>3
<1> HIDE DEF l, d, s, x, e, t, k, p, n
<1>10. x + e + 1 <= p + n + t
  BY <1>6, <1>7, <1>8, <1>9
<1> QED
  BY <1>4, <1>10 DEF x, e, t, p, n

(* They hold before the first call. *)
LEMMA InitIInv ==
  ASSUME Init
  PROVE  IInv
<1>1. /\ op = [w \in Worker |-> NoCall] /\ usage = [m \in Model |-> NewBucket]
      /\ blocked = [m \in Model |-> 0] /\ transit = [m \in Model |-> 0] /\ known = {}
      /\ stale = [m \in Model |-> 0] /\ leaked = [m \in Model |-> 0]
      /\ strays = [m \in Model |-> 0] /\ faults = 0
  BY DEF Init
<1>2. Inv
  <2>1. faults \in 0..MaxFaults
    BY <1>1, SplitFlowAssumption
  <2> QED
    BY <1>1, <2>1, NoCallForm, NewBucketForm DEF Inv, TypeOK, Shaped
<1>3. ASSUME NEW m \in Model
      PROVE  Balance(m) /\ WithinFor(m)
  <2>1. Owners(m) = {} /\ Racing(m) = {}
    BY <1>1, NoCallForm DEF Owners, Racing
  <2>2. Due(m) = 0
    <3>1. Due(m) = transit[m] + Cardinality(Owners(m)) + leaked[m]
      BY <1>2, NumbersType
    <3> QED
      BY <1>1, <2>1, <3>1, FS_EmptySet
  <2>3. In(m) = 0 /\ strays[m] = 0
    BY <1>1, NewBucketForm DEF In
  <2> QED
    BY <2>1, <2>2, <2>3 DEF Balance, WithinFor
<1>4. HotBlocked
  BY <1>1, NoCallForm DEF HotBlocked
<1> QED
  BY <1>2, <1>3, <1>4 DEF IInv, Balanced, Within

(* And after every step. *)
LEMMA NextIInv ==
  ASSUME IInv, [Next]_vars
  PROVE  IInv'
<1>1. Inv
  BY DEF IInv
<1>2. StepEffect
  BY <1>1, NextEffect, StutterEffect
<1>3. TypeOK' /\ Inv'
  BY <1>2 DEF StepEffect, Inv
<1>4. HotBlocked'
  <2> SUFFICES ASSUME NEW w \in Worker, NEW m \in op'[w].hot
               PROVE  blocked'[m] > 0
    BY DEF HotBlocked
  <2>1. blocked'[m] > 0 \/ (m \in op[w].hot /\ blocked'[m] = blocked[m])
    BY <1>2 DEF StepEffect, HotStep
  <2> QED
    BY <2>1 DEF IInv, HotBlocked
<1>5. ASSUME NEW m \in Model
      PROVE  Balance(m)' /\ WithinFor(m)'
  <2>1. Balance(m) /\ WithinFor(m)
    BY DEF IInv, Balanced, Within
  <2>2. CASE Booked(m) /\ RaceStep(m)
    BY <1>1, <1>3, <2>1, <2>2, BalanceKept, WithinKept
  <2>3. CASE GateTaken /\ Looks(m)
    <3>1. Balance(m)'
      BY <1>1, <1>3, <2>1, <2>3, BalanceKept
    <3>2. WithinFor(m)'
      BY <1>1, <2>1, <2>3, GateWithin DEF GateTaken
    <3> QED
      BY <3>1, <3>2
  <2> QED
    BY <1>2, <2>2, <2>3 DEF StepEffect
<1> QED
  BY <1>3, <1>4, <1>5 DEF IInv, Balanced, Within

(* In every state the types hold, what the server counts and what it is due  *)
(* for differ by the strays at most, selects that race stay within what they *)
(* saw, and what a call has just reported is blocked.                        *)
THEOREM InvariantHolds == Spec => []IInv
<1>1. Init => IInv
  BY InitIInv
<1>2. IInv /\ [Next]_vars => IInv'
  BY NextIInv
<1> QED
  BY <1>1, <1>2, PTL DEF Spec

(* The states of the split flow have the declared types (usage_tracker.rs's  *)
(* buckets, client.py's calls).                                              *)
THEOREM TypeCorrect == Spec => []TypeOK
<1>1. IInv => TypeOK
  BY DEF IInv, Inv
<1> QED
  BY <1>1, InvariantHolds, PTL

(* The server's count of a model's calls is what calls and their reports     *)
(* give back and what was lost, less at most the reports that came for a slot*)
(* it did not count (try_reserve, cancel_reservation and release of          *)
(* usage_tracker.rs against client.py's reports and its repeated selects).   *)
THEOREM SlotsBalanced == Spec => []SlotsBalance
<1>1. IInv => SlotsBalance
  BY DEF IInv, Balanced, Balance, In, Due, SlotsBalance
<1> QED
  BY <1>1, InvariantHolds, PTL

(* The calls of a minute, those a report has taken out of one count and not  *)
(* yet put into the other included, go over the learned ceiling that a select*)
(* saw by no more than one for each other request the server is at work on,  *)
(* for any number of clients and threads (selector.rs reads                  *)
(* learned_exhausted long before it reserves, and usage_tracker.rs's release *)
(* subtracts before it takes the lock to record).                            *)
THEOREM CeilingIsHeld == Spec => CeilingHeld
<1> DEFINE Held == \A w \in Worker : \A m \in op[w].allowed :
              (op[w].peak[m] # NotLearned /\ op'[w].model = m /\ Reserve(w))
                => Used(usage'[m]) + Cardinality(Pushing(m)')
                     <= op[w].peak[m] + Cardinality(Worker) - 1 + strays[m]
<1>1. ASSUME IInv, NEW w \in Worker, NEW m \in op[w].allowed,
             op[w].peak[m] # NotLearned, op'[w].model = m, Reserve(w)
      PROVE  Used(usage'[m]) + Cardinality(Pushing(m)')
               <= op[w].peak[m] + Cardinality(Worker) - 1 + strays[m]
  <2>1. /\ Inv /\ op[w] \in Op /\ m \in Model /\ op[w].pc = "reserve"
        /\ UNCHANGED <<blocked, known, transit, stale, leaked, strays, faults>>
    BY <1>1, InvFields, OpFields DEF IInv, Reserve, history
  <2>2. ASSUME op' = [op EXCEPT ![w] = Refused(w, {InFlightHint})], UNCHANGED usage
        PROVE  FALSE
    <3>1. op'[w].model = NoModel
      BY <2>1, <2>2, RefusedEffect
    <3> QED
      BY <1>1, <2>1, <3>1, SplitFlowAssumption
  <2>3. PICK n \in op[w].allowed :
          /\ usage' = [usage EXCEPT ![n] = TryReserved(@)]
          /\ op' = [op EXCEPT ![w] = [@ EXCEPT !.pc = "answering", !.allowed = {}, !.model = n,
                                               !.owed = 1, !.peak = NoCall.peak]]
    BY <1>1, <2>2 DEF Reserve
  <2>4. /\ op'[w].model = n /\ In(n)' = In(n) + 1 /\ Win(n)' = Win(n) /\ op'[w].pc = "answering"
        /\ \A v \in Worker : v # w => op'[v] = op[v]
    BY <2>1, <2>3, ReserveEffect
  <2>5. In(m)' = In(m) + 1 /\ Win(m)' = Win(m)
    BY <1>1, <2>4
  <2>6. /\ Cardinality(Pushing(m)') \in Nat /\ Cardinality(Busy(m)) \in Nat
        /\ Cardinality(Pushing(m)') + 1 <= Cardinality(Busy(m))
    <3> DEFINE B == Busy(m)
               P == Pushing(m)'
    <3>1. w \in B /\ B \subseteq Worker
      BY <1>1, <2>1 DEF Busy
    <3>2. P \subseteq B \ {w}
      BY <2>4 DEF Busy, Pushing
    <3> HIDE DEF B, P
    <3>3. IsFiniteSet(B)
      BY <3>1, WorkerFinite, FS_Subset
    <3>4. /\ IsFiniteSet(B \ {w}) /\ Cardinality(B \ {w}) = Cardinality(B) - 1
          /\ Cardinality(B) \in Nat
      BY <3>1, <3>3, FS_RemoveElement, FS_CardinalityType
    <3>5. Cardinality(P) <= Cardinality(B \ {w}) /\ Cardinality(P) \in Nat
      BY <3>2, <3>4, FS_Subset, FS_CardinalityType
    <3>6. Cardinality(P) \in Nat /\ Cardinality(B) \in Nat /\ Cardinality(P) + 1 <= Cardinality(B)
      BY <3>4, <3>5
    <3> QED
      BY <3>6 DEF B, P
  <2>7. Load(m) + Due(m) + 1 <= op[w].peak[m] + Cardinality(Worker) + strays[m]
    <3>1. w \in Racing(m)
      BY <1>1, <2>1 DEF Racing
    <3> QED
      BY <1>1, <2>1, <3>1 DEF IInv, Within, WithinFor
  <2>8. In(m) <= Due(m)
    BY <1>1, <2>1 DEF IInv, Balanced, Balance
  <2>9. /\ In(m) \in Nat /\ Win(m) \in Nat /\ Due(m) \in Nat /\ strays[m] \in Nat
        /\ Load(m) = Win(m) + Cardinality(Busy(m))
    BY <2>1, NumbersType DEF Load
  <2>10. op[w].peak[m] \in Nat /\ Cardinality(Worker) \in Nat
    BY <1>1, <2>1, OpFields, WorkerFinite
  <2>11. Used(usage'[m]) = In(m) + 1 + Win(m)
    <3>1. Used(usage'[m]) = In(m)' + Win(m)'
      BY DEF Used, In, Win
    <3> QED
      BY <2>5, <3>1
  <2> DEFINE i == In(m)
             x == Win(m)
             d == Due(m)
             b == Cardinality(Busy(m))
             p == Cardinality(Pushing(m)')
             s == strays[m]
             k == op[w].peak[m]
             c == Cardinality(Worker)
  <2>12. /\ i \in Nat /\ x \in Nat /\ d \in Nat /\ b \in Nat /\ p \in Nat /\ s \in Nat
         /\ k \in Nat /\ c \in Nat
         /\ x + b + d + 1 <= k + c + s /\ i <= d /\ p + 1 <= b
    BY <2>6, <2>7, <2>8, <2>9, <2>10
  <2> HIDE DEF i, x, d, b, p, s, k, c
  <2>13. i + 1 + x + p <= k + c - 1 + s
    BY <2>12
  <2> QED
    BY <2>11, <2>13 DEF i, x, p, s, k, c
<1>2. IInv => Held
  BY <1>1
<1> HIDE DEF Held
<1>3. Spec => [][Held]_vars
  BY <1>2, InvariantHolds, PTL DEF Spec
<1> QED
  BY <1>3 DEF Held, CeilingHeld

(* The select after a reported failure never gets the failed model again in  *)
(* the same tick (client.py reports a failure and waits before it asks       *)
(* again).                                                                   *)
THEOREM FailedElsewhere == Spec => RetriesElsewhere
<1> DEFINE Else == \A c \in Client : \A m \in op[c].hot : Gate(c) => m \notin op'[c].allowed
<1>1. ASSUME IInv, NEW c \in Client, NEW m \in op[c].hot, Gate(c), m \in op'[c].allowed
      PROVE  FALSE
  <2>1. Inv /\ c \in Worker /\ op[c] \in Op
    BY <1>1, InvFields DEF IInv, Worker
  <2>2. m \in Model
    BY <1>1, <2>1, OpFields
  <2>3. Joins(c, m) /\ (op'[c].allowed = {} \/ op'[c].pc = "reserve")
    BY <1>1, <2>1, <2>2, GateEffect
  <2>4. blocked[m] = 0
    BY <1>1, <2>3 DEF Joins, Open
  <2>5. blocked[m] > 0
    BY <1>1, <2>1 DEF IInv, HotBlocked
  <2> QED
    BY <2>4, <2>5
<1>2. IInv => Else
  BY <1>1
<1> HIDE DEF Else
<1>3. Spec => [][Else]_vars
  BY <1>2, InvariantHolds, PTL DEF Spec
<1> QED
  BY <1>3 DEF Else, RetriesElsewhere
=============================================================================
