--------------------------- MODULE FxRatesProofs ---------------------------
(***************************************************************************)
(* For every set of threads, whichever of them refresh without a permit,   *)
(* and every pair of periods: the refreshes that selects start are         *)
(* single-flight, and a table that was saved keeps the seed away for good. *)
(* Neither is inductive by itself.  Single-flight needs to know who is in  *)
(* flight, not only how many; the other that whoever is about to save has  *)
(* put a table in memory first.                                            *)
(***************************************************************************)
EXTENDS FxRates, FiniteSetTheorems, TLAPS

(* The periods and the number of tables, one by one. *)
LEMMA Positive ==
  /\ Eager \subseteq Thread
  /\ REFRESH_TTL \in Nat /\ REFRESH_TTL > 0
  /\ RETRY_COOLDOWN \in Nat /\ RETRY_COOLDOWN > 0
  /\ MaxPublished \in Nat /\ MaxPublished > 0
BY FxAssumption

(* A clock that stops at its limit stays below it. *)
LEMMA UpType ==
  ASSUME NEW limit \in Nat, NEW n \in 0..limit
  PROVE  Up(n, limit) \in 0..limit
BY DEF Up

(* A thread may be idle, or stand at the start of a refresh. *)
LEMMA StartTypes == Idle \in Op /\ [pc |-> "start"] \in Op /\ Started \in [Thread -> Op]
<1>1. Idle \in Op /\ [pc |-> "start"] \in Op
  BY DEF Idle, Op
<1> QED
  BY <1>1 DEF Started

(* The part of TypeOK that is about numbers: the provers take it by itself. *)
Numbers ==
  /\ published \in 1..MaxPublished
  /\ rates \in 0..MaxPublished /\ saved \in 0..MaxPublished
  /\ age \in 0..REFRESH_TTL /\ saved_age \in 0..REFRESH_TTL
  /\ since \in 0..RETRY_COOLDOWN

(* Before the first refresh every variable has its type. *)
LEMMA TypeInit == Init => TypeOK
<1> SUFFICES ASSUME Init PROVE TypeOK
  OBVIOUS
<1>1. refreshing \in BOOLEAN
  BY DEF Init
<1>2. Numbers
  BY Positive DEF Init, Numbers
<1> QED
  BY <1>1, <1>2, StartTypes DEF Init, Numbers, TypeOK

(* Every step keeps the types. *)
LEMMA TypePreserved == TypeOK /\ [Next]_vars => TypeOK'
<1> SUFFICES ASSUME TypeOK, [Next]_vars
             PROVE  TypeOK'
  OBVIOUS
<1> USE DEF TypeOK, memory, database, Become
<1>1. refreshing' \in BOOLEAN
  BY DEF Next, Check, Refresh, Claim, Attempt, Receive, Fail, Install, Save, Finish,
         Publish, Tick, Restart, vars
<1>2. ASSUME NEW t \in Thread, Check(t) \/ Refresh(t)
      PROVE  Numbers' /\ op' \in [Thread -> Op]
  <2>1. op[t].pc \in {"install", "save"} => op[t].table \in 1..MaxPublished
    BY DEF Op
  <2>2. op[t].pc = "save" => op[t].age \in 0..REFRESH_TTL
    BY DEF Op
  <2>3. Numbers'
    BY <1>2, <2>1, <2>2, Positive
       DEF Numbers, Check, Refresh, Claim, Attempt, Receive, Fail, Install, Save, Finish
  <2>4. op'[t] \in Op /\ op' = [op EXCEPT ![t] = op'[t]]
    <3>1. [pc |-> "claim"] \in Op /\ [pc |-> "fetch"] \in Op /\ [pc |-> "finish"] \in Op
      BY DEF Op
    <3>2. [pc |-> "install", table |-> published] \in Op
      BY DEF Op
    <3>3. op[t].pc = "install" => [pc |-> "save", table |-> op[t].table, age |-> 0] \in Op
      BY <2>1, Positive DEF Op
    <3> QED
      BY <1>2, <3>1, <3>2, <3>3, StartTypes
         DEF Check, Refresh, Claim, Attempt, Receive, Fail, Install, Save, Finish
  <2> QED
    BY <2>3, <2>4
<1>3. ASSUME Publish \/ Restart
      PROVE  Numbers' /\ op' \in [Thread -> Op]
  BY <1>3, Positive, StartTypes DEF Numbers, Publish, Restart
<1>4. ASSUME Tick
      PROVE  Numbers' /\ op' \in [Thread -> Op]
  <2>1. ASSUME NEW t \in Thread, op[t].pc = "save"
        PROVE  [op[t] EXCEPT !.age = Up(@, REFRESH_TTL)] \in Op
    BY <2>1, Positive, UpType DEF Op
  <2>2. op' \in [Thread -> Op]
    BY <1>4, <2>1 DEF Tick
  <2> QED
    BY <1>4, <2>2, Positive, UpType DEF Numbers, Tick
<1>5. ASSUME UNCHANGED vars
      PROVE  Numbers' /\ op' \in [Thread -> Op]
  BY <1>5 DEF Numbers, vars
<1>6. Numbers' /\ op' \in [Thread -> Op]
  BY <1>2, <1>3, <1>4, <1>5 DEF Next
<1> QED
  BY <1>1, <1>6 DEF Numbers

(* Every variable keeps its type, whatever the threads, the provider and the *)
(* clock do and however often the server restarts.                           *)
THEOREM TypeCorrect == Spec => []TypeOK
BY TypeInit, TypePreserved, PTL DEF Spec
-----------------------------------------------------------------------------
(* The threads that refresh with the permit of begin_refresh_if_stale. *)
Flying == {"start", "fetch", "install", "save", "finish"}
Lazy == {t \in Thread \ Eager : op[t].pc \in Flying}

(* The flag says that there is one of them, and nothing else: the refresh of *)
(* the server's start never asks for it.                                     *)
OneFlies ==
  /\ IF refreshing THEN \E t \in Thread : Lazy = {t} ELSE Lazy = {}
  /\ \A t \in Eager : op[t].pc # "claim"

(* A table is saved only after it was installed. *)
SavedAfterInstall ==
  /\ saved # 0 => rates # 0
  /\ \A t \in Thread : op[t].pc = "save" => rates # 0

(* The inductive invariant. *)
IInv == TypeOK /\ OneFlies /\ SavedAfterInstall

(* A server that starts has nobody in flight and nothing saved. *)
LEMMA IInvInit == Init => IInv
<1> SUFFICES ASSUME Init PROVE IInv
  OBVIOUS
<1>1. OneFlies
  BY Positive DEF Init, OneFlies, Lazy, Flying, Started, Idle
<1>2. SavedAfterInstall
  BY DEF Init, SavedAfterInstall, Started, Idle
<1> QED
  BY <1>1, <1>2, TypeInit DEF IInv

(* Only a claim and a finish change who is in flight: the claim finds nobody *)
(* there, and the finish is by the one who is.                               *)
LEMMA OneFliesNext == TypeOK /\ OneFlies /\ [Next]_vars => OneFlies'
<1> SUFFICES ASSUME TypeOK, OneFlies, [Next]_vars
             PROVE  OneFlies'
  OBVIOUS
<1> USE Positive DEF TypeOK, Op, Lazy, Flying, Become, Idle
<1>1. ASSUME UNCHANGED refreshing, Lazy' = Lazy,
             \A t \in Eager : op'[t].pc = "claim" => op[t].pc = "claim"
      PROVE  OneFlies'
  BY <1>1 DEF OneFlies
<1>2. ASSUME NEW t \in Thread, Check(t)
      PROVE  OneFlies'
  BY <1>1, <1>2 DEF Check
<1>3. ASSUME NEW t \in Thread, Claim(t)
      PROVE  OneFlies'
  <2>1. t \notin Eager /\ op'[t] = (IF refreshing THEN Idle ELSE [pc |-> "start"])
    BY <1>3 DEF Claim, OneFlies
  <2>2. Lazy' = IF refreshing THEN Lazy ELSE Lazy \cup {t}
    BY <1>3, <2>1 DEF Claim
  <2>3. refreshing' = TRUE /\ \A s \in Eager : op'[s].pc # "claim"
    BY <1>3, <2>1 DEF Claim, OneFlies
  <2> QED
    BY <2>2, <2>3 DEF OneFlies
<1>4. ASSUME NEW t \in Thread, Attempt(t) \/ Receive(t) \/ Fail(t) \/ Install(t) \/ Save(t)
      PROVE  OneFlies'
  <2>1. op[t].pc \in Flying /\ op'[t].pc \in Flying /\ UNCHANGED refreshing
    BY <1>4 DEF Attempt, Receive, Fail, Install, Save
  <2>2. \A s \in Thread \ {t} : op'[s] = op[s]
    BY <1>4 DEF Attempt, Receive, Fail, Install, Save
  <2> QED
    BY <1>1, <2>1, <2>2
<1>5. ASSUME NEW t \in Thread, Finish(t)
      PROVE  OneFlies'
  <2>1. Lazy' = Lazy \ {t} /\ (t \in Lazy <=> t \notin Eager)
    BY <1>5 DEF Finish
  <2>2. refreshing' = (refreshing /\ t \in Eager)
    BY <1>5 DEF Finish
  <2>3. \A s \in Eager : op'[s].pc # "claim"
    BY <1>5 DEF Finish, OneFlies
  <2>4. CASE t \in Eager
    <3>1. Lazy' = Lazy /\ (refreshing' <=> refreshing)
      BY <2>1, <2>2, <2>4
    <3> HIDE DEF Lazy
    <3> QED
      BY <2>3, <3>1 DEF OneFlies
  <2>5. CASE t \notin Eager
    <3>1. t \in Lazy /\ ~refreshing'
      BY <2>1, <2>2, <2>5
    <3> HIDE DEF Lazy
    <3>2. \E u \in Thread : Lazy = {u}
      BY <3>1 DEF OneFlies
    <3>3. Lazy' = {}
      BY <2>1, <3>1, <3>2
    <3> QED
      BY <2>3, <3>1, <3>3 DEF OneFlies
  <2> QED
    BY <2>4, <2>5
<1>6. CASE Publish \/ Tick
  <2>1. \A t \in Thread : op'[t].pc = op[t].pc
    BY <1>6 DEF Publish, Tick
  <2> QED
    BY <1>1, <1>6, <2>1 DEF Publish, Tick
<1>7. CASE Restart
  BY <1>7 DEF Restart, Started, OneFlies
<1>8. CASE UNCHANGED vars
  BY <1>1, <1>8 DEF vars
<1> QED
  BY <1>2, <1>3, <1>4, <1>5, <1>6, <1>7, <1>8 DEF Next, Refresh

(* A refresh that is about to save has installed its table, no later refresh *)
(* takes a table away, and a restart takes the saved one.                    *)
LEMMA SavedNext == TypeOK /\ SavedAfterInstall /\ [Next]_vars => SavedAfterInstall'
<1> SUFFICES ASSUME TypeOK, SavedAfterInstall, [Next]_vars
             PROVE  SavedAfterInstall'
  OBVIOUS
<1> USE DEF TypeOK, Op, SavedAfterInstall, memory, database, Become, Idle
<1>1. ASSUME NEW t \in Thread, Check(t) \/ Claim(t) \/ Attempt(t) \/ Receive(t) \/ Fail(t)
      PROVE  SavedAfterInstall'
  BY <1>1 DEF Check, Claim, Attempt, Receive, Fail
<1>2. ASSUME NEW t \in Thread, Install(t)
      PROVE  SavedAfterInstall'
  BY <1>2 DEF Install
<1>3. ASSUME NEW t \in Thread, Save(t) \/ Finish(t)
      PROVE  SavedAfterInstall'
  BY <1>3 DEF Save, Finish
<1>4. CASE Publish
  BY <1>4 DEF Publish
<1>5. CASE Tick
  <2>1. \A t \in Thread : op'[t].pc = op[t].pc
    BY <1>5 DEF Tick
  <2> QED
    BY <1>5, <2>1 DEF Tick
<1>6. CASE Restart
  BY <1>6 DEF Restart, Started
<1>7. CASE UNCHANGED vars
  BY <1>7 DEF vars
<1> QED
  BY <1>1, <1>2, <1>3, <1>4, <1>5, <1>6, <1>7 DEF Next, Refresh

(* The invariant is inductive. *)
THEOREM Inductive == Spec => []IInv
<1>1. IInv /\ [Next]_vars => IInv'
  BY TypePreserved, OneFliesNext, SavedNext DEF IInv
<1> QED
  BY IInvInit, <1>1, PTL DEF Spec
-----------------------------------------------------------------------------
(* fx.rs, "single-flight": of the refreshes that selects start there is one  *)
(* under way while the flag is up and none while it is down, whatever the    *)
(* refresh of the server's start does at the same time.                      *)
THEOREM RefreshSingleFlight == Spec => []SingleFlight
<1>1. IInv => SingleFlight
  <2> SUFFICES ASSUME IInv PROVE SingleFlight
    OBVIOUS
  <2>1. CASE refreshing
    <3>1. PICK t \in Thread : Lazy = {t}
      BY <2>1 DEF IInv, OneFlies
    <3> QED
      BY <2>1, <3>1, FS_Singleton DEF SingleFlight, Lazy, Flying
  <2>2. CASE ~refreshing
    <3>1. Lazy = {}
      BY <2>2 DEF IInv, OneFlies
    <3> QED
      BY <2>2, <3>1, FS_EmptySet DEF SingleFlight, Lazy, Flying
  <2> QED
    BY <2>1, <2>2
<1> QED
  BY Inductive, <1>1, PTL

(* fx.rs, "last-good values stay" and "survive restarts": once a table was   *)
(* saved no failure and no restart brings the seed back.                     *)
THEOREM RatesLastGoodStays == Spec => LastGoodStays
<1> DEFINE Stays == saved # 0 => rates' # 0
<1>1. IInv /\ IInv' /\ [Next]_vars => [Stays]_vars
  <2> SUFFICES ASSUME IInv, IInv', Next
               PROVE  Stays
    OBVIOUS
  <2>1. saved # 0 => saved' # 0
    <3>1. ASSUME NEW t \in Thread, Save(t)
          PROVE  saved # 0 => saved' # 0
      BY <3>1 DEF Save, database, IInv, TypeOK, Op
    <3>2. \/ \E t \in Thread : Save(t)
          \/ UNCHANGED saved
      BY DEF Next, Refresh, Check, Claim, Attempt, Receive, Fail, Install, Finish,
             Publish, Tick, Restart, database
    <3> QED
      BY <3>1, <3>2
  <2> QED
    BY <2>1 DEF IInv, SavedAfterInstall
<1> HIDE DEF Stays
<1>2. Spec => [][Stays]_vars
  BY Inductive, <1>1, PTL DEF Spec
<1> QED
  BY <1>2 DEF Stays, LastGoodStays
=============================================================================
