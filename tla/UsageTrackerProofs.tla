------------------------- MODULE UsageTrackerProofs -------------------------
(***************************************************************************)
(* For every set of callers, models, keys and caps: the counter of a       *)
(* bucket is the number of calls that hold a slot of it, the cap is never  *)
(* overrun, and UsageTracker implements SlotPool.  The inductive invariant *)
(* adds one fact to the counting: between its test of the cap and its      *)
(* compare-and-swap, a caller's test stays valid (CasWithinCap).  Tokens   *)
(* are counted one by one, as a set of pairs: a step moves the counter by  *)
(* what it charges its caller, up to what a report states wrongly.         *)
(***************************************************************************)
EXTENDS UsageTracker, FiniteSetTheorems, TLAPS

(* The holders of a bucket are finitely many, so counting them is sound. *)
LEMMA HoldersFinite ==
  ASSUME NEW b
  PROVE  /\ IsFiniteSet(Holders(b))
         /\ Cardinality(Holders(b)) \in Nat
<1>1. Holders(b) \in SUBSET Caller
  BY DEF Holders
<1>2. IsFiniteSet(Holders(b))
  BY <1>1, FS_Subset, UsageTrackerAssumption
<1> QED
  BY <1>2, FS_CardinalityType

(* One saturating subtraction keeps a counter a natural number. *)
LEMMA SatSubType ==
  ASSUME NEW n \in Nat, NEW k \in Nat
  PROVE  SatSub(n, k) \in Nat
BY DEF SatSub
-----------------------------------------------------------------------------
(* Every step keeps the types. *)
LEMMA TypePreserved == TypeOK /\ [Next]_vars => TypeOK'
<1> SUFFICES ASSUME TypeOK, [Next]_vars
             PROVE  TypeOK'
  OBVIOUS
<1> USE UsageTrackerAssumption DEF TypeOK, PC
<1>1. ASSUME NEW c \in Caller, NEW b \in Bucket, NEW e \in Estimates,
             TryReserve(c, b, e)
      PROVE  TypeOK'
  BY <1>1 DEF TryReserve, CheckCap, misstated
<1>2. ASSUME NEW c \in Caller, CasSucceeds(c)
      PROVE  TypeOK'
  BY <1>2 DEF CasSucceeds, misstated
<1>3. ASSUME NEW c \in Caller, CasFails(c)
      PROVE  TypeOK'
  BY <1>3 DEF CasFails, CheckCap, misstated
<1>4. ASSUME NEW c \in Caller, AddTokens(c)
      PROVE  TypeOK'
  BY <1>4 DEF AddTokens, misstated
<1>5. ASSUME NEW c \in Caller, NEW next \in PC, NEW e \in Echoes \cup {tokens[c]},
             SubRequest(c, next, e)
      PROVE  TypeOK'
  <2>1. e \in Nat /\ tokens[c] \in Nat
    OBVIOUS
  <2>2. omitted' \in [Bucket -> Nat] /\ overstated' \in [Bucket -> Nat]
    <3>1. SatSub(tokens[c], e) \in Nat /\ SatSub(e, tokens[c]) \in Nat
      BY <2>1, SatSubType
    <3> QED
      BY <1>5, <3>1 DEF SubRequest
  <2>3. in_flight_requests' \in [Bucket -> Nat]
    BY <1>5, SatSubType DEF SubRequest
  <2>4. pc' \in [Caller -> PC] /\ tokens' \in [Caller -> Nat]
    BY <1>5, <2>1 DEF SubRequest
  <2>5. UNCHANGED <<max_in_flight, in_flight_tokens, window, bucket, count>>
    BY <1>5 DEF SubRequest
  <2> QED
    BY <2>2, <2>3, <2>4, <2>5
<1>6. ASSUME NEW c \in Caller, Cancel(c) \/ Release(c)
      PROVE  TypeOK'
  BY <1>5, <1>6 DEF Cancel, Release
<1>7. ASSUME NEW c \in Caller, SubTokens(c)
      PROVE  TypeOK'
  BY <1>7, SatSubType DEF SubTokens, misstated
<1>8. ASSUME NEW c \in Caller, PushWindow(c)
      PROVE  TypeOK'
  BY <1>8 DEF PushWindow, misstated
<1>9. ASSUME NEW b \in Bucket, Drain(b)
      PROVE  TypeOK'
  BY <1>9 DEF Drain, caller_vars, misstated
<1>10. ASSUME NEW m \in Model, NEW k \in Caps, SetCap(m, k)
       PROVE  TypeOK'
  BY <1>10 DEF SetCap, caller_vars, misstated
<1>11. CASE UNCHANGED vars
  BY <1>11 DEF vars
<1> QED
  BY <1>1, <1>2, <1>3, <1>4, <1>6, <1>7, <1>8, <1>9, <1>10, <1>11
     DEF Next, CallerStep

(* Every variable keeps its type, whatever the callers and reloads do. *)
THEOREM TypeCorrect == Spec => []TypeOK
<1>1. Init => TypeOK
  BY DEF Init, TypeOK, PC
<1> QED
  BY <1>1, TypePreserved, PTL DEF Spec
-----------------------------------------------------------------------------
(* How each step moves the set of holders of a bucket: it is the fact both *)
(* the counting and the refinement rest on.                                *)
LEMMA HoldersSame ==
  ASSUME TypeOK,
         NEW c \in Caller,
         NEW p \in PC \ {"add_tokens", "held"},
         pc[c] \notin {"add_tokens", "held"},
         pc' = [pc EXCEPT ![c] = p],
         \A d \in Caller \ {c} : bucket'[d] = bucket[d],
         NEW b \in Bucket
  PROVE  Holders(b)' = Holders(b)
BY DEF Holders, TypeOK, PC

(* A successful compare-and-swap adds its caller to its bucket's holders. *)
LEMMA HoldersGain ==
  ASSUME TypeOK,
         NEW c \in Caller, CasSucceeds(c),
         NEW b \in Bucket
  PROVE  /\ c \notin Holders(b)
         /\ Holders(b)' = IF b = bucket[c] THEN Holders(b) \cup {c} ELSE Holders(b)
BY DEF Holders, TypeOK, CasSucceeds

(* The first subtraction of a cancel or a release removes its caller. *)
LEMMA HoldersLose ==
  ASSUME TypeOK,
         NEW c \in Caller, Cancel(c) \/ Release(c),
         NEW b \in Bucket
  PROVE  /\ b = bucket[c] <=> c \in Holders(b)
         /\ Holders(b)' = Holders(b) \ {c}
BY DEF Holders, TypeOK, Cancel, Release, SubRequest
-----------------------------------------------------------------------------
(* The inductive invariant. *)
IInv == TypeOK /\ InFlightCountsHolders /\ CasWithinCap

(* Before any call no bucket has a holder and every counter is zero. *)
LEMMA IInvInit == Init => IInv
<1> SUFFICES ASSUME Init PROVE IInv
  OBVIOUS
<1>1. TypeOK
  BY UsageTrackerAssumption DEF Init, TypeOK, PC
<1>2. \A b : Holders(b) = {}
  BY DEF Init, Holders
<1>3. InFlightCountsHolders
  BY <1>2, FS_EmptySet DEF Init, InFlightCountsHolders
<1>4. CasWithinCap
  BY DEF Init, CasWithinCap
<1> QED
  BY <1>1, <1>3, <1>4 DEF IInv

(* The steps that leave every counter and every set of holders alone keep *)
(* the counting; those that also leave the caps alone keep CasWithinCap.  *)
LEMMA CountingKept ==
  ASSUME InFlightCountsHolders,
         UNCHANGED in_flight_requests,
         \A b \in Bucket : Holders(b)' = Holders(b)
  PROVE  InFlightCountsHolders'
BY DEF InFlightCountsHolders

(* The test of the cap moves no counter and leaves a valid expectation. *)
LEMMA IInvTryReserve ==
  ASSUME IInv, TypeOK',
         NEW c \in Caller, NEW b \in Bucket, NEW e \in Estimates,
         TryReserve(c, b, e)
  PROVE  IInv'
<1> USE DEF IInv
<1>1. InFlightCountsHolders'
  <2>1. /\ pc[c] \notin {"add_tokens", "held"}
        /\ \E p \in {"cas", "idle"} : pc' = [pc EXCEPT ![c] = p]
        /\ \A d \in Caller \ {c} : bucket'[d] = bucket[d]
        /\ UNCHANGED in_flight_requests
    BY DEF TryReserve, CheckCap, TypeOK
  <2>2. \A d \in Bucket : Holders(d)' = Holders(d)
    BY <2>1, HoldersSame DEF PC
  <2> QED
    BY <2>1, <2>2, CountingKept
<1>2. CasWithinCap'
  BY DEF TryReserve, CheckCap, CasWithinCap, TypeOK
<1> QED
  BY <1>1, <1>2

(* A successful compare-and-swap counts exactly its caller in. *)
LEMMA IInvCasSucceeds ==
  ASSUME IInv, TypeOK', NEW c \in Caller, CasSucceeds(c)
  PROVE  IInv'
<1> USE DEF IInv
<1>1. InFlightCountsHolders'
  <2> SUFFICES ASSUME NEW b \in Bucket
               PROVE  in_flight_requests'[b] = Cardinality(Holders(b)')
    BY DEF InFlightCountsHolders
  <2>1. CASE b = bucket[c]
    <3>1. Cardinality(Holders(b)') = Cardinality(Holders(b)) + 1
      BY <2>1, HoldersGain, HoldersFinite, FS_AddElement
    <3>2. in_flight_requests'[b] = in_flight_requests[b] + 1
      BY <2>1 DEF CasSucceeds, TypeOK
    <3> QED
      BY <3>1, <3>2 DEF InFlightCountsHolders
  <2>2. CASE b # bucket[c]
    BY <2>2, HoldersGain DEF CasSucceeds, TypeOK, InFlightCountsHolders
  <2> QED
    BY <2>1, <2>2
<1>2. CasWithinCap'
  BY DEF CasSucceeds, CasWithinCap, TypeOK
<1> QED
  BY <1>1, <1>2

(* A cancel or a release counts exactly its caller out: the counter is at *)
(* least one, so the saturation never applies.                            *)
LEMMA IInvGiveBack ==
  ASSUME IInv, TypeOK', NEW c \in Caller, Cancel(c) \/ Release(c)
  PROVE  IInv'
<1> USE DEF IInv
<1>1. InFlightCountsHolders'
  <2> SUFFICES ASSUME NEW b \in Bucket
               PROVE  in_flight_requests'[b] = Cardinality(Holders(b)')
    BY DEF InFlightCountsHolders
  <2>1. CASE b = bucket[c]
    <3>1. /\ Cardinality(Holders(b)') = Cardinality(Holders(b)) - 1
          /\ Cardinality(Holders(b)) \in Nat
          /\ Cardinality(Holders(b)') \in Nat
      BY <2>1, HoldersLose, HoldersFinite, FS_RemoveElement, FS_CardinalityType
    <3>2. in_flight_requests'[b] = SatSub(in_flight_requests[b], 1)
      BY <2>1 DEF Cancel, Release, SubRequest, TypeOK
    <3> QED
      BY <3>1, <3>2 DEF InFlightCountsHolders, SatSub
  <2>2. CASE b # bucket[c]
    <3>1. Holders(b)' = Holders(b)
      BY <2>2, HoldersLose
    <3>2. in_flight_requests'[b] = in_flight_requests[b]
      BY <2>2 DEF Cancel, Release, SubRequest, TypeOK
    <3> QED
      BY <3>1, <3>2 DEF InFlightCountsHolders
  <2> QED
    BY <2>1, <2>2
<1>2. CasWithinCap'
  BY DEF Cancel, Release, SubRequest, CasWithinCap, TypeOK
<1> QED
  BY <1>1, <1>2

(* Every step keeps the inductive invariant. *)
LEMMA IInvNext == IInv /\ [Next]_vars => IInv'
<1> SUFFICES ASSUME IInv, [Next]_vars
             PROVE  IInv'
  OBVIOUS
<1>0. TypeOK'
  BY TypePreserved DEF IInv
<1> USE DEF IInv
<1>1. ASSUME NEW c \in Caller, NEW b \in Bucket, NEW e \in Estimates,
             TryReserve(c, b, e)
      PROVE  IInv'
  BY <1>0, <1>1, IInvTryReserve
<1>2. ASSUME NEW c \in Caller, CasSucceeds(c)
      PROVE  IInv'
  BY <1>0, <1>2, IInvCasSucceeds
<1>3. ASSUME NEW c \in Caller, CasFails(c)
      PROVE  IInv'
  <2>1. /\ pc[c] \notin {"add_tokens", "held"}
        /\ \E p \in {"cas", "idle"} : pc' = [pc EXCEPT ![c] = p]
        /\ UNCHANGED <<bucket, in_flight_requests>>
    BY <1>3 DEF CasFails, CheckCap, TypeOK
  <2>2. \A b \in Bucket : Holders(b)' = Holders(b)
    BY <2>1, HoldersSame DEF PC
  <2>3. CasWithinCap'
    BY <1>3 DEF CasFails, CheckCap, CasWithinCap, TypeOK
  <2> QED
    BY <1>0, <2>1, <2>2, <2>3, CountingKept
<1>4. ASSUME NEW c \in Caller, AddTokens(c)
      PROVE  IInv'
  <2>1. \A b \in Bucket : Holders(b)' = Holders(b)
    BY <1>4 DEF AddTokens, Holders, TypeOK
  <2>2. UNCHANGED in_flight_requests /\ CasWithinCap'
    BY <1>4 DEF AddTokens, CasWithinCap, TypeOK
  <2> QED
    BY <1>0, <2>1, <2>2, CountingKept
<1>5. ASSUME NEW c \in Caller, Cancel(c) \/ Release(c)
      PROVE  IInv'
  BY <1>0, <1>5, IInvGiveBack
<1>6. ASSUME NEW c \in Caller, SubTokens(c) \/ PushWindow(c)
      PROVE  IInv'
  <2>1. /\ pc[c] \notin {"add_tokens", "held"}
        /\ \E p \in {"idle", "push"} : pc' = [pc EXCEPT ![c] = p]
        /\ UNCHANGED <<bucket, in_flight_requests>>
    BY <1>6 DEF SubTokens, PushWindow, TypeOK
  <2>2. \A b \in Bucket : Holders(b)' = Holders(b)
    BY <2>1, HoldersSame DEF PC
  <2>3. CasWithinCap'
    BY <1>6 DEF SubTokens, PushWindow, CasWithinCap, TypeOK
  <2> QED
    BY <1>0, <2>1, <2>2, <2>3, CountingKept
<1>7. ASSUME NEW b \in Bucket, Drain(b)
      PROVE  IInv'
  BY <1>0, <1>7
     DEF Drain, caller_vars, misstated, InFlightCountsHolders, CasWithinCap, Holders
<1>8. ASSUME NEW m \in Model, NEW k \in Caps, SetCap(m, k)
      PROVE  IInv'
  BY <1>0, <1>8
     DEF SetCap, caller_vars, misstated, InFlightCountsHolders, CasWithinCap, Holders
<1>9. CASE UNCHANGED vars
  BY <1>0, <1>9 DEF vars, InFlightCountsHolders, CasWithinCap, Holders
<1> QED
  BY <1>1, <1>2, <1>3, <1>4, <1>5, <1>6, <1>7, <1>8, <1>9 DEF Next, CallerStep

(* The inductive invariant holds throughout. *)
LEMMA Inductive == Spec => []IInv
BY IInvInit, IInvNext, PTL DEF Spec

(* The counter of a bucket is the number of calls that hold its slots. *)
THEOREM CountingCorrect == Spec => []InFlightCountsHolders
BY Inductive, PTL DEF IInv

(* A caller's test of the cap is still valid when it swaps the counter. *)
THEOREM CasWithinCapCorrect == Spec => []CasWithinCap
BY Inductive, PTL DEF IInv
-----------------------------------------------------------------------------
(* Only a successful compare-and-swap raises a counter, and then by one. *)
LEMMA OnlyCasRaises ==
  ASSUME IInv, [Next]_vars, NEW b \in Bucket,
         in_flight_requests'[b] > in_flight_requests[b]
  PROVE  \E c \in Caller : /\ CasSucceeds(c)
                           /\ bucket[c] = b
                           /\ in_flight_requests'[b] = count[c] + 1
<1> USE DEF IInv, TypeOK
<1>1. ASSUME NEW c \in Caller, Cancel(c) \/ Release(c)
      PROVE  FALSE
  BY <1>1 DEF Cancel, Release, SubRequest, SatSub
<1>2. ASSUME NEW c \in Caller, CasSucceeds(c)
      PROVE  bucket[c] = b /\ in_flight_requests'[b] = count[c] + 1
  BY <1>2 DEF CasSucceeds
<1>3. ASSUME in_flight_requests' = in_flight_requests
      PROVE  FALSE
  BY <1>3
<1> QED
  BY <1>1, <1>2, <1>3
     DEF Next, CallerStep, TryReserve, CasFails, AddTokens, SubTokens, PushWindow,
         Drain, SetCap, vars

(* Caps hold under every interleaving: a counter is only ever raised to a *)
(* value that the cap in force allows.                                    *)
THEOREM CapNeverOverrun == Spec => CapRespected
<1> DEFINE Raise == \A b \in Bucket :
                      in_flight_requests'[b] > in_flight_requests[b]
                        => Allows(max_in_flight[b[1]], in_flight_requests'[b])
<1>1. IInv /\ [Next]_vars => Raise
  <2> SUFFICES ASSUME IInv, [Next]_vars, NEW b \in Bucket,
                      in_flight_requests'[b] > in_flight_requests[b]
               PROVE  Allows(max_in_flight[b[1]], in_flight_requests'[b])
    OBVIOUS
  <2>1. PICK c \in Caller : /\ CasSucceeds(c)
                            /\ bucket[c] = b
                            /\ in_flight_requests'[b] = count[c] + 1
    BY OnlyCasRaises
  <2> QED
    BY <2>1 DEF IInv, CasWithinCap, CasSucceeds
<1> HIDE DEF Raise
<1>2. IInv /\ [Next]_vars => [Raise]_vars
  BY <1>1
<1>3. Spec => [][Raise]_vars
  BY <1>2, Inductive, PTL DEF Spec
<1> QED
  BY <1>3 DEF CapRespected, Raise
-----------------------------------------------------------------------------
(* The tokens. Those of one call, *)
Chunk(c, n) == {c} \X (1..n)

(* which are as many as it says, *)
LEMMA ChunkSize ==
  ASSUME NEW c, NEW n \in Nat
  PROVE  IsFiniteSet(Chunk(c, n)) /\ Cardinality(Chunk(c, n)) = n
<1>1. IsFiniteSet(1..n) /\ Cardinality(1..n) = n
  BY FS_Interval
<1>2. IsFiniteSet({c}) /\ Cardinality({c}) = 1
  BY FS_Singleton
<1>3. IsFiniteSet(Chunk(c, n)) /\ Cardinality(Chunk(c, n)) = Cardinality({c}) * Cardinality(1..n)
  BY <1>1, <1>2, FS_Product DEF Chunk
<1>4. Cardinality({c}) * Cardinality(1..n) = n
  <2>1. 1 * n = n
    OBVIOUS
  <2> QED
    BY <1>1, <1>2, <2>1
<1> QED
  BY <1>3, <1>4

(* and what it is charged to a bucket. *)
Due(c, b) == IF c \in Charged(b) THEN tokens[c] ELSE 0

(* The tokens of a bucket are those of one call and of all others. *)
LEMMA Split ==
  ASSUME TypeOK, NEW c \in Caller, NEW b
  PROVE  /\ TokensOf(b) = Chunk(c, Due(c, b)) \cup
              UNION {{d} \X (1..tokens[d]) : d \in Charged(b) \ {c}}
         /\ Due(c, b) \in Nat
<1> DEFINE rest == UNION {{d} \X (1..tokens[d]) : d \in Charged(b) \ {c}}
<1>1. CASE c \in Charged(b)
  <2>1. Charged(b) = {c} \cup (Charged(b) \ {c})
    BY <1>1
  <2>2. TokensOf(b) = ({c} \X (1..tokens[c])) \cup rest
    BY <2>1 DEF TokensOf
  <2> QED
    BY <1>1, <2>2 DEF Due, Chunk, TypeOK
<1>2. CASE c \notin Charged(b)
  <2>1. Charged(b) = Charged(b) \ {c} /\ Due(c, b) = 0
    BY <1>2 DEF Due
  <2>2. Chunk(c, 0) = {}
    BY DEF Chunk
  <2> QED
    BY <2>1, <2>2 DEF TokensOf
<1> QED
  BY <1>1, <1>2

(* A step of one call changes the tokens of a bucket by what it is charged. *)
LEMMA TokensMove ==
  ASSUME TypeOK, TypeOK', NEW c \in Caller, NEW b, IsFiniteSet(TokensOf(b)),
         \A d \in Caller \ {c} : /\ tokens'[d] = tokens[d] /\ bucket'[d] = bucket[d]
                                 /\ pc'[d] = pc[d]
  PROVE  /\ IsFiniteSet(TokensOf(b)') /\ Cardinality(TokensOf(b)) \in Nat
         /\ Cardinality(TokensOf(b)') = Cardinality(TokensOf(b)) - Due(c, b) + Due(c, b)'
         /\ Due(c, b) <= Cardinality(TokensOf(b))
<1> DEFINE rest == UNION {{d} \X (1..tokens[d]) : d \in Charged(b) \ {c}}
           old == Chunk(c, Due(c, b))
           new == Chunk(c, Due(c, b)')
<1>1. TokensOf(b) = old \cup rest /\ Due(c, b) \in Nat
  BY Split
<1>2. TokensOf(b)' = new \cup rest /\ Due(c, b)' \in Nat
  <2>1. Charged(b)' \ {c} = Charged(b) \ {c} /\ Charged(b) \subseteq Caller
    BY DEF Charged
  <2>2. \A d \in Charged(b) \ {c} : tokens'[d] = tokens[d]
    BY <2>1
  <2>3. rest' = rest
    BY <2>1, <2>2
  <2>4. Due(c, b)' \in Nat
    BY DEF Due, TypeOK
  <2>5. CASE c \in Charged(b)'
    <3>1. Charged(b)' = {c} \cup (Charged(b)' \ {c})
      BY <2>5
    <3>2. TokensOf(b)' = ({c} \X (1..tokens'[c])) \cup rest'
      BY <3>1 DEF TokensOf
    <3> QED
      BY <2>3, <2>4, <2>5, <3>2 DEF Due, Chunk
  <2>6. CASE c \notin Charged(b)'
    <3>1. Charged(b)' = Charged(b)' \ {c} /\ Due(c, b)' = 0
      BY <2>6 DEF Due
    <3>2. Chunk(c, 0) = {} /\ TokensOf(b)' = rest'
      BY <3>1 DEF TokensOf, Chunk
    <3> QED
      BY <2>3, <2>4, <3>1, <3>2
  <2> QED
    BY <2>5, <2>6
<1>3. old \cap rest = {} /\ new \cap rest = {}
  BY DEF Chunk
<1>4. /\ IsFiniteSet(old) /\ Cardinality(old) = Due(c, b)
      /\ IsFiniteSet(new) /\ Cardinality(new) = Due(c, b)'
  BY <1>1, <1>2, ChunkSize
<1> HIDE DEF rest, old, new
<1>5. IsFiniteSet(rest)
  BY <1>1, FS_Subset
<1>6. Cardinality(rest) \in Nat
  BY <1>5, FS_CardinalityType
<1>7. Cardinality(TokensOf(b)) = Due(c, b) + Cardinality(rest)
  <2>1. Cardinality(old \cap rest) = 0
    BY <1>3, FS_EmptySet
  <2>2. Cardinality(old \cup rest)
          = Cardinality(old) + Cardinality(rest) - Cardinality(old \cap rest)
    BY <1>4, <1>5, FS_Union
  <2>3. Cardinality(old \cup rest) = Cardinality(old) + Cardinality(rest)
    <3>1. Cardinality(old) \in Nat
      BY <1>4, FS_CardinalityType
    <3> QED
      BY <1>6, <2>1, <2>2, <3>1
  <2> QED
    BY <1>1, <1>4, <2>3
<1>8. IsFiniteSet(TokensOf(b)') /\ Cardinality(TokensOf(b)') = Due(c, b)' + Cardinality(rest)
  <2>1. Cardinality(new \cap rest) = 0
    BY <1>3, FS_EmptySet
  <2>2. /\ IsFiniteSet(new \cup rest)
        /\ Cardinality(new \cup rest)
             = Cardinality(new) + Cardinality(rest) - Cardinality(new \cap rest)
    BY <1>4, <1>5, FS_Union
  <2>3. Cardinality(new \cup rest) = Cardinality(new) + Cardinality(rest)
    <3>1. Cardinality(new) \in Nat
      BY <1>4, FS_CardinalityType
    <3> QED
      BY <1>6, <2>1, <2>2, <3>1
  <2> QED
    BY <1>2, <1>4, <2>2, <2>3
<1> QED
  BY <1>1, <1>2, <1>6, <1>7, <1>8

(* The tokens are finitely many, so counting them is sound. *)
TokensCounted ==
  \A b \in Bucket : /\ IsFiniteSet(TokensOf(b))
                    /\ in_flight_tokens[b] <= Cardinality(TokensOf(b)) + omitted[b]
                    /\ Cardinality(TokensOf(b)) <= in_flight_tokens[b] + overstated[b]

(* It is kept by a step that moves the counter as what the call is charged, *)
(* but for what is left out or overstated, or leaves nothing in it.         *)
LEMMA TokensKept ==
  ASSUME TypeOK, TypeOK', TokensCounted, NEW c \in Caller,
         \A d \in Caller \ {c} : /\ tokens'[d] = tokens[d] /\ bucket'[d] = bucket[d]
                                 /\ pc'[d] = pc[d],
         \A b \in Bucket :
           /\ \/ in_flight_tokens'[b] = 0
              \/ in_flight_tokens'[b] + Due(c, b) + omitted[b]
                   <= in_flight_tokens[b] + Due(c, b)' + omitted'[b]
           /\ in_flight_tokens[b] + Due(c, b)' + overstated[b]
                <= in_flight_tokens'[b] + Due(c, b) + overstated'[b]
  PROVE  TokensCounted'
<1> SUFFICES ASSUME NEW b \in Bucket
             PROVE  /\ IsFiniteSet(TokensOf(b)')
                    /\ in_flight_tokens'[b] <= Cardinality(TokensOf(b)') + omitted'[b]
                    /\ Cardinality(TokensOf(b)') <= in_flight_tokens'[b] + overstated'[b]
  BY DEF TokensCounted
<1>1. /\ IsFiniteSet(TokensOf(b))
      /\ in_flight_tokens[b] <= Cardinality(TokensOf(b)) + omitted[b]
      /\ Cardinality(TokensOf(b)) <= in_flight_tokens[b] + overstated[b]
  BY DEF TokensCounted
<1>2. /\ IsFiniteSet(TokensOf(b)') /\ Cardinality(TokensOf(b)) \in Nat
      /\ Cardinality(TokensOf(b)') = Cardinality(TokensOf(b)) - Due(c, b) + Due(c, b)'
      /\ Due(c, b) <= Cardinality(TokensOf(b))
  BY <1>1, TokensMove
<1>3. /\ in_flight_tokens[b] \in Nat /\ omitted[b] \in Nat /\ overstated[b] \in Nat
      /\ in_flight_tokens'[b] \in Nat /\ omitted'[b] \in Nat /\ overstated'[b] \in Nat
  BY DEF TypeOK
<1>4. Due(c, b) \in Nat /\ Due(c, b)' \in Nat
  BY DEF Due, TypeOK
<1>5. in_flight_tokens'[b] <= Cardinality(TokensOf(b)') + omitted'[b]
  BY <1>1, <1>2, <1>3, <1>4
<1>6. Cardinality(TokensOf(b)') <= in_flight_tokens'[b] + overstated'[b]
  BY <1>1, <1>2, <1>3, <1>4
<1> QED
  BY <1>2, <1>5, <1>6

(* Every step keeps it, one case for each way of moving tokens. *)
LEMMA TokensNext == TypeOK /\ TypeOK' /\ TokensCounted /\ [Next]_vars => TokensCounted'
<1> SUFFICES ASSUME TypeOK, TypeOK', TokensCounted, [Next]_vars
             PROVE  TokensCounted'
  OBVIOUS
<1>1. ASSUME NEW c \in Caller,
             \/ \E b \in Bucket, e \in Estimates : TryReserve(c, b, e)
             \/ CasSucceeds(c) \/ CasFails(c) \/ PushWindow(c)
      PROVE  TokensCounted'
  <2>1. /\ pc[c] \in {"idle", "cas", "push"} /\ pc'[c] \in {"idle", "cas", "add_tokens"}
        /\ in_flight_tokens' = in_flight_tokens
        /\ omitted' = omitted /\ overstated' = overstated
        /\ \A d \in Caller \ {c} : /\ tokens'[d] = tokens[d] /\ bucket'[d] = bucket[d]
                                   /\ pc'[d] = pc[d]
    <3>1. CASE \E b \in Bucket, e \in Estimates : TryReserve(c, b, e)
      BY <3>1 DEF TryReserve, CheckCap, TypeOK, misstated
    <3>2. CASE CasSucceeds(c)
      BY <3>2 DEF CasSucceeds, TypeOK, misstated
    <3>3. CASE CasFails(c) \/ PushWindow(c)
      BY <3>3 DEF CasFails, CheckCap, PushWindow, TypeOK, misstated
    <3> QED
      BY <1>1, <3>1, <3>2, <3>3
  <2>2. \A b : Due(c, b) = 0 /\ Due(c, b)' = 0
    BY <2>1 DEF Due, Charged
  <2>3. \A b \in Bucket :
          in_flight_tokens[b] \in Nat /\ omitted[b] \in Nat /\ overstated[b] \in Nat
    BY DEF TypeOK
  <2> QED
    BY <2>1, <2>2, <2>3, TokensKept
<1>2. ASSUME NEW c \in Caller, AddTokens(c)
      PROVE  TokensCounted'
  <2>1. /\ pc[c] = "add_tokens" /\ pc'[c] = "held"
        /\ omitted' = omitted /\ overstated' = overstated
        /\ tokens' = tokens /\ bucket' = bucket /\ \A d \in Caller \ {c} : pc'[d] = pc[d]
        /\ \A b \in Bucket : in_flight_tokens'[b] =
             in_flight_tokens[b] + IF b = bucket[c] THEN tokens[c] ELSE 0
    BY <1>2 DEF AddTokens, TypeOK, misstated
  <2>2. \A b : Due(c, b) = 0 /\ Due(c, b)' = IF b = bucket[c] THEN tokens[c] ELSE 0
    BY <2>1 DEF Due, Charged
  <2>3. \A b \in Bucket : /\ in_flight_tokens[b] \in Nat /\ omitted[b] \in Nat
                          /\ overstated[b] \in Nat /\ tokens[c] \in Nat
    BY DEF TypeOK
  <2>4. \A b \in Bucket : /\ in_flight_tokens'[b] + Due(c, b) = in_flight_tokens[b] + Due(c, b)'
                          /\ in_flight_tokens'[b] \in Nat /\ Due(c, b)' \in Nat
    BY <2>1, <2>2, <2>3
  <2> QED
    BY <2>1, <2>2, <2>3, <2>4, TokensKept
<1>3. ASSUME NEW c \in Caller, Cancel(c) \/ Release(c)
      PROVE  TokensCounted'
  <2>1. PICK e \in Echoes \cup {tokens[c]} :
          SubRequest(c, "cancel_tokens", e) \/ SubRequest(c, "release_tokens", e)
    BY <1>3 DEF Cancel, Release
  <2>2. /\ pc[c] = "held" /\ pc'[c] \in {"cancel_tokens", "release_tokens"}
        /\ bucket' = bucket /\ in_flight_tokens' = in_flight_tokens /\ tokens'[c] = e
        /\ \A d \in Caller \ {c} : tokens'[d] = tokens[d] /\ pc'[d] = pc[d]
        /\ \A b \in Bucket :
             /\ omitted'[b] = omitted[b] + IF b = bucket[c] THEN SatSub(tokens[c], e) ELSE 0
             /\ overstated'[b] = overstated[b] + IF b = bucket[c] THEN SatSub(e, tokens[c]) ELSE 0
    <3>1. e \in Nat /\ tokens[c] \in Nat
      BY UsageTrackerAssumption DEF TypeOK
    <3>2. SatSub(tokens[c], e) \in Nat /\ SatSub(e, tokens[c]) \in Nat
      BY <3>1, SatSubType
    <3> QED
      BY <2>1, <3>1, <3>2 DEF SubRequest, TypeOK
  <2>3. \A b : /\ Due(c, b) = IF b = bucket[c] THEN tokens[c] ELSE 0
               /\ Due(c, b)' = IF b = bucket[c] THEN e ELSE 0
    BY <2>2 DEF Due, Charged
  <2>4. /\ e \in Nat /\ tokens[c] \in Nat
        /\ \A b \in Bucket :
             in_flight_tokens[b] \in Nat /\ omitted[b] \in Nat /\ overstated[b] \in Nat
    BY UsageTrackerAssumption DEF TypeOK
  <2>5. \A b \in Bucket : /\ Due(c, b) + omitted[b] <= Due(c, b)' + omitted'[b]
                          /\ Due(c, b)' + overstated[b] <= Due(c, b) + overstated'[b]
    BY <2>2, <2>3, <2>4 DEF SatSub
  <2>6. \A b \in Bucket : /\ Due(c, b) \in Nat /\ Due(c, b)' \in Nat
                          /\ omitted'[b] \in Nat /\ overstated'[b] \in Nat
    BY <2>3, <2>4 DEF TypeOK
  <2>7. \A b \in Bucket :
          /\ in_flight_tokens'[b] + Due(c, b) + omitted[b]
               <= in_flight_tokens[b] + Due(c, b)' + omitted'[b]
          /\ in_flight_tokens[b] + Due(c, b)' + overstated[b]
               <= in_flight_tokens'[b] + Due(c, b) + overstated'[b]
    BY <2>2, <2>4, <2>5, <2>6
  <2> QED
    BY <2>2, <2>7, TokensKept
<1>4. ASSUME NEW c \in Caller, SubTokens(c)
      PROVE  TokensCounted'
  <2>1. /\ pc[c] \in {"cancel_tokens", "release_tokens"} /\ pc'[c] \in {"idle", "push"}
        /\ bucket' = bucket /\ omitted' = omitted /\ overstated' = overstated
        /\ \A d \in Caller \ {c} : tokens'[d] = tokens[d] /\ pc'[d] = pc[d]
        /\ \A b \in Bucket : in_flight_tokens'[b] =
             IF b = bucket[c] THEN SatSub(in_flight_tokens[b], tokens[c]) ELSE in_flight_tokens[b]
    BY <1>4 DEF SubTokens, TypeOK, misstated
  <2>2. \A b : /\ Due(c, b) = IF b = bucket[c] THEN tokens[c] ELSE 0
               /\ Due(c, b)' = 0
    BY <2>1 DEF Due, Charged
  <2>3. \A b \in Bucket : /\ in_flight_tokens[b] \in Nat /\ omitted[b] \in Nat
                          /\ overstated[b] \in Nat /\ tokens[c] \in Nat
    BY DEF TypeOK
  <2>4. \A b \in Bucket :
          /\ \/ in_flight_tokens'[b] = 0
             \/ in_flight_tokens'[b] + Due(c, b) + omitted[b]
                  <= in_flight_tokens[b] + Due(c, b)' + omitted'[b]
          /\ in_flight_tokens[b] + Due(c, b)' + overstated[b]
               <= in_flight_tokens'[b] + Due(c, b) + overstated'[b]
    BY <2>1, <2>2, <2>3 DEF SatSub
  <2> QED
    BY <2>1, <2>4, TokensKept
<1>5. ASSUME UNCHANGED <<in_flight_tokens, omitted, overstated, pc, bucket, tokens>>
      PROVE  TokensCounted'
  BY <1>5 DEF TokensCounted, TokensOf, Charged
<1>6. ASSUME \/ \E b \in Bucket : Drain(b)
             \/ \E m \in Model, k \in Caps : SetCap(m, k)
             \/ UNCHANGED vars
      PROVE  TokensCounted'
  BY <1>5, <1>6 DEF Drain, SetCap, caller_vars, misstated, vars
<1> QED
  BY <1>1, <1>2, <1>3, <1>4, <1>6 DEF Next, CallerStep

(* A bucket's in-flight tokens are those of its calls, up to what reports have *)
(* left out or overstated, whatever interleaves.                               *)
THEOREM TokensCorrect == Spec => []TokensWithinReports
<1>1. Init => TypeOK /\ TokensCounted
  <2> SUFFICES ASSUME Init PROVE TypeOK /\ TokensCounted
    OBVIOUS
  <2>1. TypeOK
    BY DEF Init, TypeOK, PC
  <2>2. \A b : TokensOf(b) = {}
    BY DEF Init, TokensOf, Charged
  <2>3. TokensCounted
    BY <2>2, FS_EmptySet DEF Init, TokensCounted
  <2> QED
    BY <2>1, <2>3
<1>2. TypeOK /\ TokensCounted /\ [Next]_vars => (TypeOK /\ TokensCounted)'
  BY TypePreserved, TokensNext
<1>3. TokensCounted => TokensWithinReports
  BY DEF TokensCounted, TokensWithinReports
<1> QED
  BY <1>1, <1>2, <1>3, PTL DEF Spec
-----------------------------------------------------------------------------
(* SlotPool counts sets as FiniteSets does. *)
LEMMA PoolCardinality == ASSUME NEW S PROVE Pool!Cardinality(S) = Cardinality(S)
BY DEF Pool!Cardinality, Cardinality

(* Steps that move no holder and no cap are stutters of the pool. *)
LEMMA PoolStutter ==
  ASSUME UNCHANGED max_in_flight,
         \A b \in Bucket : Holders(b)' = Holders(b)
  PROVE  UNCHANGED Pool!vars
BY DEF Pool!vars

(* The empty counters stand for the empty pool. *)
LEMMA PoolInit == Init => Pool!Init
<1> SUFFICES ASSUME Init PROVE Pool!Init
  OBVIOUS
<1>1. \A b : Holders(b) = {}
  BY DEF Init, Holders
<1> QED
  BY <1>1 DEF Init, Pool!Init, Pool!Bucket, Bucket

(* Every step is a step of the pool or invisible to it. *)
LEMMA PoolNext == IInv /\ [Next]_vars => [Pool!Next]_(Pool!vars)
<1> SUFFICES ASSUME IInv, [Next]_vars
             PROVE  Pool!Next \/ UNCHANGED Pool!vars
  OBVIOUS
<1> USE DEF IInv
<1>1. ASSUME NEW c \in Caller, NEW b \in Bucket, NEW e \in Estimates,
             TryReserve(c, b, e)
      PROVE  UNCHANGED Pool!vars
  <2>1. /\ pc[c] \notin {"add_tokens", "held"}
        /\ \E p \in {"cas", "idle"} : pc' = [pc EXCEPT ![c] = p]
        /\ \A d \in Caller \ {c} : bucket'[d] = bucket[d]
        /\ UNCHANGED max_in_flight
    BY <1>1 DEF TryReserve, CheckCap, TypeOK
  <2> QED
    BY <2>1, HoldersSame, PoolStutter DEF PC
<1>2. ASSUME NEW c \in Caller, CasSucceeds(c)
      PROVE  Pool!Acquire(c, bucket[c])
  <2> DEFINE b == bucket[c]
  <2>1. b \in Bucket /\ UNCHANGED max_in_flight
    BY <1>2 DEF CasSucceeds, TypeOK
  <2>2. \A d \in Bucket : c \notin Holders(d)
    BY <1>2, HoldersGain
  <2>3. Allows(max_in_flight[b[1]], Cardinality(Holders(b)) + 1)
    BY <1>2, <2>1 DEF CasSucceeds, CasWithinCap, InFlightCountsHolders
  <2>4. [d \in Bucket |-> Holders(d)']
          = [[d \in Bucket |-> Holders(d)] EXCEPT ![b] = @ \cup {c}]
    BY <1>2, <2>1, HoldersGain
  <2> QED
    BY <2>1, <2>2, <2>3, <2>4, PoolCardinality
       DEF Pool!Acquire, Pool!Allows, Pool!Bucket, Bucket, Allows
<1>3. ASSUME NEW c \in Caller, CasFails(c) \/ SubTokens(c) \/ PushWindow(c)
      PROVE  UNCHANGED Pool!vars
  <2>1. /\ pc[c] \notin {"add_tokens", "held"}
        /\ \E p \in {"cas", "idle", "push"} : pc' = [pc EXCEPT ![c] = p]
        /\ UNCHANGED <<bucket, max_in_flight>>
    BY <1>3 DEF CasFails, CheckCap, SubTokens, PushWindow, TypeOK
  <2> QED
    BY <2>1, HoldersSame, PoolStutter DEF PC
<1>4. ASSUME NEW c \in Caller, AddTokens(c)
      PROVE  UNCHANGED Pool!vars
  <2>1. \A b \in Bucket : Holders(b)' = Holders(b)
    BY <1>4 DEF AddTokens, Holders, TypeOK
  <2> QED
    BY <1>4, <2>1, PoolStutter DEF AddTokens
<1>5. ASSUME NEW c \in Caller, Cancel(c) \/ Release(c)
      PROVE  Pool!Return(c, bucket[c])
  <2> DEFINE b == bucket[c]
  <2>1. b \in Bucket /\ UNCHANGED max_in_flight
    BY <1>5 DEF Cancel, Release, SubRequest, TypeOK
  <2>2. c \in Holders(b)
    BY <1>5, <2>1, HoldersLose
  <2>3. [d \in Bucket |-> Holders(d)']
          = [[d \in Bucket |-> Holders(d)] EXCEPT ![b] = @ \ {c}]
    <3>1. \A d \in Bucket : d # b => c \notin Holders(d)
      BY <1>5, HoldersLose
    <3>2. \A d \in Bucket : Holders(d)' = Holders(d) \ {c}
      BY <1>5, HoldersLose
    <3>3. \A d \in Bucket : d # b => Holders(d)' = Holders(d)
      BY <3>1, <3>2
    <3> HIDE DEF b
    <3> QED
      BY <2>1, <3>2, <3>3
  <2> QED
    BY <2>1, <2>2, <2>3 DEF Pool!Return, Pool!Bucket, Bucket
<1>6. ASSUME NEW b \in Bucket, Drain(b)
      PROVE  UNCHANGED Pool!vars
  BY <1>6, PoolStutter DEF Drain, caller_vars, misstated, Holders
<1>7. ASSUME NEW m \in Model, NEW k \in Caps, SetCap(m, k)
      PROVE  Pool!SetCap(m, k)
  BY <1>7 DEF SetCap, caller_vars, misstated, Holders, Pool!SetCap, Pool!Bucket, Bucket
<1>8. CASE UNCHANGED vars
  BY <1>8, PoolStutter DEF vars, Holders
<1>9. \A c \in Caller : bucket[c] \in Pool!Bucket
  BY DEF TypeOK, Pool!Bucket, Bucket
<1> QED
  BY <1>1, <1>2, <1>3, <1>4, <1>5, <1>6, <1>7, <1>8, <1>9
     DEF Next, CallerStep, Pool!Next

(* The reservation protocol implements the pool of slots: each successful   *)
(* compare-and-swap is an Acquire, each first subtraction a Return, and the *)
(* other instructions are invisible.                                        *)
THEOREM ImplementsPool == Spec => PoolSpec
BY PoolInit, PoolNext, Inductive, PTL DEF Spec, PoolSpec, Pool!Spec
=============================================================================
