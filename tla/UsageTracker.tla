---------------------------- MODULE UsageTracker ----------------------------
(***************************************************************************)
(* The reservation half of crates/core/src/usage_tracker.rs, one action    *)
(* per atomic instruction: the compare-and-swap loop of try_reserve, the   *)
(* two saturating subtractions of cancel_reservation and release, and the  *)
(* push into the sliding windows that release makes under the bucket's     *)
(* mutex after both subtractions.  Callers interleave between any two.     *)
(***************************************************************************)
EXTENDS Integers, FiniteSets

CONSTANTS
  Caller,       \* the tasks that select, call a provider and report
  Model,        \* the models of the catalog
  Key,          \* API keys, the "no key" of a single-key brand being one
  NoCap,        \* a model without max_in_flight
  Caps,         \* the caps a reload may install
  Estimates,    \* the token estimates a call may reserve
  Echoes,       \* what a report may state as its estimate, 0 being nothing
  WindowBound,  \* bound: calls of a bucket in flight or in its window
  MisstateBound \* bound: tokens by which reports of a bucket are wrong

ASSUME UsageTrackerAssumption ==
  /\ IsFiniteSet(Caller)
  /\ NoCap \notin Nat
  /\ Caps \subseteq Nat \cup {NoCap}
  /\ Estimates \subseteq Nat /\ Echoes \subseteq Nat

Bucket == Model \X Key

VARIABLES
  max_in_flight,       \* cap of each model in the catalog cache
  in_flight_requests,  \* atomic counter of each bucket
  in_flight_tokens,    \* atomic counter of each bucket
  window,              \* entries of the last 60 s in each bucket's window
  pc,                  \* where each caller stands
  bucket,              \* the bucket of its call
  tokens,              \* its estimate; once it reports, the estimate it states
  count,               \* the counter value its compare-and-swap expects
  omitted,             \* history: tokens of each bucket that reports left out
  overstated           \* history: tokens that they stated beyond the estimate

misstated == <<omitted, overstated>>
caller_vars == <<pc, bucket, tokens, count, misstated>>
vars == <<max_in_flight, in_flight_requests, in_flight_tokens, window,
          pc, bucket, tokens, count, omitted, overstated>>

Allows(k, n) == k = NoCap \/ n <= k

(* saturating_fetch_sub: a counter never goes below zero. *)
SatSub(n, k) == IF n >= k THEN n - k ELSE 0

PC == {"idle", "cas", "add_tokens", "held",
       "cancel_tokens", "release_tokens", "push"}

(* The callers that own one of the requests counted for bucket b. *)
Holders(b) == {c \in Caller : bucket[c] = b /\ pc[c] \in {"add_tokens", "held"}}

Init ==
  /\ max_in_flight \in [Model -> Caps]
  /\ in_flight_requests = [b \in Bucket |-> 0]
  /\ in_flight_tokens = [b \in Bucket |-> 0]
  /\ window = [b \in Bucket |-> 0]
  /\ pc = [c \in Caller |-> "idle"]
  /\ bucket \in [Caller -> Bucket]
  /\ tokens = [c \in Caller |-> 0]
  /\ count = [c \in Caller |-> 0]
  /\ omitted = [b \in Bucket |-> 0]
  /\ overstated = [b \in Bucket |-> 0]
-----------------------------------------------------------------------------
(* A plausible bug for mutation: the cap is tested against the current count, *)
(* not the count this call makes.                                             *)
CheckCapOffByOne(c, b, e, n) ==
  LET turn == Allows(max_in_flight[b[1]], n) IN
  /\ pc' = [pc EXCEPT ![c] = IF turn THEN "cas" ELSE "idle"]
  /\ count' = [count EXCEPT ![c] = IF turn THEN n ELSE 0]
  /\ tokens' = [tokens EXCEPT ![c] = IF turn THEN e ELSE 0]

(* One turn of try_reserve's loop with n as the counter just read: refuse at *)
(* the cap, else go on to the compare-and-swap.  A local that is not read    *)
(* again is 0.                                                               *)
CheckCap(c, b, e, n) ==
  LET turn == Allows(max_in_flight[b[1]], n + 1) IN
  /\ pc' = [pc EXCEPT ![c] = IF turn THEN "cas" ELSE "idle"]
  /\ count' = [count EXCEPT ![c] = IF turn THEN n ELSE 0]
  /\ tokens' = [tokens EXCEPT ![c] = IF turn THEN e ELSE 0]

(* The first load of try_reserve, by a select that chose bucket b. *)
TryReserve(c, b, e) ==
  /\ pc[c] = "idle"
  /\ window[b] + Cardinality({d \in Caller : bucket[d] = b /\ pc[d] # "idle"})
       < WindowBound
  /\ bucket' = [bucket EXCEPT ![c] = b]
  /\ CheckCap(c, b, e, in_flight_requests[b])
  /\ UNCHANGED <<max_in_flight, in_flight_requests, in_flight_tokens, window, misstated>>

(* A plausible bug for mutation: a load and a store, not a compare-and-swap. *)
StoreCount(c) ==
  /\ pc[c] = "cas"
  /\ in_flight_requests' = [in_flight_requests EXCEPT ![bucket[c]] = count[c] + 1]
  /\ pc' = [pc EXCEPT ![c] = "add_tokens"]
  /\ count' = [count EXCEPT ![c] = 0]
  /\ UNCHANGED <<max_in_flight, in_flight_tokens, window, bucket, tokens, misstated>>

(* compare_exchange_weak finds the value it expects and takes the slot. *)
CasSucceeds(c) ==
  /\ pc[c] = "cas"
  /\ in_flight_requests[bucket[c]] = count[c]
  /\ in_flight_requests' = [in_flight_requests EXCEPT ![bucket[c]] = count[c] + 1]
  /\ pc' = [pc EXCEPT ![c] = "add_tokens"]
  /\ count' = [count EXCEPT ![c] = 0]
  /\ UNCHANGED <<max_in_flight, in_flight_tokens, window, bucket, tokens, misstated>>

(* A plausible bug for mutation: the cap is tested before the loop only. *)
RetryWithoutCap(c) ==
  /\ pc[c] = "cas"
  /\ count' = [count EXCEPT ![c] = in_flight_requests[bucket[c]]]
  /\ UNCHANGED <<max_in_flight, in_flight_requests, in_flight_tokens, window,
                 pc, bucket, tokens, misstated>>

(* It finds another value, or fails spuriously, and the loop turns once more *)
(* with the value found.                                                     *)
CasFails(c) ==
  /\ pc[c] = "cas"
  /\ CheckCap(c, bucket[c], tokens[c], in_flight_requests[bucket[c]])
  /\ UNCHANGED <<max_in_flight, in_flight_requests, in_flight_tokens, window,
                 bucket, misstated>>

AddTokens(c) ==
  /\ pc[c] = "add_tokens"
  /\ in_flight_tokens' = [in_flight_tokens EXCEPT ![bucket[c]] = @ + tokens[c]]
  /\ pc' = [pc EXCEPT ![c] = "held"]
  /\ UNCHANGED <<max_in_flight, in_flight_requests, window, bucket, tokens, count, misstated>>

(* The first instruction of cancel_reservation and of release, which are both *)
(* given the estimate that the report states: an omitted one counts as 0 in   *)
(* apply_report, another one is taken for what it says.                       *)
SubRequest(c, next, echoed) ==
  /\ pc[c] = "held"
  /\ omitted' = [omitted EXCEPT ![bucket[c]] = @ + SatSub(tokens[c], echoed)]
  /\ overstated' = [overstated EXCEPT ![bucket[c]] = @ + SatSub(echoed, tokens[c])]
  /\ echoed = tokens[c] \/ omitted'[bucket[c]] + overstated'[bucket[c]] <= MisstateBound
  /\ in_flight_requests' =
       [in_flight_requests EXCEPT ![bucket[c]] = SatSub(@, 1)]
  /\ pc' = [pc EXCEPT ![c] = next]
  /\ tokens' = [tokens EXCEPT ![c] = echoed]
  /\ UNCHANGED <<max_in_flight, in_flight_tokens, window, bucket, count>>

(* The server's own guards cancel with the estimate they reserved. *)
Cancel(c) == \E e \in Echoes \cup {tokens[c]} : SubRequest(c, "cancel_tokens", e)
Release(c) == \E e \in Echoes \cup {tokens[c]} : SubRequest(c, "release_tokens", e)

(* A plausible bug for mutation: a cancelled call keeps its tokens. *)
SubReleasedTokens(c) ==
  /\ pc[c] \in {"cancel_tokens", "release_tokens"}
  /\ in_flight_tokens' = [in_flight_tokens EXCEPT ![bucket[c]] =
       IF pc[c] = "cancel_tokens" THEN @ ELSE SatSub(@, tokens[c])]
  /\ pc' = [pc EXCEPT ![c] = IF pc[c] = "cancel_tokens" THEN "idle" ELSE "push"]
  /\ tokens' = [tokens EXCEPT ![c] = 0]
  /\ UNCHANGED <<max_in_flight, in_flight_requests, window, bucket, count, misstated>>

(* Their second instruction: cancel_reservation is done, release goes on. *)
SubTokens(c) ==
  /\ pc[c] \in {"cancel_tokens", "release_tokens"}
  /\ in_flight_tokens' =
       [in_flight_tokens EXCEPT ![bucket[c]] = SatSub(@, tokens[c])]
  /\ pc' = [pc EXCEPT ![c] = IF pc[c] = "cancel_tokens" THEN "idle" ELSE "push"]
  /\ tokens' = [tokens EXCEPT ![c] = 0]
  /\ UNCHANGED <<max_in_flight, in_flight_requests, window, bucket, count, misstated>>

(* release records the call in the windows, under the bucket's mutex. *)
PushWindow(c) ==
  /\ pc[c] = "push"
  /\ window' = [window EXCEPT ![bucket[c]] = @ + 1]
  /\ pc' = [pc EXCEPT ![c] = "idle"]
  /\ UNCHANGED <<max_in_flight, in_flight_requests, in_flight_tokens,
                 bucket, tokens, count, misstated>>

(* A minute passes for the oldest call: the next reader drains it. *)
Drain(b) ==
  /\ window[b] > 0
  /\ window' = [window EXCEPT ![b] = @ - 1]
  /\ UNCHANGED <<max_in_flight, in_flight_requests, in_flight_tokens, caller_vars>>

(* reload swaps the cache under its write lock, which no select holds for  *)
(* reading meanwhile.                                                      *)
SetCap(m, k) ==
  /\ \A c \in Caller : pc[c] \notin {"cas", "add_tokens"}
  /\ max_in_flight' = [max_in_flight EXCEPT ![m] = k]
  /\ UNCHANGED <<in_flight_requests, in_flight_tokens, window, caller_vars>>

CallerStep(c) ==
  \/ \E b \in Bucket, e \in Estimates : TryReserve(c, b, e)
  \/ CasSucceeds(c) \/ CasFails(c) \/ AddTokens(c)
  \/ Cancel(c) \/ Release(c) \/ SubTokens(c) \/ PushWindow(c)

Next ==
  \/ \E c \in Caller : CallerStep(c)
  \/ \E b \in Bucket : Drain(b)
  \/ \E m \in Model, k \in Caps : SetCap(m, k)

Spec == Init /\ [][Next]_vars
-----------------------------------------------------------------------------
TypeOK ==
  /\ max_in_flight \in [Model -> Caps]
  /\ in_flight_requests \in [Bucket -> Nat]
  /\ in_flight_tokens \in [Bucket -> Nat]
  /\ window \in [Bucket -> Nat]
  /\ pc \in [Caller -> PC]
  /\ bucket \in [Caller -> Bucket]
  /\ tokens \in [Caller -> Nat]
  /\ count \in [Caller -> Nat]
  /\ omitted \in [Bucket -> Nat]
  /\ overstated \in [Bucket -> Nat]

(* The counter of a bucket is the number of calls that hold one of its       *)
(* slots, whatever compare-and-swaps and subtractions interleave: no slot is *)
(* leaked and the saturating subtraction never hides a second release.       *)
InFlightCountsHolders ==
  \A b \in Bucket : in_flight_requests[b] = Cardinality(Holders(b))

(* A caller about to compare-and-swap was let through by the cap in force: *)
(* no reload has come between its test and its swap.                       *)
CasWithinCap ==
  \A c \in Caller :
    pc[c] = "cas" => Allows(max_in_flight[bucket[c][1]], count[c] + 1)

(* README: "max_in_flight caps concurrent calls per model and API key,      *)
(* atomically": no step takes a bucket's counter up to a value its model's  *)
(* cap does not allow, even when a reload has lowered the cap below what is *)
(* already in flight.                                                       *)
CapRespected ==
  [][\A b \in Bucket :
       in_flight_requests'[b] > in_flight_requests[b]
         => Allows(max_in_flight[b[1]], in_flight_requests'[b])]_vars

(* A bucket's in-flight tokens are those of the calls that have added theirs *)
(* and not yet given them back, but for what reports state wrongly: they are *)
(* at most too high by what was left out and too low by what was overstated, *)
(* so no interleaving subtracts a call's tokens twice, and the saturation    *)
(* takes no more from another call than a report claims.                     *)
Charged(b) ==
  {c \in Caller : bucket[c] = b /\ pc[c] \in {"held", "cancel_tokens", "release_tokens"}}
TokensOf(b) == UNION {{c} \X (1..tokens[c]) : c \in Charged(b)}

TokensWithinReports ==
  \A b \in Bucket :
    /\ in_flight_tokens[b] <= Cardinality(TokensOf(b)) + omitted[b]
    /\ Cardinality(TokensOf(b)) <= in_flight_tokens[b] + overstated[b]

(* The slots the counters stand for: UsageTracker implements SlotPool. *)
Pool == INSTANCE SlotPool WITH held <- [b \in Bucket |-> Holders(b)]
PoolSpec == Pool!Spec
=============================================================================
