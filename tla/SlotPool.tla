------------------------------ MODULE SlotPool ------------------------------
(***************************************************************************)
(* What the in-flight counters of crates/core/src/usage_tracker.rs promise *)
(* to the selector: a pool of slots per (model, API key) bucket.  A caller *)
(* takes a slot in one step and only below the model's max_in_flight cap,  *)
(* holds at most one, and gives it back once.  UsageTracker, where the     *)
(* same happens in several atomic instructions, implements this module.    *)
(***************************************************************************)
EXTENDS Naturals, FiniteSets

CONSTANTS
  Caller,   \* the tasks that select, call a provider and report
  Model,    \* the models of the catalog
  Key,      \* API keys, the "no key" of a single-key brand being one of them
  NoCap,    \* a model without max_in_flight
  Caps      \* the caps a catalog may give a model

Bucket == Model \X Key

VARIABLES
  held,           \* held[b]: the callers that hold a slot of bucket b
  max_in_flight   \* max_in_flight[m]: the cap in force for model m

vars == <<held, max_in_flight>>

(* n calls in flight are allowed under the cap k. *)
Allows(k, n) == k = NoCap \/ n <= k

Init ==
  /\ held = [b \in Bucket |-> {}]
  /\ max_in_flight \in [Model -> Caps]

Acquire(c, b) ==
  /\ \A d \in Bucket : c \notin held[d]
  /\ Allows(max_in_flight[b[1]], Cardinality(held[b]) + 1)
  /\ held' = [held EXCEPT ![b] = @ \cup {c}]
  /\ UNCHANGED max_in_flight

Return(c, b) ==
  /\ c \in held[b]
  /\ held' = [held EXCEPT ![b] = @ \ {c}]
  /\ UNCHANGED max_in_flight

(* A catalog reload installs another cap: it may be below what is in flight. *)
SetCap(m, k) ==
  /\ max_in_flight' = [max_in_flight EXCEPT ![m] = k]
  /\ UNCHANGED held

Next ==
  \/ \E c \in Caller, b \in Bucket : Acquire(c, b) \/ Return(c, b)
  \/ \E m \in Model, k \in Caps : SetCap(m, k)

Spec == Init /\ [][Next]_vars
=============================================================================
