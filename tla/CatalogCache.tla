---------------------------- MODULE CatalogCache ----------------------------
(***************************************************************************)
(* crates/core/src/selector.rs: the catalog in memory and in the database. *)
(*                                                                         *)
(* A reload reads table after table and replaces the whole cache; the      *)
(* reload route forces one, a select makes one when the cache is older     *)
(* than its TTL, and none excludes another.  Reports write the rate limits *)
(* that provider headers announce through to the database and the cache.   *)
(*                                                                         *)
(* Abstracted: tables are counters of their edits, models standing for     *)
(* what is read first and members for what is read last; one model, of a   *)
(* brand without a key pool, has one limit.                                *)
(***************************************************************************)
EXTENDS Naturals

CONSTANTS
  Thread,
  Admin,     \* the threads that serve the reload route
  Limit,     \* the rate limits a provider may announce
  NoCache,
  MaxEdits   \* bound: edits of the catalog and new limits announced

ASSUME CacheAssumption == Admin \subseteq Thread /\ Limit # {} /\ MaxEdits \in Nat

VARIABLES
  db,        \* the tables: [models, members, limit]
  cache,     \* NoCache, or what was loaded of them
  expired,   \* the cache is older than CACHE_TTL_SECS
  offered,   \* the limit in the provider's headers
  edits,     \* how often db and offered have been changed from outside
  op         \* what each thread is doing

world == <<offered, edits>>
vars == <<db, cache, expired, world, op>>

Tables == [models : 0..MaxEdits, members : 0..MaxEdits, limit : Limit]

Idle == [pc |-> "idle"]
Become(t, o) == op' = [op EXCEPT ![t] = o]

Init ==
  /\ db \in [models : {0}, members : {0}, limit : Limit]
  /\ cache = NoCache /\ expired = FALSE
  /\ offered = db.limit /\ edits = 0
  /\ op = [t \in Thread |-> Idle]
-----------------------------------------------------------------------------
(* reload(), forced by the route or needed by a select. *)
Reload(t) ==
  /\ t \in Admin /\ op[t] = Idle
  /\ Become(t, [pc |-> "models"])
  /\ UNCHANGED <<db, cache, expired, world>>

(* A plausible bug for mutation: only an empty cache is filled. *)
NeedsFirstLoad == cache = NoCache

NeedsReload == cache = NoCache \/ expired

(* ensure_cache, at the start of every select. *)
EnsureCache(t) ==
  /\ op[t] = Idle /\ NeedsReload
  /\ Become(t, [pc |-> "models"])
  /\ UNCHANGED <<db, cache, expired, world>>

LoadModels(t) ==
  /\ op[t].pc = "models"
  /\ Become(t, [pc |-> "members", models |-> db.models, limit |-> db.limit])
  /\ UNCHANGED <<db, cache, expired, world>>

LoadMembers(t) ==
  /\ op[t].pc = "members"
  /\ Become(t, [pc |-> "install",
                loaded |-> [models |-> op[t].models, members |-> db.members,
                            limit |-> op[t].limit]])
  /\ UNCHANGED <<db, cache, expired, world>>

(* A table cannot be read: the select or the route fails, the cache stays. *)
LoadFails(t) ==
  /\ op[t].pc \in {"models", "members"}
  /\ Become(t, Idle)
  /\ UNCHANGED <<db, cache, expired, world>>

Install(t) ==
  /\ op[t].pc = "install"
  /\ cache' = op[t].loaded /\ expired' = FALSE
  /\ Become(t, Idle)
  /\ UNCHANGED <<db, world>>
-----------------------------------------------------------------------------
DiffersFromCache == cache # NoCache /\ cache.limit # offered

(* sync_provider_limits: the cached limit is compared, ... *)
Report(t) ==
  /\ op[t] = Idle /\ DiffersFromCache
  /\ Become(t, [pc |-> "persist", limit |-> offered])
  /\ UNCHANGED <<db, cache, expired, world>>

(* A plausible bug for mutation: the write is skipped, the cache alone patched. *)
PersistNothing(t) ==
  /\ op[t].pc = "persist"
  /\ Become(t, [op[t] EXCEPT !.pc = "patch"])
  /\ UNCHANGED <<db, cache, expired, world>>

(* ... the database is written first, ... *)
Persist(t) ==
  /\ op[t].pc = "persist"
  /\ db' = [db EXCEPT !.limit = op[t].limit]
  /\ Become(t, [op[t] EXCEPT !.pc = "patch"])
  /\ UNCHANGED <<cache, expired, world>>

PersistFails(t) ==
  /\ op[t].pc = "persist"
  /\ Become(t, Idle)
  /\ UNCHANGED <<db, cache, expired, world>>

(* ... and the cache, whatever a reload has made of it, is patched. *)
Patch(t) ==
  /\ op[t].pc = "patch"
  /\ cache' = [cache EXCEPT !.limit = op[t].limit]
  /\ Become(t, Idle)
  /\ UNCHANGED <<db, expired, world>>
-----------------------------------------------------------------------------
(* The CLI or a sync task edits the catalog, or a provider its limits. *)
Edit ==
  /\ edits < MaxEdits /\ edits' = edits + 1
  /\ \/ db' = [db EXCEPT !.models = @ + 1] /\ UNCHANGED offered
     \/ db' = [db EXCEPT !.members = @ + 1] /\ UNCHANGED offered
     \/ \E l \in Limit : db' = [db EXCEPT !.limit = l] /\ UNCHANGED offered
     \/ \E l \in Limit : offered' = l /\ UNCHANGED db
  /\ UNCHANGED <<cache, expired, op>>

Expire ==
  /\ cache # NoCache /\ ~expired
  /\ expired' = TRUE
  /\ UNCHANGED <<db, cache, world, op>>

Step(t) == LoadModels(t) \/ LoadMembers(t) \/ LoadFails(t) \/ Install(t)
           \/ Persist(t) \/ PersistFails(t) \/ Patch(t)

Next ==
  \/ Edit \/ Expire
  \/ \E t \in Thread : Reload(t) \/ EnsureCache(t) \/ Report(t) \/ Step(t)

Spec == Init /\ [][Next]_vars

(* Selects and reports keep coming, what was begun goes on, time passes, and *)
(* the database does not fail for ever.                                      *)
FairSpec ==
  /\ Spec /\ WF_vars(Expire)
  /\ \A t \in Thread : WF_vars(Step(t))
  /\ SF_vars(\E t \in Thread : EnsureCache(t)) /\ SF_vars(\E t \in Thread : Report(t))
  /\ SF_vars(\E t \in Thread : LoadModels(t)) /\ SF_vars(\E t \in Thread : LoadMembers(t))
  /\ SF_vars(\E t \in Thread : Persist(t))
-----------------------------------------------------------------------------
TypeOK ==
  /\ db \in Tables /\ cache \in Tables \cup {NoCache} /\ expired \in BOOLEAN
  /\ offered \in Limit /\ edits \in 0..MaxEdits
  /\ op \in [Thread ->
       {Idle, [pc |-> "models"]}
       \cup [pc : {"members"}, models : 0..MaxEdits, limit : Limit]
       \cup [pc : {"install"}, loaded : Tables]
       \cup [pc : {"persist", "patch"}, limit : Limit]]

(* The cache follows the catalog by its TTL, however reloads overlap: when   *)
(* the edits end it comes to hold the last of every table, and stays so.     *)
EditsArrive ==
  <>[](cache # NoCache /\ cache.models = db.models /\ cache.members = db.members)

(* The announced limit comes to be the one in the database and the cache,    *)
(* whatever reports and reloads have overtaken each other.                   *)
LimitsSettle == <>[](cache # NoCache /\ cache.limit = offered /\ db.limit = offered)
=============================================================================
