--------------------------- MODULE CatalogTables ---------------------------
(***************************************************************************)
(* The catalog's tables and the calls of the CatalogStorage trait that the *)
(* imports and the command line make, as operators on a database: what     *)
(* storage-sqlite and storage-pg promise of each call, and where the two   *)
(* part. A call is one statement, or one transaction, and is atomic.       *)
(*                                                                         *)
(* Abstracted: a variant is a (brand, slug, streaming, http_batch); of a   *)
(* model's columns there are its switch, its cap and one rate limit; the   *)
(* group members stand for every table that refers to pz_models with ON    *)
(* DELETE CASCADE (rules, members, step quality, rate events).             *)
(***************************************************************************)
EXTENDS Naturals, FiniteSets, Functions

CONSTANTS
  Brand, Variant,
  BrandOf,          \* [Variant -> Brand]
  Id,               \* the ids of models
  NoCap             \* max_in_flight IS NULL

(* An id is made for one variant and never for another. *)
ASSUME CatalogTablesAssumption ==
  BrandOf \in [Variant -> Brand] /\ NoCap \notin Nat /\ Id \subseteq Variant \X Nat

Backend == {"sqlite", "postgres"}

(* A switch is the 0 or 1 of its column. *)
Switch == {0, 1}
Model == [variant : Variant, enabled : Switch, cap : Nat \cup {NoCap},
          limit : {"file", "learned"}]

(* A table has rows for some of its keys.  With the row y at x, be it new or *)
(* an update; without those of S.                                            *)
Table(X, Y) == UNION {[S -> Y] : S \in SUBSET X}
With(f, x, y) == [z \in DOMAIN f \cup {x} |-> IF z = x THEN y ELSE f[z]]
Without(f, S) == Restrict(f, DOMAIN f \ S)
NoRows == [x \in {} |-> 0]

(* backend: which of the two; index: whether the variants have their unique  *)
(* index; active: is_active of the brands there are; keyed: the brands with  *)
(* a key; models: by id; members: the models that some row refers to.        *)
EmptyDatabase(backend) ==
  [backend |-> backend, index |-> "unique", active |-> NoRows, keyed |-> {},
   models |-> NoRows, members |-> {}]

Known(db, b) == b \in DOMAIN db.active
RowsOf(db, v) == {i \in DOMAIN db.models : db.models[i].variant = v}
-----------------------------------------------------------------------------
(* ON CONFLICT(slug) DO UPDATE, in both: a row that exists keeps its id. *)
InsertBrand(db, b, active) == [db EXCEPT !.active = With(@, b, active)]

SetBrandActive(db, b, active) == [db EXCEPT !.active[b] = active]

InsertKey(db, b) == [db EXCEPT !.keyed = @ \cup {b}]

(* INSERT OR REPLACE: the row of that id and, by the index, the row of that  *)
(* variant are deleted first, and with them whatever refers to them.         *)
SqliteInsertModel(db, i, m) ==
  LET replaced == {j \in DOMAIN db.models :
                     j = i \/ (db.index = "unique" /\ db.models[j].variant = m.variant)}
  IN [db EXCEPT !.models = With(Without(@, replaced), i, m),
                !.members = @ \ replaced]

(* A plausible bug for mutation: PostgreSQL, too, deletes and inserts. *)
PgReplaceModel(db, i, m) ==
  [db EXCEPT !.models = With(@, i, m), !.members = @ \ {i}]

(* ON CONFLICT(id) DO UPDATE: the row stays, and what refers to it. *)
PgInsertModel(db, i, m) == [db EXCEPT !.models = With(@, i, m)]

(* A second id for a variant is a unique violation. *)
PgRefusesModel(db, i, m) == db.index = "unique" /\ RowsOf(db, m.variant) \ {i} # {}

InsertModel(db, i, m) ==
  IF db.backend = "sqlite" THEN SqliteInsertModel(db, i, m) ELSE PgInsertModel(db, i, m)
RefusesModel(db, i, m) == db.backend = "postgres" /\ PgRefusesModel(db, i, m)

(* UPDATE ... WHERE id: no row, no effect and no error. *)
UpdateModel(db, i, m) ==
  IF i \in DOMAIN db.models THEN [db EXCEPT !.models[i] = m] ELSE db

SetModelEnabled(db, i, enabled) ==
  UpdateModel(db, i, [db.models[i] EXCEPT !.enabled = enabled])
SetModelCap(db, i, cap) == UpdateModel(db, i, [db.models[i] EXCEPT !.cap = cap])

(* sync_model_limits, with limits that are not NULL. *)
SyncModelLimits(db, i) == UpdateModel(db, i, [db.models[i] EXCEPT !.limit = "learned"])

(* insert_group_member, insert_rule, upsert_step_quality: a foreign key. *)
RefusesMember(db, i) == i \notin DOMAIN db.models
InsertMember(db, i) == [db EXCEPT !.members = @ \cup {i}]
RemoveMember(db, i) == [db EXCEPT !.members = @ \ {i}]
-----------------------------------------------------------------------------
(* migrate_streaming_variant_index, at every open: SQLite drops the index    *)
(* and makes it anew in two statements, PostgreSQL in one transaction. A     *)
(* variant with two rows has no unique index: the open fails.                *)
Unique(db) ==
  \A i, j \in DOMAIN db.models : db.models[i].variant = db.models[j].variant => i = j

DropIndex(db) == [db EXCEPT !.index = "none"]
CreateIndex(db) == [db EXCEPT !.index = "unique"]
=============================================================================
