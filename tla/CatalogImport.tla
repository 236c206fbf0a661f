--------------------------- MODULE CatalogImport ---------------------------
(***************************************************************************)
(* builtin_providers.rs, the provider syncs, and the command line that     *)
(* edits the same database from processes of its own: who writes the       *)
(* catalog, and what one writer does to the rows of another. A load reads  *)
(* brands and models once, then writes row after row from what it read.    *)
(*                                                                         *)
(* Abstracted: a provider's models.json is the set of variants it lists;   *)
(* its entries give a rate limit and no cap. That the server reloads its   *)
(* cache after a load is CatalogCache's.                                   *)
(***************************************************************************)
EXTENDS CatalogTables, Sequences

CONSTANTS
  Sync,           \* the server's sync tasks
  Editor,         \* commands of the operator, and requests to the catalog endpoints
  ProviderOf,     \* [Sync -> Brand]: the provider a task fetches
  Alone,          \* the syncs that load their own provider only (cloudflare)
  Scraping,       \* the syncs that list what they could scrape only (tokenhub)
  EnrichMax,      \* new models a scraping sync takes on per run
  MinSane,        \* MIN_SANE_MODEL_COUNT
  Dirs,           \* the providers in the order of their directories
  Curated,        \* the variants the files of providers without a sync list
  ModelVerb, BrandVerb,   \* what commands do to a model or brand
  Backends,       \* the databases to begin with
  MaxBusy,        \* bound: processes at work at the same time
  MaxDisturbances \* bound: commands, refreshes, changes of a roster and failures together

ASSUME CatalogImportAssumption ==
  /\ ProviderOf \in [Sync -> Brand] /\ Alone \subseteq Sync /\ Scraping \subseteq Sync
  /\ Dirs \in Seq(Brand) \ {<<>>} /\ Curated \subseteq Variant /\ Backends \subseteq Backend
  /\ MinSane \in Nat \ {0} /\ EnrichMax \in Nat
  /\ ModelVerb \subseteq {"cap", "disable", "enable", "member", "unmember"}
  /\ BrandVerb \subseteq {"brand_off", "brand_on", "brand_weight"}

VARIABLES
  db,
  offered,   \* the variants the synced providers offer
  file,      \* what a brand's models.json lists, if it is not cut short
  op,        \* what each process is doing
  disturbances, \* how many there were
  settled,   \* history: what stays of the operator's edits of a model,
  settled_active \* and of a brand, see Settled

history == <<settled, settled_active>>
vars == <<db, offered, file, op, disturbances, history>>

Synced == {ProviderOf[s] : s \in Sync}
VariantsOf(b) == {v \in Variant : BrandOf[v] = b}
Process == Sync \cup Editor
Idle == [pc |-> "idle"]
Disturb == disturbances < MaxDisturbances /\ disturbances' = disturbances + 1
Become(p, o) == op' = [op EXCEPT ![p] = o]
Begins(p) == op[p] = Idle /\ Cardinality({q \in DOMAIN op : op[q] # Idle}) < MaxBusy

Init ==
  /\ \E backend \in Backends : db = EmptyDatabase(backend)
  /\ offered = UNION {VariantsOf(b) : b \in Synced}
  /\ file = [b \in Brand |-> VariantsOf(b) \cap (Curated \cup offered)]
  /\ op = [p \in Process |-> Idle]
  /\ disturbances = 0
  /\ settled = NoRows /\ settled_active = NoRows
-----------------------------------------------------------------------------
(* The syncs: fetch, judge, write the file, load.                            *)

Offer ==
  /\ Disturb
  /\ \E v \in Variant : BrandOf[v] \in Synced
                        /\ offered' = (offered \ {v}) \cup ({v} \ offered)
  /\ UNCHANGED <<db, file, op, history>>

(* build_entries: what the file had is carried forward if it is still        *)
(* offered, new models are scraped, up to EnrichMax, unless that fails. A    *)
(* file that cannot be read had nothing.                                     *)
Prior(b) == IF b \in DOMAIN file THEN file[b] ELSE {}
Listings(s, roster) ==
  IF s \notin Scraping THEN {roster}
  ELSE LET known == roster \cap Prior(ProviderOf[s])
       IN {known \cup new : new \in {n \in SUBSET (roster \ known) :
                                       Cardinality(n) <= EnrichMax}}

(* A roster that is suspiciously small is left alone: last good stays. A     *)
(* file is cut short as it is opened for writing (fs::write), in the step    *)
(* that judges the roster; one written aside and renamed is not.             *)
Fetch(s) ==
  /\ Begins(s)
  /\ LET b == ProviderOf[s]
         roster == offered \cap VariantsOf(b)
     IN /\ Cardinality(roster) >= MinSane
        /\ \E list \in Listings(s, roster) : Become(s, [pc |-> "write", list |-> list])
        /\ file' = IF s \in Alone THEN file ELSE Without(file, {b})
  /\ UNCHANGED <<db, offered, disturbances, history>>

(* The flags of load_filtered that are set: update_limits, disable_missing. *)
Loads(flags, scope) == [pc |-> "brands", flags |-> flags, scope |-> scope]

(* A plausible bug for mutation: a sync keeps what its provider no longer offers. *)
SyncLoadsKeeping(s) == Loads({"limits"}, IF s \in Alone THEN <<ProviderOf[s]>> ELSE Dirs)

SyncLoads(s) ==
  Loads({"limits", "missing"}, IF s \in Alone THEN <<ProviderOf[s]>> ELSE Dirs)

WriteFile(s) ==
  /\ op[s].pc = "write"
  /\ file' = With(file, ProviderOf[s], op[s].list)
  /\ Become(s, SyncLoads(s))
  /\ UNCHANGED <<db, offered, disturbances, history>>

(* seed_if_empty, when a process opens the database, and the endpoints and   *)
(* commands that load the providers on demand: limits are not updated.       *)
Seed(e) ==
  /\ Begins(e) /\ DOMAIN db.active = {}
  /\ Become(e, Loads({}, Dirs))
  /\ UNCHANGED <<db, offered, file, disturbances, history>>

Refresh(e) ==
  /\ Begins(e) /\ Disturb
  /\ \E flags \in SUBSET {"missing"} : Become(e, Loads(flags, Dirs))
  /\ UNCHANGED <<db, offered, file, history>>
-----------------------------------------------------------------------------
(* load_filtered, one step for each call of the storage.                     *)

(* From here on a sync overwrites learned limits with those of the files. *)
ForgetLimits(flags) ==
  settled' = [v \in DOMAIN settled |-> IF "limits" \in flags
                                       THEN [settled[v] EXCEPT !.limit = "file"]
                                       ELSE settled[v]]

LoadBrands(p) ==
  LET o == op[p] IN
  /\ o.pc = "brands"
  /\ Become(p, [pc |-> "rows", flags |-> o.flags, scope |-> o.scope, active |-> db.active])
  /\ ForgetLimits(o.flags)
  /\ UNCHANGED <<db, offered, file, disturbances, settled_active>>

(* existing_models: of two rows for a variant the map keeps the one it met   *)
(* last. Kept here is only what the load has yet to look at.                 *)
InScope(scope) == UNION {VariantsOf(scope[n]) : n \in DOMAIN scope}
Found(v) == {[id |-> i, row |-> db.models[i]] : i \in RowsOf(db, v)}

LoadModels(p) ==
  LET o == op[p]
      known == {v \in InScope(o.scope) : Found(v) # {}}
  IN /\ o.pc = "rows"
     /\ \E stale \in [known -> UNION {Found(v) : v \in known}] :
          /\ \A v \in known : stale[v] \in Found(v)
          /\ Become(p, [pc |-> "dir", flags |-> o.flags, scope |-> o.scope,
                        active |-> o.active, stale |-> stale])
     /\ UNCHANGED <<db, offered, file, disturbances, history>>

(* What a load does when it has no more to write for a provider: it goes to  *)
(* the next, if there is one.                                                *)
NextDir(o) ==
  IF Tail(o.scope) = <<>> THEN Idle
  ELSE [pc |-> "dir", flags |-> o.flags, scope |-> Tail(o.scope), active |-> o.active,
        stale |-> Restrict(o.stale, DOMAIN o.stale \cap InScope(Tail(o.scope)))]

(* disable_missing: the rows that were enabled and are not in the file. *)
Missing(o) ==
  IF "missing" \notin o.flags THEN {}
  ELSE {v \in DOMAIN o.stale : /\ v \in VariantsOf(Head(o.scope)) \ o.seen
                               /\ o.stale[v].row.enabled = 1}

Onward(o) == IF o.todo = {} /\ Missing(o) = {} THEN NextDir(o) ELSE o

InDir(o, pc) ==
  LET list == file[Head(o.scope)] IN
  [pc |-> pc, flags |-> o.flags, scope |-> o.scope, active |-> o.active, stale |-> o.stale,
   seen |-> list, todo |-> list]

(* Unreadable files are passed over. Otherwise the brand is written back as  *)
(* it was read, or it is new and active, and its key follows. One that       *)
(* another process made meanwhile has another id: the key, and with it the   *)
(* load, is refused.                                                         *)
EnterDir(p) ==
  LET o == op[p]
      b == Head(o.scope)
  IN /\ o.pc = "dir"
     /\ \/ b \notin DOMAIN file /\ Become(p, NextDir(o)) /\ UNCHANGED db
        \/ /\ b \in DOMAIN file /\ b \in DOMAIN o.active
           /\ db' = InsertBrand(db, b, o.active[b])
           /\ Become(p, Onward(InDir(o, "models")))
        \/ /\ b \in DOMAIN file /\ b \notin DOMAIN o.active
           /\ db' = InsertBrand(db, b, 1)
           /\ Become(p, IF Known(db, b) THEN Idle ELSE InDir(o, "key"))
     /\ UNCHANGED <<offered, file, disturbances, history>>

AddKey(p) ==
  /\ op[p].pc = "key"
  /\ db' = InsertKey(db, Head(op[p].scope))
  /\ Become(p, Onward([op[p] EXCEPT !.pc = "models"]))
  /\ UNCHANGED <<offered, file, disturbances, history>>

(* Ids that no row and no process knows: the first of them. *)
Held(o) ==
  CASE o.pc \in {"dir", "key", "models"} -> {o.stale[v].id : v \in DOMAIN o.stale}
    [] o.pc = "apply" -> {o.id}
    [] OTHER -> {}
InUse == DOMAIN db.models \cup UNION {Held(op[p]) : p \in Process}
Fresh(v) ==
  {i \in Id : i[1] = v /\ i \notin InUse /\ \A n \in 1..(i[2] - 1) : <<v, n>> \in InUse}

New(v) == [variant |-> v, enabled |-> 1, cap |-> NoCap, limit |-> "file"]

(* A plausible bug for mutation: the cap is taken from the file. *)
RefreshedUncapped(m, flags) ==
  [m EXCEPT !.cap = NoCap, !.limit = IF "limits" \in flags THEN "file" ELSE @]

(* What a file says of a model that is there: def.or(existing). *)
Refreshed(m, flags) == [m EXCEPT !.limit = IF "limits" \in flags THEN "file" ELSE @]

(* What a load would write for a variant: its row, or a new one. *)
Upserts(o, v) ==
  IF v \in DOMAIN o.stale
  THEN {[id |-> o.stale[v].id, row |-> Refreshed(o.stale[v].row, o.flags)]}
  ELSE {[id |-> i, row |-> New(v)] : i \in Fresh(v)}

UpsertModel(p) ==
  LET o == op[p]
      v == CHOOSE w \in o.todo : TRUE
  IN /\ o.pc = "models" /\ o.todo # {}
     /\ \E u \in Upserts(o, v) :
          IF RefusesModel(db, u.id, u.row)
          THEN Become(p, Idle) /\ UNCHANGED db
          ELSE /\ db' = InsertModel(db, u.id, u.row)
               /\ Become(p, Onward([o EXCEPT !.todo = @ \ {v}]))
     /\ UNCHANGED <<offered, file, disturbances, history>>

SwitchedOff(o, v) ==
  LET known == o.stale[v] IN
  [o EXCEPT !.stale = With(@, v, [id |-> known.id, row |-> [known.row EXCEPT !.enabled = 0]])]

DisableMissing(p) ==
  LET o == op[p] IN
  /\ o.pc = "models" /\ o.todo = {}
  /\ \E v \in Missing(o) :
       /\ db' = SetModelEnabled(db, o.stale[v].id, 0)
       /\ Become(p, Onward(SwitchedOff(o, v)))
  /\ UNCHANGED <<offered, file, disturbances, history>>

(* A storage or file error, or the end of the process: all that was written *)
(* stays, nothing more is: a brand may stay without the key it was to have.  *)
Abort(p) ==
  /\ op[p] # Idle /\ Disturb
  /\ Become(p, Idle)
  /\ UNCHANGED <<db, offered, file, history>>
-----------------------------------------------------------------------------
(* The command line. Each command is a process: it opens the database, finds *)
(* the row it is about, and writes.                                          *)

Command(e) ==
  /\ Begins(e) /\ Disturb
  /\ Become(e, [pc |-> "open"])
  /\ UNCHANGED <<db, offered, file, history>>

(* A plausible bug for mutation: PostgreSQL, too, in two statements. *)
SqliteOpenAlways(e) ==
  /\ op[e].pc = "open"
  /\ db.index = "unique" \/ Unique(db)
  /\ db' = DropIndex(db)
  /\ Become(e, [op[e] EXCEPT !.pc = "reindex"])
  /\ UNCHANGED <<offered, file, disturbances, history>>

(* open_bare: the schema makes the index if it is not there, the migration   *)
(* drops it.                                                                 *)
SqliteOpen(e) ==
  /\ op[e].pc = "open" /\ db.backend = "sqlite"
  /\ db.index = "unique" \/ Unique(db)
  /\ db' = DropIndex(db)
  /\ Become(e, [op[e] EXCEPT !.pc = "reindex"])
  /\ UNCHANGED <<offered, file, disturbances, history>>

Reindex(e) ==
  /\ op[e].pc = "reindex"
  /\ db.index = "none" /\ Unique(db)
  /\ db' = CreateIndex(db)
  /\ Become(e, [op[e] EXCEPT !.pc = "find"])
  /\ UNCHANGED <<offered, file, disturbances, history>>

(* The index exists already, or cannot: the process panics. *)
OpenFails(e) ==
  /\ \/ op[e].pc = "open" /\ db.index = "none" /\ ~Unique(db)
     \/ op[e].pc = "reindex" /\ (db.index = "unique" \/ ~Unique(db))
  /\ Become(e, Idle)
  /\ UNCHANGED <<db, offered, file, disturbances, history>>

PgOpen(e) ==
  /\ op[e].pc = "open" /\ db.backend = "postgres"
  /\ Unique(db)
  /\ Become(e, [op[e] EXCEPT !.pc = "find"])
  /\ UNCHANGED <<db, offered, file, disturbances, history>>

(* find_model, find_brand: none of that name is a panic. What the command is *)
(* for, one of the verbs, makes no difference before it is applied.          *)
ToApply(verbs, v, i) == [pc |-> "apply", verbs |-> verbs, on |-> v, id |-> i]

FindModel(e) ==
  /\ op[e].pc = "find"
  /\ \E v \in Variant : \/ RowsOf(db, v) = {} /\ Become(e, Idle)
                        \/ \E i \in RowsOf(db, v) : Become(e, ToApply(ModelVerb, v, i))
  /\ UNCHANGED <<db, offered, file, disturbances, history>>

FindBrand(e) ==
  /\ op[e].pc = "find"
  /\ \E b \in Brand :
       \/ ~Known(db, b) /\ Become(e, Idle)
       \/ /\ Known(db, b)
          /\ Become(e, [pc |-> "apply_brand", verbs |-> BrandVerb, on |-> b,
                        active |-> db.active[b]])
       \/ Known(db, b) /\ \E v \in VariantsOf(b) : \E i \in Fresh(v) :
            Become(e, ToApply({"add"}, v, i))
  /\ UNCHANGED <<db, offered, file, disturbances, history>>

(* sync_provider_limits: the server, for a model of its cache. *)
LearnLimit(e) ==
  /\ Begins(e) /\ Disturb
  /\ \E i \in DOMAIN db.models : Become(e, ToApply({"limit"}, db.models[i].variant, i))
  /\ UNCHANGED <<db, offered, file, history>>

(* What the statement makes of the database; a refusal changes nothing. A    *)
(* weight or priority is written with the rest of the brand as it was read.  *)
BrandEdited(o, verb) ==
  CASE verb = "brand_off"    -> SetBrandActive(db, o.on, 0)
    [] verb = "brand_on"     -> SetBrandActive(db, o.on, 1)
    [] verb = "brand_weight" -> InsertBrand(db, o.on, o.active)

ModelAdded(o) ==
  IF RefusesModel(db, o.id, New(o.on)) THEN db ELSE InsertModel(db, o.id, New(o.on))
Capped(o) == SetModelCap(db, o.id, 1)
Switched(o, verb) == SetModelEnabled(db, o.id, IF verb = "enable" THEN 1 ELSE 0)

MemberEdited(o, verb) ==
  IF verb = "unmember" THEN RemoveMember(db, o.id)
  ELSE IF RefusesMember(db, o.id) THEN db ELSE InsertMember(db, o.id)

ModelEdited(o, verb) ==
  CASE verb = "add" -> ModelAdded(o)
    [] verb = "cap" -> Capped(o)
    [] verb \in {"disable", "enable"} -> Switched(o, verb)
    [] verb \in {"member", "unmember"} -> MemberEdited(o, verb)
    [] verb = "limit" -> SyncModelLimits(db, o.id)

(* An edit is settled if nobody is at work on rows read before it. What it   *)
(* leaves is recorded: the row, if it is the only one of its variant, or the *)
(* brand's switch. An edit in the middle of a load may be undone.            *)
Quiet(e) == \A p \in Process \ {e} :
  op[p].pc \in {"idle", "write", "brands", "open", "reindex", "find"}

Settled(v) ==
  LET rows == RowsOf(db', v)
  IN {db'.models[i] : i \in {j \in rows : \A k \in rows : k = j}}

Apply(e) ==
  LET o == op[e] IN
  /\ o.pc = "apply"
  /\ \E verb \in o.verbs : db' = ModelEdited(o, verb)
  /\ \/ /\ Quiet(e)
        /\ \E m \in Settled(o.on) : settled' = With(settled, o.on, m)
     \/ /\ ~Quiet(e) \/ Settled(o.on) = {}
        /\ settled' = Without(settled, {o.on})
  /\ Become(e, Idle)
  /\ UNCHANGED <<offered, file, disturbances, settled_active>>

ApplyBrand(e) ==
  LET o == op[e] IN
  /\ o.pc = "apply_brand"
  /\ \E verb \in o.verbs : db' = BrandEdited(o, verb)
  /\ settled_active' = IF Quiet(e) THEN With(settled_active, o.on, db'.active[o.on])
                       ELSE Without(settled_active, {o.on})
  /\ Become(e, Idle)
  /\ UNCHANGED <<offered, file, disturbances, settled>>

(* brand add: the row, or what it overwrites; then the key, as in a load. *)
AddBrand(e) ==
  /\ op[e].pc = "find"
  /\ \E b \in Brand :
       /\ db' = InsertBrand(db, b, 1)
       /\ settled_active' = Without(settled_active, {b})
       /\ Become(e, IF Known(db, b) THEN Idle ELSE [pc |-> "brand_key", on |-> b])
  /\ UNCHANGED <<offered, file, disturbances, settled>>

AddBrandKey(e) ==
  /\ op[e].pc = "brand_key"
  /\ db' = InsertKey(db, op[e].on)
  /\ Become(e, Idle)
  /\ UNCHANGED <<offered, file, disturbances, history>>
-----------------------------------------------------------------------------
SyncStep(s) == Fetch(s) \/ WriteFile(s)

LoadStep(p) ==
  LoadBrands(p) \/ LoadModels(p) \/ EnterDir(p) \/ AddKey(p)
  \/ UpsertModel(p) \/ DisableMissing(p)

EditStep(e) ==
  \/ Seed(e) \/ Refresh(e) \/ Command(e) \/ LearnLimit(e)
  \/ SqliteOpen(e) \/ Reindex(e) \/ OpenFails(e) \/ PgOpen(e)
  \/ FindModel(e) \/ FindBrand(e) \/ Apply(e) \/ ApplyBrand(e)
  \/ AddBrand(e) \/ AddBrandKey(e)

Next ==
  \/ Offer
  \/ \E s \in Sync : SyncStep(s)
  \/ \E p \in Process : LoadStep(p)
  \/ \E e \in Editor : EditStep(e)
  \/ \E p \in Process : Abort(p)

Spec == Init /\ [][Next]_vars

(* The sync tasks never end and what a load has begun goes on; in the end    *)
(* nothing fails any more.                                                   *)
FairSpec ==
  /\ Spec
  /\ \A s \in Sync : WF_vars(SyncStep(s))
  /\ \A p \in Process : WF_vars(LoadStep(p))
-----------------------------------------------------------------------------
IsTable(f, X, Y) == DOMAIN f \subseteq X /\ f \in [DOMAIN f -> Y]

IsDatabase(d) ==
  /\ d \in [backend : Backend, index : {"unique", "none"}, active : {d.active},
            keyed : SUBSET Brand, models : {d.models}, members : SUBSET Id]
  /\ IsTable(d.active, Brand, Switch) /\ IsTable(d.models, Id, Model)

PC == {"idle", "open", "reindex", "find", "write", "brands", "rows", "dir", "key", "models",
       "apply", "apply_brand", "brand_key"}
Scope == Seq(Brand) \ {<<>>}
Flags == SUBSET {"limits", "missing"}

(* A load knows its flags and the providers ahead of it; then the brands and *)
(* the rows that it read; then what the file lists and is left to write.     *)
IsOp(o) ==
  /\ o.pc \in PC
  /\ o.pc \in {"idle", "open", "reindex", "find"} => o = [pc |-> o.pc]
  /\ o.pc = "write" => o \in [pc : {"write"}, list : SUBSET Variant]
  /\ o.pc = "brands" => o \in [pc : {"brands"}, flags : Flags, scope : Scope]
  /\ o.pc = "rows" =>
       o \in [pc : {"rows"}, flags : Flags, scope : Scope, active : {o.active}]
  /\ o.pc = "dir" =>
       o \in [pc : {"dir"}, flags : Flags, scope : Scope, active : {o.active}, stale : {o.stale}]
  /\ o.pc \in {"key", "models"} =>
       o \in [pc : {"key", "models"}, flags : Flags, scope : Scope, active : {o.active},
              stale : {o.stale}, seen : SUBSET Variant, todo : SUBSET Variant]
  /\ o.pc \in {"rows", "dir", "key", "models"} => IsTable(o.active, Brand, Switch)
  /\ o.pc \in {"dir", "key", "models"} => IsTable(o.stale, Variant, [id : Id, row : Model])
  /\ o.pc = "apply" =>
       o \in [pc : {"apply"}, verbs : SUBSET (ModelVerb \cup {"add", "limit"}),
              on : Variant, id : Id]
  /\ o.pc = "apply_brand" =>
       o \in [pc : {"apply_brand"}, verbs : SUBSET BrandVerb, on : Brand, active : Switch]
  /\ o.pc = "brand_key" => o \in [pc : {"brand_key"}, on : Brand]

TypeOK ==
  /\ IsDatabase(db) /\ offered \subseteq Variant
  /\ IsTable(file, Brand, SUBSET Variant)
  /\ DOMAIN op = Process /\ \A p \in Process : IsOp(op[p])
  /\ IsTable(settled, Variant, Model) /\ IsTable(settled_active, Brand, Switch)

(* Whatever loads and edits overlap, on PostgreSQL no load takes a model out *)
(* of its groups and rules. On SQLite every load does, see SqliteInsertModel. *)
ReferencesStayValidInPg ==
  [][db.backend = "postgres" /\ (\E p \in Process : LoadStep(p))
       => db.members \subseteq db'.members]_vars

(* README: a "catalog refresh preserves an existing cap", a disabled model   *)
(* or brand stays disabled, and a learned limit stays until a sync: an edit  *)
(* made while no load was under way outlives all later loads, in any number. *)
Keeps(m, left) ==
  /\ m.cap = left.cap
  /\ left.enabled = 0 => m.enabled = 0
  /\ left.limit = "learned" => m.limit = "learned"

EditsOutliveLoads ==
  /\ \A v \in DOMAIN settled :
       RowsOf(db, v) # {} /\ \A i \in RowsOf(db, v) : Keeps(db.models[i], settled[v])
  /\ \A b \in DOMAIN settled_active :
       Known(db, b) /\ (settled_active[b] = 0 => db.active[b] = 0)

(* As long as some sync goes on loading all providers, the catalog comes to  *)
(* agree with the files, whatever failed, raced or was edited before: every  *)
(* model that is listed is there, and one that is not is not enabled.        *)
Agrees(v) ==
  LET b == BrandOf[v] IN
  /\ v \in Prior(b) => RowsOf(db, v) # {}
  /\ b \in DOMAIN file /\ v \notin file[b] /\ Cardinality(RowsOf(db, v)) = 1
       => \A i \in RowsOf(db, v) : db.models[i].enabled = 0
Converges ==
  (\E s \in Sync \ Alone : []<>(op[s].pc = "brands")) => <>[](\A v \in Variant : Agrees(v))

(* migrate_streaming_variant_index, REPLACE, ON CONFLICT and ON DELETE        *)
(* CASCADE, whatever overlaps: on PostgreSQL the index always stands; while  *)
(* it stands a variant has one row, on SQLite too, where others insert       *)
(* between DROP and CREATE INDEX; and what refers to a model finds it.       *)
SchemaKept ==
  /\ db.backend = "postgres" => db.index = "unique"
  /\ db.index = "unique" => Unique(db)
  /\ db.members \subseteq DOMAIN db.models
=============================================================================
