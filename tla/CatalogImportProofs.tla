-------------------------- MODULE CatalogImportProofs --------------------------
(***************************************************************************)
(* For any brands, variants, syncs, commands, files and bounds, on both    *)
(* databases: the theorems at the end.                                     *)
(*                                                                         *)
(* EditsOutliveLoads is not inductive: a load writes what it read, so what *)
(* it holds must agree with the edit as well.  Respects says so of a row   *)
(* and RespectsBrand of a brand, from the moment a load has read them to   *)
(* its end; a row that a load has in its scope and does not hold would be  *)
(* inserted anew, so a settled one must be held.  An edit is settled only  *)
(* when no process holds anything (Quiet), which is how Respects begins;   *)
(* Follows says that a load's own steps keep it.  OneRowInPg is inductive  *)
(* with the ids (Owned): an id is of one variant, so an insert that the    *)
(* unique index lets through, or an update, leaves one row.  Constrained   *)
(* is what SQLite keeps while its index goes and comes back.               *)
(***************************************************************************)
EXTENDS CatalogImport, SequenceTheorems, TLAPS

-----------------------------------------------------------------------------
(* Tables: an insertion or update, and a deletion. *)
LEMMA WithTable ==
  ASSUME NEW X, NEW Y, NEW f, IsTable(f, X, Y), NEW x \in X, NEW y \in Y
  PROVE  IsTable(With(f, x, y), X, Y)
BY DEF With, IsTable

(* What is left without some of the rows. *)
LEMMA WithoutForm ==
  ASSUME NEW f, NEW S
  PROVE  /\ DOMAIN Without(f, S) = DOMAIN f \ S
         /\ \A z \in DOMAIN f \ S : Without(f, S)[z] = f[z]
BY DEF Without, Restrict

(* It is a table still, *)
LEMMA WithoutTable ==
  ASSUME NEW X, NEW Y, NEW f, IsTable(f, X, Y), NEW S
  PROVE  IsTable(Without(f, S), X, Y)
BY DEF Without, Restrict, IsTable

(* as is what is left of some of them. *)
LEMMA RestrictTable ==
  ASSUME NEW X, NEW Y, NEW f, IsTable(f, X, Y), NEW S
  PROVE  IsTable(Restrict(f, DOMAIN f \cap S), X, Y)
BY DEF Restrict, IsTable

(* A row is of the type of the rows. *)
LEMMA TableRow ==
  ASSUME NEW X, NEW Y, NEW f, IsTable(f, X, Y), NEW x \in DOMAIN f
  PROVE  x \in X /\ f[x] \in Y
BY DEF IsTable

(* The table without rows. *)
LEMMA NoRowsTable ==
  ASSUME NEW X, NEW Y
  PROVE  IsTable(NoRows, X, Y) /\ DOMAIN NoRows = {}
BY DEF NoRows, IsTable
-----------------------------------------------------------------------------
(* What a call leaves alone: the rows and what guards them, or the brands. *)
RowsSame(d, e) ==
  e.models = d.models /\ e.index = d.index /\ e.backend = d.backend /\ e.members = d.members
BrandsSame(d, e) == e.active = d.active /\ e.keyed = d.keyed

(* Row i is written as m; others stay or, if of the same variant, go. *)
Written(d, e, i, m) ==
  /\ BrandsSame(d, e) /\ e.index = d.index /\ e.backend = d.backend
  /\ i \in DOMAIN e.models /\ e.models[i] = m
  /\ \A j \in DOMAIN e.models : j # i => j \in DOMAIN d.models /\ e.models[j] = d.models[j]
  /\ \A j \in DOMAIN d.models : j \notin DOMAIN e.models => d.models[j].variant = m.variant

(* The fields of a database, and how one of them changes. *)
LEMMA DatabaseForm ==
  ASSUME NEW d, IsDatabase(d)
  PROVE  /\ d.backend \in Backend /\ d.index \in {"unique", "none"}
         /\ IsTable(d.active, Brand, Switch) /\ d.keyed \subseteq Brand
         /\ IsTable(d.models, Id, Model) /\ d.members \subseteq Id
BY DEF IsDatabase

(* The brands change, *)
LEMMA ActiveChanged ==
  ASSUME NEW d, IsDatabase(d), NEW a
  PROVE  LET e == [d EXCEPT !.active = a] IN
         /\ e.active = a /\ RowsSame(d, e) /\ e.keyed = d.keyed
         /\ IsTable(a, Brand, Switch) => IsDatabase(e)
BY DEF IsDatabase, RowsSame

(* the keys change, *)
LEMMA KeyedChanged ==
  ASSUME NEW d, IsDatabase(d), NEW k
  PROVE  LET e == [d EXCEPT !.keyed = k] IN
         /\ e.keyed = k /\ RowsSame(d, e) /\ e.active = d.active
         /\ k \subseteq Brand => IsDatabase(e)
BY DEF IsDatabase, RowsSame

(* the index is dropped or made, *)
LEMMA IndexChanged ==
  ASSUME NEW d, IsDatabase(d), NEW x \in {"unique", "none"}
  PROVE  LET e == [d EXCEPT !.index = x] IN
         /\ e.index = x /\ e.models = d.models /\ e.backend = d.backend
         /\ e.members = d.members /\ BrandsSame(d, e) /\ IsDatabase(e)
BY DEF IsDatabase, BrandsSame

(* the group members change. *)
LEMMA MembersChanged ==
  ASSUME NEW d, IsDatabase(d), NEW s
  PROVE  LET e == [d EXCEPT !.members = s] IN
         /\ e.members = s /\ e.models = d.models /\ e.backend = d.backend
         /\ e.index = d.index /\ BrandsSame(d, e)
         /\ s \subseteq Id => IsDatabase(e)
BY DEF IsDatabase, BrandsSame

-----------------------------------------------------------------------------
(* The calls on brands. *)
LEMMA InsertBrandForm ==
  ASSUME NEW d, IsDatabase(d), NEW b \in Brand, NEW a \in Switch
  PROVE  LET e == InsertBrand(d, b, a) IN
         /\ IsDatabase(e) /\ RowsSame(d, e) /\ e.keyed = d.keyed
         /\ DOMAIN e.active = DOMAIN d.active \cup {b} /\ e.active[b] = a
         /\ \A c \in DOMAIN d.active : c # b => e.active[c] = d.active[c]
<1> DEFINE t == With(d.active, b, a)
<1>1. IsTable(t, Brand, Switch)
  BY DatabaseForm, WithTable
<1>2. /\ DOMAIN t = DOMAIN d.active \cup {b} /\ t[b] = a
      /\ \A c \in DOMAIN d.active : c # b => t[c] = d.active[c]
  BY DEF With
<1>3. InsertBrand(d, b, a) = [d EXCEPT !.active = t]
  BY DEF InsertBrand
<1> HIDE DEF t
<1> QED
  BY <1>1, <1>2, <1>3, ActiveChanged

(* The switch of a brand that is there. *)
LEMMA SetBrandActiveForm ==
  ASSUME NEW d, IsDatabase(d), NEW b \in DOMAIN d.active, NEW a \in Switch
  PROVE  LET e == SetBrandActive(d, b, a) IN
         /\ IsDatabase(e) /\ RowsSame(d, e) /\ e.keyed = d.keyed
         /\ DOMAIN e.active = DOMAIN d.active /\ e.active[b] = a
         /\ \A c \in DOMAIN d.active : c # b => e.active[c] = d.active[c]
<1> DEFINE t == [d.active EXCEPT ![b] = a]
<1>1. IsTable(d.active, Brand, Switch)
  BY DatabaseForm
<1>2. IsTable(t, Brand, Switch)
  BY <1>1 DEF IsTable
<1>3. /\ DOMAIN t = DOMAIN d.active /\ t[b] = a
      /\ \A c \in DOMAIN d.active : c # b => t[c] = d.active[c]
  OBVIOUS
<1>4. SetBrandActive(d, b, a) = [d EXCEPT !.active = t]
  BY DEF SetBrandActive
<1> HIDE DEF t
<1> QED
  BY <1>2, <1>3, <1>4, ActiveChanged

(* The key of a brand. *)
LEMMA InsertKeyForm ==
  ASSUME NEW d, IsDatabase(d), NEW b \in Brand
  PROVE  LET e == InsertKey(d, b) IN
         IsDatabase(e) /\ RowsSame(d, e) /\ e.active = d.active /\ e.keyed = d.keyed \cup {b}
<1>1. d.keyed \cup {b} \subseteq Brand
  BY DatabaseForm
<1>2. InsertKey(d, b) = [d EXCEPT !.keyed = d.keyed \cup {b}]
  BY DEF InsertKey
<1> QED
  BY <1>1, <1>2, KeyedChanged

(* The calls on models: inserted, *)
LEMMA InsertModelForm ==
  ASSUME NEW d, IsDatabase(d), NEW i \in Id, NEW m \in Model
  PROVE  LET e == InsertModel(d, i, m) IN
         /\ IsDatabase(e) /\ Written(d, e, i, m)
         /\ d.backend = "postgres" => e.members = d.members
<1>1. IsTable(d.models, Id, Model) /\ d.members \subseteq Id /\ d.backend \in Backend
  BY DatabaseForm
<1>2. CASE d.backend = "sqlite"
  <2> DEFINE gone == {j \in DOMAIN d.models :
                       j = i \/ (d.index = "unique" /\ d.models[j].variant = m.variant)}
             rest == Without(d.models, gone)
             t == With(rest, i, m)
             s == d.members \ gone
             e == [d EXCEPT !.models = t, !.members = s]
  <2>1. InsertModel(d, i, m) = e
    BY <1>2 DEF InsertModel, SqliteInsertModel
  <2>2. /\ DOMAIN rest = DOMAIN d.models \ gone
        /\ \A j \in DOMAIN d.models \ gone : rest[j] = d.models[j]
    BY WithoutForm
  <2>3. IsTable(rest, Id, Model)
    BY <1>1, WithoutTable
  <2>4. \A j \in DOMAIN d.models : j \in gone => j = i \/ d.models[j].variant = m.variant
    OBVIOUS
  <2> HIDE DEF rest, gone
  <2>5. DOMAIN t = DOMAIN rest \cup {i} /\ t[i] = m /\ \A j \in DOMAIN rest : j # i => t[j] = rest[j]
    BY DEF With
  <2>6. IsTable(t, Id, Model) /\ s \subseteq Id
    BY <1>1, <2>3, WithTable
  <2> HIDE DEF t, s
  <2>7. /\ e.models = t /\ e.backend = d.backend /\ e.index = d.index /\ BrandsSame(d, e)
        /\ IsDatabase(e)
    BY <2>6 DEF IsDatabase, BrandsSame
  <2> HIDE DEF e
  <2>8. Written(d, e, i, m)
    BY <2>2, <2>4, <2>5, <2>7 DEF Written
  <2> QED
    BY <1>2, <2>1, <2>7, <2>8
<1>3. CASE d.backend = "postgres"
  <2> DEFINE t == With(d.models, i, m)
             e == [d EXCEPT !.models = t]
  <2>1. InsertModel(d, i, m) = e
    BY <1>3 DEF InsertModel, PgInsertModel
  <2>2. DOMAIN t = DOMAIN d.models \cup {i} /\ t[i] = m /\ \A j \in DOMAIN d.models : j # i => t[j] = d.models[j]
    BY DEF With
  <2>3. IsTable(t, Id, Model)
    BY <1>1, WithTable
  <2> HIDE DEF t
  <2>4. /\ e.models = t /\ e.backend = d.backend /\ e.index = d.index /\ BrandsSame(d, e)
        /\ e.members = d.members /\ IsDatabase(e)
    BY <2>3 DEF IsDatabase, BrandsSame
  <2> HIDE DEF e
  <2>5. Written(d, e, i, m)
    BY <2>2, <2>4 DEF Written
  <2> QED
    BY <2>1, <2>4, <2>5
<1> QED
  BY <1>1, <1>2, <1>3 DEF Backend

(* or updated, if they are there. *)
LEMMA UpdateModelForm ==
  ASSUME NEW d, IsDatabase(d), NEW i, NEW m, i \in DOMAIN d.models => m \in Model
  PROVE  LET e == UpdateModel(d, i, m) IN
         /\ IsDatabase(e) /\ e.members = d.members
         /\ i \in DOMAIN d.models => Written(d, e, i, m)
         /\ i \notin DOMAIN d.models => e = d
<1>1. CASE i \in DOMAIN d.models
  <2> DEFINE t == [d.models EXCEPT ![i] = m]
             e == [d EXCEPT !.models = t]
  <2>1. UpdateModel(d, i, m) = e
    BY <1>1 DEF UpdateModel
  <2>2. IsTable(d.models, Id, Model)
    BY DatabaseForm
  <2>3. IsTable(t, Id, Model)
    BY <1>1, <2>2 DEF IsTable
  <2>4. DOMAIN t = DOMAIN d.models /\ t[i] = m /\ \A j \in DOMAIN d.models : j # i => t[j] = d.models[j]
    BY <1>1
  <2> HIDE DEF t
  <2>5. /\ e.models = t /\ e.backend = d.backend /\ e.index = d.index /\ BrandsSame(d, e)
        /\ e.members = d.members /\ IsDatabase(e)
    BY <2>3 DEF IsDatabase, BrandsSame
  <2> HIDE DEF e
  <2>6. Written(d, e, i, m)
    BY <1>1, <2>4, <2>5 DEF Written
  <2> QED
    BY <1>1, <2>1, <2>5, <2>6
<1>2. CASE i \notin DOMAIN d.models
  <2>1. UpdateModel(d, i, m) = d
    BY <1>2 DEF UpdateModel
  <2> QED
    BY <1>2, <2>1
<1> QED
  BY <1>1, <1>2
-----------------------------------------------------------------------------
(* Processes that have read the brands, and those that have read the rows. *)
Loading(o) == o.pc \in {"rows", "dir", "key", "models"}
Holding(o) == o.pc \in {"dir", "key", "models"}

(* What a process holds is of the variants it is said to be of. *)
OpFormed(p, o) ==
  /\ o.pc = "write" => p \in Sync /\ o.list \subseteq VariantsOf(ProviderOf[p])
  /\ Holding(o) => \A v \in DOMAIN o.stale : o.stale[v].id[1] = v /\ o.stale[v].row.variant = v
  /\ o.pc \in {"key", "models"} => o.todo \subseteq VariantsOf(Head(o.scope))
  /\ o.pc = "apply" => o.id[1] = o.on

Sound(p, o) == IsOp(o) /\ OpFormed(p, o)

(* What a load holds agrees with what an edit of v, or of b, has left. *)
Respects(o, v, left) ==
  /\ Holding(o) => /\ v \in InScope(o.scope) => v \in DOMAIN o.stale
                   /\ v \in DOMAIN o.stale => Keeps(o.stale[v].row, left)
  /\ Loading(o) /\ left.limit = "learned" => "limits" \notin o.flags
RespectsBrand(o, b, left) ==
  Loading(o) => b \in DOMAIN o.active /\ (left = 0 => o.active[b] = 0)

(* A load goes on without losing that. *)
Follows(o, n) ==
  /\ \A v \in Variant : \A left : Respects(o, v, left) => Respects(n, v, left)
  /\ \A b \in Brand : \A left : RespectsBrand(o, b, left) => RespectsBrand(n, b, left)

(* The first of the providers ahead, and those after it. *)
LEMMA ScopeForm ==
  ASSUME NEW s \in Scope
  PROVE  /\ Head(s) \in Brand /\ VariantsOf(Head(s)) \subseteq InScope(s)
         /\ InScope(s) \subseteq Variant
         /\ Tail(s) # <<>> => Tail(s) \in Scope /\ InScope(Tail(s)) \subseteq InScope(s)
<1>1. s \in Seq(Brand) /\ s # <<>>
  BY DEF Scope
<1>2. /\ Len(s) \in Nat /\ Len(s) > 0 /\ DOMAIN s = 1..Len(s)
      /\ Head(s) = s[1] /\ Head(s) \in Brand
  BY <1>1, EmptySeq, LenProperties, HeadTailProperties, ElementOfSeq
<1>3. VariantsOf(Head(s)) \subseteq InScope(s)
  BY <1>2 DEF InScope
<1>4. InScope(s) \subseteq Variant
  BY DEF InScope, VariantsOf
<1>5. ASSUME Tail(s) # <<>>
      PROVE  Tail(s) \in Scope /\ InScope(Tail(s)) \subseteq InScope(s)
  <2>1. /\ Tail(s) \in Seq(Brand) /\ Len(Tail(s)) = Len(s) - 1
        /\ \A n \in 1..Len(Tail(s)) : Tail(s)[n] = s[n + 1]
    BY <1>1, <1>2, HeadTailProperties
  <2>2. DOMAIN Tail(s) = 1..Len(Tail(s))
    BY <2>1, LenProperties
  <2>3. \A n \in DOMAIN Tail(s) : n + 1 \in DOMAIN s /\ Tail(s)[n] = s[n + 1]
    BY <1>2, <2>1, <2>2
  <2> QED
    BY <1>5, <2>1, <2>3 DEF Scope, InScope
<1> QED
  BY <1>2, <1>3, <1>4, <1>5

(* The fields a load has at its stages. *)
LEMMA LoadForm ==
  ASSUME NEW o, IsOp(o)
  PROVE  /\ Loading(o) \/ o.pc = "brands" => o.flags \in Flags /\ o.scope \in Scope
         /\ Loading(o) => IsTable(o.active, Brand, Switch)
         /\ Holding(o) => IsTable(o.stale, Variant, [id : Id, row : Model])
         /\ o.pc \in {"key", "models"} => o.seen \subseteq Variant /\ o.todo \subseteq Variant
<1>1. CASE o.pc = "brands"
  BY <1>1 DEF IsOp, Loading, Holding
<1>2. CASE o.pc = "rows"
  BY <1>2 DEF IsOp, Loading, Holding
<1>3. CASE o.pc = "dir"
  BY <1>3 DEF IsOp, Loading, Holding
<1>4. CASE o.pc \in {"key", "models"}
  BY <1>4 DEF IsOp, Loading, Holding
<1> QED
  BY <1>1, <1>2, <1>3, <1>4 DEF Loading, Holding

(* A process that holds nothing is sound and respects every edit. *)
LEMMA BareSound ==
  ASSUME NEW p, NEW s \in {"idle", "open", "reindex", "find"}
  PROVE  Sound(p, [pc |-> s]) /\ \A o : Follows(o, [pc |-> s])
BY DEF Sound, IsOp, OpFormed, Loading, Holding, Follows, Respects, RespectsBrand, PC

(* So does one that has ended. *)
LEMMA IdleSound ==
  ASSUME NEW p
  PROVE  Sound(p, Idle) /\ \A o : Follows(o, Idle)
BY BareSound DEF Idle

(* On to the next provider. *)
LEMMA NextDirSound ==
  ASSUME NEW p, NEW o, Sound(p, o), Holding(o)
  PROVE  Sound(p, NextDir(o)) /\ Follows(o, NextDir(o))
<1>1. CASE Tail(o.scope) = <<>>
  BY <1>1, IdleSound DEF NextDir
<1>2. CASE Tail(o.scope) # <<>>
  <2> DEFINE s == Tail(o.scope)
             t == Restrict(o.stale, DOMAIN o.stale \cap InScope(s))
             n == [pc |-> "dir", flags |-> o.flags, scope |-> s, active |-> o.active, stale |-> t]
  <2>1. NextDir(o) = n
    BY <1>2 DEF NextDir
  <2>2. /\ o.flags \in Flags /\ o.scope \in Scope /\ IsTable(o.active, Brand, Switch)
        /\ IsTable(o.stale, Variant, [id : Id, row : Model])
    BY LoadForm DEF Sound, Holding, Loading
  <2>3. s \in Scope /\ InScope(s) \subseteq InScope(o.scope)
    BY <1>2, <2>2, ScopeForm
  <2>4. IsTable(t, Variant, [id : Id, row : Model])
    BY <2>2, RestrictTable
  <2>5. DOMAIN t = DOMAIN o.stale \cap InScope(s) /\ \A v \in DOMAIN t : t[v] = o.stale[v]
    BY DEF Restrict
  <2>6. \A v \in DOMAIN o.stale : o.stale[v].id[1] = v /\ o.stale[v].row.variant = v
    BY DEF Sound, OpFormed
  <2>7. Loading(o)
    BY DEF Loading, Holding
  <2> HIDE DEF s, t
  <2>8. n.pc = "dir" /\ n.flags = o.flags /\ n.scope = s /\ n.active = o.active /\ n.stale = t
    OBVIOUS
  <2>9. IsOp(n)
    BY <2>2, <2>3, <2>4 DEF IsOp, PC
  <2> HIDE DEF n
  <2>10. OpFormed(p, n)
    BY <2>5, <2>6, <2>8 DEF OpFormed
  <2>11. Follows(o, n)
    <3>1. ASSUME NEW v \in Variant, NEW left, Respects(o, v, left)
          PROVE  Respects(n, v, left)
      BY <2>3, <2>5, <2>7, <2>8, <3>1 DEF Respects
    <3>2. ASSUME NEW b \in Brand, NEW left, RespectsBrand(o, b, left)
          PROVE  RespectsBrand(n, b, left)
      BY <2>7, <2>8, <3>2 DEF RespectsBrand
    <3> QED
      BY <3>1, <3>2 DEF Follows
  <2> QED
    BY <2>1, <2>9, <2>10, <2>11 DEF Sound
<1> QED
  BY <1>1, <1>2

(* With the same provider, or on to the next. *)
LEMMA OnwardSound ==
  ASSUME NEW p, NEW o, Sound(p, o), Holding(o)
  PROVE  Sound(p, Onward(o)) /\ Follows(o, Onward(o))
<1>1. Onward(o) \in {o, NextDir(o)}
  BY DEF Onward
<1>2. Follows(o, o)
  BY DEF Follows
<1> QED
  BY <1>1, <1>2, NextDirSound
-----------------------------------------------------------------------------
(* Files list a brand's own variants, and an id is of its row's variant. *)
Filed == \A b \in DOMAIN file : file[b] \subseteq VariantsOf(b)
Owned == \A i \in DOMAIN db.models : db.models[i].variant = i[1]

(* The row and the brand of a settled edit as it left them; nobody about to  *)
(* write holds anything else.                                                *)
RowKept(v) ==
  RowsOf(db, v) # {} /\ \A i \in RowsOf(db, v) : Keeps(db.models[i], settled[v])
BrandKept(b) == Known(db, b) /\ (settled_active[b] = 0 => db.active[b] = 0)

SafeRows ==
  \A v \in DOMAIN settled : RowKept(v) /\ \A p \in Process : Respects(op[p], v, settled[v])
SafeBrands ==
  \A b \in DOMAIN settled_active :
    BrandKept(b) /\ \A p \in Process : RespectsBrand(op[p], b, settled_active[b])

(* On PostgreSQL the index stands, and a variant has one row. *)
OneRowInPg == db.backend = "postgres" => db.index = "unique" /\ Unique(db)

(* Who is about to write a brand has found it. *)
OnKnown(p) == op[p].pc = "apply_brand" => Known(db, op[p].on)

Formed == Filed /\ Owned /\ \A p \in Process : OpFormed(p, op[p]) /\ OnKnown(p)
Safe == SafeRows /\ SafeBrands
Inv == TypeOK /\ Formed /\ Safe /\ OneRowInPg

(* What a step of p does to the processes. *)
Goes(p) ==
  /\ DOMAIN op' = Process /\ Sound(p, op'[p])
  /\ \A q \in Process : q # p => op'[q] = op[q]

(* A step that makes p come to do o. *)
LEMMA BecomeGoes ==
  ASSUME TypeOK, NEW p \in Process, NEW o, Sound(p, o), Become(p, o)
  PROVE  Goes(p) /\ op'[p] = o
BY DEF TypeOK, Become, Goes

(* What the invariant says of one process. *)
LEMMA OpSound ==
  ASSUME Inv, NEW p \in Process
  PROVE  Sound(p, op[p])
BY DEF Inv, TypeOK, Formed, Sound

(* Types and forms after a step, from what it may change. *)
LEMMA FormedStep ==
  ASSUME Inv, NEW p \in Process, Goes(p), IsDatabase(db'), Owned',
         DOMAIN db.active \subseteq DOMAIN db'.active,
         offered' \subseteq Variant, IsTable(file, Brand, SUBSET Variant)', Filed',
         IsTable(settled, Variant, Model)', IsTable(settled_active, Brand, Switch)',
         op'[p].pc = "apply_brand" => Known(db', op'[p].on)
  PROVE  TypeOK' /\ Formed'
<1>1. TypeOK'
  <2>1. \A q \in Process : IsOp(op'[q])
    BY DEF Inv, TypeOK, Goes, Sound
  <2> QED
    BY <2>1 DEF TypeOK, Goes, IsTable
<1>2. \A q \in Process : OpFormed(q, op'[q])
  BY DEF Inv, Formed, Goes, Sound
<1>3. ASSUME NEW q \in Process
      PROVE  OnKnown(q)'
  <2>1. CASE q = p
    BY <2>1 DEF OnKnown
  <2>2. CASE q # p
    <3>1. op'[q] = op[q] /\ OnKnown(q)
      BY <2>2 DEF Goes, Inv, Formed
    <3> QED
      BY <3>1 DEF OnKnown, Known
  <2> QED
    BY <2>1, <2>2
<1> QED
  BY <1>1, <1>2, <1>3 DEF Formed

(* What a process holds agrees with every settled edit. *)
Respectful(o) ==
  /\ \A v \in DOMAIN settled : Respects(o, v, settled[v])
  /\ \A b \in DOMAIN settled_active : RespectsBrand(o, b, settled_active[b])

(* A load that goes on without losing that agrees still. *)
LEMMA FollowsRespects ==
  ASSUME Inv, NEW p \in Process, NEW o, Follows(op[p], o)
  PROVE  Respectful(o)
<1>1. DOMAIN settled \subseteq Variant /\ DOMAIN settled_active \subseteq Brand
  BY DEF Inv, TypeOK, IsTable
<1> QED
  BY <1>1 DEF Inv, Safe, SafeRows, SafeBrands, Respectful, Follows

(* Edits stay settled when a load goes on, if rows and brands are kept. *)
LEMMA SafeStep ==
  ASSUME Inv, NEW p \in Process, Goes(p), Respectful(op'[p]), history' = history,
         \A v \in DOMAIN settled : RowKept(v)',
         \A b \in DOMAIN settled_active : BrandKept(b)'
  PROVE  Safe'
<1>1. settled' = settled /\ settled_active' = settled_active
  BY DEF history
<1>2. /\ \A v \in DOMAIN settled : Respects(op'[p], v, settled[v])
      /\ \A b \in DOMAIN settled_active : RespectsBrand(op'[p], b, settled_active[b])
  BY DEF Respectful
<1>3. ASSUME NEW v \in DOMAIN settled, NEW q \in Process
      PROVE  Respects(op'[q], v, settled[v])
  <2>1. Respects(op[q], v, settled[v])
    BY DEF Inv, Safe, SafeRows
  <2> QED
    BY <1>2, <2>1 DEF Goes
<1>4. ASSUME NEW b \in DOMAIN settled_active, NEW q \in Process
      PROVE  RespectsBrand(op'[q], b, settled_active[b])
  <2>1. RespectsBrand(op[q], b, settled_active[b])
    BY DEF Inv, Safe, SafeBrands
  <2> QED
    BY <1>2, <2>1 DEF Goes
<1>5. SafeRows'
  BY <1>1, <1>3 DEF SafeRows
<1>6. SafeBrands'
  BY <1>1, <1>4 DEF SafeBrands
<1> QED
  BY <1>5, <1>6 DEF Safe

(* Rows that a call leaves alone are kept. *)
LEMMA RowsSameKept ==
  ASSUME Inv, settled' = settled, db'.models = db.models
  PROVE  Owned' /\ \A v \in DOMAIN settled : RowKept(v)'
<1>1. Owned'
  BY DEF Inv, Formed, Owned
<1>2. \A v \in DOMAIN settled : RowKept(v)
  BY DEF Inv, Safe, SafeRows
<1>3. \A v \in DOMAIN settled : RowKept(v)'
  BY <1>2 DEF RowKept, RowsOf
<1> QED
  BY <1>1, <1>3

(* Brands that a call leaves alone are kept. *)
LEMMA BrandsSameKept ==
  ASSUME Inv, settled_active' = settled_active, db'.active = db.active
  PROVE  \A b \in DOMAIN settled_active : BrandKept(b)'
BY DEF Inv, Safe, SafeBrands, BrandKept, Known

(* A row may be written if it keeps what is settled of its variant. *)
LEMMA WrittenKept ==
  ASSUME Inv, settled' = settled, NEW i \in Id, NEW m \in Model, m.variant = i[1],
         Written(db, db', i, m),
         m.variant \in DOMAIN settled => Keeps(m, settled[m.variant])
  PROVE  Owned' /\ \A v \in DOMAIN settled : RowKept(v)'
<1> DEFINE e == db'
<1>1. Written(db, e, i, m)
  OBVIOUS
<1> HIDE DEF e
<1>2. Owned
  BY DEF Inv, Formed
<1>3. \A j \in DOMAIN e.models : e.models[j].variant = j[1]
  BY <1>1, <1>2 DEF Written, Owned
<1>4. ASSUME NEW v \in DOMAIN settled
      PROVE  /\ RowsOf(e, v) # {}
             /\ \A j \in RowsOf(e, v) : Keeps(e.models[j], settled[v])
  <2>1. RowKept(v)
    BY DEF Inv, Safe, SafeRows
  <2>2. CASE v = m.variant
    <3>1. i \in RowsOf(e, v)
      BY <1>1, <2>2 DEF Written, RowsOf
    <3>2. ASSUME NEW j \in RowsOf(e, v)
          PROVE  Keeps(e.models[j], settled[v])
      <4>1. CASE j = i
        BY <1>1, <2>2, <4>1 DEF Written
      <4>2. CASE j # i
        <5>1. j \in RowsOf(db, v) /\ e.models[j] = db.models[j]
          BY <1>1, <4>2 DEF Written, RowsOf
        <5> QED
          BY <2>1, <5>1 DEF RowKept
      <4> QED
        BY <4>1, <4>2
    <3> QED
      BY <3>1, <3>2
  <2>3. CASE v # m.variant
    <3>1. \A j \in RowsOf(db, v) : j # i
      BY <1>2, <2>3 DEF Owned, RowsOf
    <3>2. \A j \in RowsOf(e, v) : j # i
      BY <1>1, <2>3 DEF Written, RowsOf
    <3>3. \A j \in RowsOf(e, v) : j \in RowsOf(db, v) /\ e.models[j] = db.models[j]
      BY <1>1, <3>2 DEF Written, RowsOf
    <3>4. \A j \in RowsOf(db, v) : j \in RowsOf(e, v)
      <4>1. \A j \in RowsOf(db, v) : j \in DOMAIN e.models
        BY <1>1, <2>3 DEF Written, RowsOf
      <4> QED
        BY <1>1, <3>1, <4>1 DEF Written, RowsOf
    <3> QED
      BY <2>1, <3>3, <3>4 DEF RowKept
  <2> QED
    BY <2>2, <2>3
<1>5. Owned'
  BY <1>3 DEF Owned, e
<1>6. \A v \in DOMAIN settled : RowKept(v)'
  BY <1>4 DEF RowKept, e
<1> QED
  BY <1>5, <1>6
-----------------------------------------------------------------------------
(* On PostgreSQL a row may be written that is the only one of its variant. *)
Sole(d, i, m) == \A j \in DOMAIN d.models : d.models[j].variant = m.variant => j = i

(* With such a row the database can be opened as before. *)
LEMMA OpensStill ==
  ASSUME OneRowInPg, NEW i, NEW m, Written(db, db', i, m),
         db.backend = "postgres" => Sole(db, i, m)
  PROVE  OneRowInPg'
<1>1. ASSUME db'.backend = "postgres", NEW j \in DOMAIN db'.models, NEW k \in DOMAIN db'.models,
             db'.models[j].variant = db'.models[k].variant
      PROVE  j = k
  <2>1. Sole(db, i, m) /\ Unique(db)
    BY <1>1 DEF OneRowInPg, Written
  <2>2. CASE j = i \/ k = i
    BY <1>1, <2>1, <2>2 DEF Written, Sole
  <2>3. CASE j # i /\ k # i
    BY <1>1, <2>1, <2>3 DEF Written, Unique
  <2> QED
    BY <2>2, <2>3
<1>2. db'.backend = "postgres" => db'.index = "unique"
  BY DEF OneRowInPg, Written
<1> QED
  BY <1>1, <1>2 DEF OneRowInPg, Unique

(* What every step keeps: files that list a brand's own variants. *)
Files == offered' \subseteq Variant /\ IsTable(file, Brand, SUBSET Variant)' /\ Filed'

(* A step that changes no row, if the database can still be opened. *)
LEMMA ModelsStay ==
  ASSUME Inv, NEW p \in Process, Goes(p), Respectful(op'[p]), history' = history, Files,
         IsDatabase(db'), db'.models = db.models, OneRowInPg',
         DOMAIN db.active \subseteq DOMAIN db'.active,
         \A b \in DOMAIN settled_active : BrandKept(b)',
         op'[p].pc = "apply_brand" => Known(db', op'[p].on)
  PROVE  Inv'
<1>1. settled' = settled /\ settled_active' = settled_active
  BY DEF history
<1>2. Owned' /\ \A v \in DOMAIN settled : RowKept(v)'
  BY <1>1, RowsSameKept
<1>3. Safe'
  BY <1>2, SafeStep
<1>4. IsTable(settled, Variant, Model)' /\ IsTable(settled_active, Brand, Switch)'
  BY <1>1 DEF Inv, TypeOK, IsTable
<1>5. TypeOK' /\ Formed'
  BY <1>2, <1>4, FormedStep DEF Files
<1> QED
  BY <1>3, <1>5 DEF Inv

(* It can, if it is the brands or keys that change. *)
LEMMA RowsStay ==
  ASSUME Inv, NEW p \in Process, Goes(p), Respectful(op'[p]), history' = history, Files,
         IsDatabase(db'), RowsSame(db, db'), DOMAIN db.active \subseteq DOMAIN db'.active,
         \A b \in DOMAIN settled_active : BrandKept(b)',
         op'[p].pc = "apply_brand" => Known(db', op'[p].on)
  PROVE  Inv'
<1>1. OneRowInPg'
  BY DEF Inv, OneRowInPg, Unique, RowsSame
<1> QED
  BY <1>1, ModelsStay DEF RowsSame

(* A step that leaves the database and the edits alone. *)
LEMMA Rests ==
  ASSUME Inv, NEW p \in Process, Goes(p), Respectful(op'[p]), Files, db' = db, history' = history,
         op'[p].pc = "apply_brand" => Known(db, op'[p].on)
  PROVE  Inv'
<1>1. settled' = settled /\ settled_active' = settled_active
  BY DEF history
<1>2. \A b \in DOMAIN settled_active : BrandKept(b)'
  BY <1>1, BrandsSameKept
<1>3. IsDatabase(db') /\ RowsSame(db, db')
  BY DEF Inv, TypeOK, RowsSame
<1> QED
  BY <1>2, <1>3, RowsStay

(* A step of a load that writes a row. *)
LEMMA RowStep ==
  ASSUME Inv, NEW p \in Process, Goes(p), Respectful(op'[p]), history' = history, Files,
         NEW i \in Id, NEW m \in Model, m.variant = i[1],
         IsDatabase(db'), Written(db, db', i, m),
         m.variant \in DOMAIN settled => Keeps(m, settled[m.variant]),
         db.backend = "postgres" => Sole(db, i, m),
         op'[p].pc # "apply_brand"
  PROVE  Inv'
<1>1. settled' = settled /\ settled_active' = settled_active
  BY DEF history
<1>2. Owned' /\ \A v \in DOMAIN settled : RowKept(v)'
  BY <1>1, WrittenKept
<1>3. \A b \in DOMAIN settled_active : BrandKept(b)'
  BY <1>1, BrandsSameKept DEF Written, BrandsSame
<1>4. Safe'
  BY <1>2, <1>3, SafeStep
<1>5. OneRowInPg'
  BY OpensStill DEF Inv
<1>6. IsTable(settled, Variant, Model)' /\ IsTable(settled_active, Brand, Switch)'
  BY <1>1 DEF Inv, TypeOK, IsTable
<1>7. DOMAIN db.active \subseteq DOMAIN db'.active
  BY DEF Written, BrandsSame
<1>8. TypeOK' /\ Formed'
  BY <1>2, <1>6, <1>7, FormedStep DEF Files
<1> QED
  BY <1>4, <1>5, <1>8 DEF Inv

(* Files that are not written stay. *)
LEMMA FilesStay ==
  ASSUME Inv, offered' = offered, file' = file
  PROVE  Files
BY DEF Inv, TypeOK, Formed, Filed, Files, IsTable
-----------------------------------------------------------------------------
(* A row with one column changed. *)
LEMMA RowForm ==
  ASSUME NEW m \in Model
  PROVE  /\ \A x \in Switch : LET n == [m EXCEPT !.enabled = x] IN
              /\ n \in Model /\ n.variant = m.variant /\ n.enabled = x
              /\ n.cap = m.cap /\ n.limit = m.limit
         /\ \A c \in Nat \cup {NoCap} : LET n == [m EXCEPT !.cap = c] IN
              n \in Model /\ n.variant = m.variant
         /\ \A l \in {"file", "learned"} : LET n == [m EXCEPT !.limit = l] IN
              /\ n \in Model /\ n.variant = m.variant /\ n.limit = l
              /\ n.cap = m.cap /\ n.enabled = m.enabled
BY DEF Model

(* The row of a new model. *)
LEMMA NewForm ==
  ASSUME NEW v \in Variant
  PROVE  New(v) \in Model /\ New(v).variant = v
BY DEF New, Model, Switch

(* What a file says of a row leaves its switch and cap, and a learned limit  *)
(* unless the load updates limits.                                           *)
LEMMA RefreshedForm ==
  ASSUME NEW m \in Model, NEW flags
  PROVE  /\ Refreshed(m, flags) \in Model /\ Refreshed(m, flags).variant = m.variant
         /\ \A left : Keeps(m, left) /\ (left.limit = "learned" => "limits" \notin flags)
                        => Keeps(Refreshed(m, flags), left)
<1> DEFINE l == IF "limits" \in flags THEN "file" ELSE m.limit
           n == [m EXCEPT !.limit = l]
<1>1. Refreshed(m, flags) = n
  BY DEF Refreshed
<1>2. l \in {"file", "learned"} /\ ("limits" \notin flags => l = m.limit)
  BY DEF Model
<1> HIDE DEF l
<1>3. n \in Model /\ n.variant = m.variant /\ n.limit = l /\ n.cap = m.cap /\ n.enabled = m.enabled
  BY <1>2, RowForm
<1> HIDE DEF n
<1> QED
  BY <1>1, <1>2, <1>3 DEF Keeps

(* The switch of a row that is there is set; there is no other effect. *)
LEMMA EnabledForm ==
  ASSUME NEW d, IsDatabase(d), NEW i, NEW x \in Switch
  PROVE  LET e == SetModelEnabled(d, i, x)
             m == [d.models[i] EXCEPT !.enabled = x]
         IN /\ IsDatabase(e) /\ e.members = d.members
            /\ i \in DOMAIN d.models => m \in Model /\ Written(d, e, i, m)
            /\ i \notin DOMAIN d.models => e = d
<1> DEFINE m == [d.models[i] EXCEPT !.enabled = x]
<1>1. i \in DOMAIN d.models => m \in Model
  <2>1. IsTable(d.models, Id, Model)
    BY DatabaseForm
  <2>2. i \in DOMAIN d.models => d.models[i] \in Model
    BY <2>1, TableRow
  <2> QED
    BY <2>2, RowForm
<1>2. SetModelEnabled(d, i, x) = UpdateModel(d, i, m)
  BY DEF SetModelEnabled
<1> HIDE DEF m
<1>3. /\ IsDatabase(UpdateModel(d, i, m)) /\ UpdateModel(d, i, m).members = d.members
      /\ i \in DOMAIN d.models => Written(d, UpdateModel(d, i, m), i, m)
      /\ i \notin DOMAIN d.models => UpdateModel(d, i, m) = d
  BY <1>1, UpdateModelForm
<1> QED
  BY <1>1, <1>2, <1>3 DEF m

(* The rows of a variant, and that there is one only. *)
LEMMA RowAt ==
  ASSUME Inv, NEW i \in DOMAIN db.models
  PROVE  /\ i \in Id /\ db.models[i] \in Model /\ db.models[i].variant = i[1]
         /\ i \in RowsOf(db, i[1])
         /\ db.backend = "postgres" =>
              \A m : m.variant = db.models[i].variant => Sole(db, i, m)
BY DatabaseForm, TableRow DEF Inv, TypeOK, Formed, Owned, RowsOf, OneRowInPg, Unique, Sole

(* What PostgreSQL does not refuse is the only row of its variant. *)
LEMMA RefusesUnlessSole ==
  ASSUME OneRowInPg, NEW i, NEW m, ~RefusesModel(db, i, m), db.backend = "postgres"
  PROVE  Sole(db, i, m)
BY DEF OneRowInPg, RefusesModel, PgRefusesModel, RowsOf, Sole
-----------------------------------------------------------------------------
(* The steps of a load. *)
LEMMA EnterDirStep ==
  ASSUME Inv, NEW p \in Process, EnterDir(p)
  PROVE  Inv'
<1> DEFINE o == op[p]
           b == Head(o.scope)
<1>1. o.pc = "dir" /\ Holding(o) /\ Loading(o) /\ Sound(p, o)
  BY OpSound DEF EnterDir, Holding, Loading
<1>2. /\ o.flags \in Flags /\ o.scope \in Scope /\ IsTable(o.active, Brand, Switch)
      /\ IsTable(o.stale, Variant, [id : Id, row : Model])
  BY <1>1, LoadForm DEF Sound
<1>3. b \in Brand /\ VariantsOf(b) \subseteq Variant
  BY <1>2, ScopeForm DEF VariantsOf
<1>4. Files /\ history' = history /\ settled_active' = settled_active
  BY FilesStay DEF EnterDir, history
<1>5. ASSUME NEW pc \in {"key", "models"}, b \in DOMAIN file
      PROVE  /\ Sound(p, InDir(o, pc)) /\ Holding(InDir(o, pc)) /\ InDir(o, pc).pc = pc
             /\ Follows(o, InDir(o, pc))
  <2> DEFINE list == file[b]
             n == [pc |-> pc, flags |-> o.flags, scope |-> o.scope, active |-> o.active,
                   stale |-> o.stale, seen |-> list, todo |-> list]
  <2>1. InDir(o, pc) = n
    BY DEF InDir
  <2>2. list \subseteq VariantsOf(b) /\ list \subseteq Variant
    BY <1>3, <1>5 DEF Inv, Formed, Filed
  <2>3. \A v \in DOMAIN o.stale : o.stale[v].id[1] = v /\ o.stale[v].row.variant = v
    BY <1>1 DEF Sound, OpFormed
  <2> HIDE DEF list
  <2>4. /\ n.pc = pc /\ n.flags = o.flags /\ n.scope = o.scope /\ n.active = o.active
        /\ n.stale = o.stale /\ n.todo = list
    OBVIOUS
  <2>5. IsOp(n)
    BY <1>2, <2>2 DEF IsOp, PC
  <2> HIDE DEF n
  <2>6. OpFormed(p, n)
    BY <2>2, <2>3, <2>4 DEF OpFormed
  <2>7. Follows(o, n)
    BY <1>1, <2>4 DEF Follows, Respects, RespectsBrand, Loading, Holding
  <2> QED
    BY <2>1, <2>4, <2>5, <2>6, <2>7 DEF Sound, Holding
<1>6. CASE b \notin DOMAIN file /\ Become(p, NextDir(o)) /\ UNCHANGED db
  <2>1. Sound(p, NextDir(o)) /\ Follows(o, NextDir(o)) /\ NextDir(o).pc # "apply_brand"
    BY <1>1, NextDirSound DEF NextDir, Idle
  <2>2. Goes(p) /\ op'[p] = NextDir(o)
    BY <1>6, <2>1, BecomeGoes DEF Inv
  <2>3. Respectful(op'[p])
    BY <2>1, <2>2, FollowsRespects
  <2> QED
    BY <1>4, <1>6, <2>1, <2>2, <2>3, Rests
<1>7. ASSUME NEW a \in Switch, NEW n, Become(p, n), Sound(p, n), Follows(o, n),
             n.pc # "apply_brand", db' = InsertBrand(db, b, a),
             b \in DOMAIN settled_active /\ settled_active[b] = 0 => a = 0
      PROVE  Inv'
  <2>1. /\ IsDatabase(db') /\ RowsSame(db, db') /\ DOMAIN db'.active = DOMAIN db.active \cup {b}
        /\ db'.active[b] = a
        /\ \A c \in DOMAIN db.active : c # b => db'.active[c] = db.active[c]
    BY <1>3, <1>7, InsertBrandForm DEF Inv, TypeOK
  <2>2. ASSUME NEW c \in DOMAIN settled_active
        PROVE  BrandKept(c)'
    <3>1. BrandKept(c)
      BY DEF Inv, Safe, SafeBrands
    <3> QED
      BY <1>4, <1>7, <2>1, <3>1 DEF BrandKept, Known
  <2>3. Goes(p) /\ op'[p] = n
    BY <1>7, BecomeGoes DEF Inv
  <2>4. Respectful(op'[p])
    BY <1>7, <2>3, FollowsRespects
  <2> QED
    BY <1>4, <1>7, <2>1, <2>2, <2>3, <2>4, RowsStay
<1>8. b \in DOMAIN settled_active => RespectsBrand(o, b, settled_active[b])
  BY DEF Inv, Safe, SafeBrands
<1>9. CASE /\ b \in DOMAIN file /\ b \in DOMAIN o.active
           /\ db' = InsertBrand(db, b, o.active[b])
           /\ Become(p, Onward(InDir(o, "models")))
  <2> DEFINE n == Onward(InDir(o, "models"))
  <2>1. Sound(p, n) /\ Follows(InDir(o, "models"), n) /\ Follows(o, InDir(o, "models"))
    BY <1>5, <1>9, OnwardSound
  <2>2. Follows(o, n)
    BY <2>1 DEF Follows
  <2>3. n.pc # "apply_brand"
    BY <1>5, <1>9 DEF Onward, NextDir, Idle
  <2>4. o.active[b] \in Switch
    BY <1>2, <1>9, TableRow
  <2>5. b \in DOMAIN settled_active /\ settled_active[b] = 0 => o.active[b] = 0
    BY <1>1, <1>8 DEF RespectsBrand
  <2> HIDE DEF n
  <2>6. Become(p, n) /\ db' = InsertBrand(db, b, o.active[b])
    BY <1>9 DEF n
  <2> QED
    BY <1>7, <2>1, <2>2, <2>3, <2>4, <2>5, <2>6
<1>10. CASE /\ b \in DOMAIN file /\ b \notin DOMAIN o.active
            /\ db' = InsertBrand(db, b, 1)
            /\ Become(p, IF Known(db, b) THEN Idle ELSE InDir(o, "key"))
  <2> DEFINE n == IF Known(db, b) THEN Idle ELSE InDir(o, "key")
  <2>1. Sound(p, n) /\ Follows(o, n) /\ n.pc # "apply_brand"
    BY <1>5, <1>10, IdleSound DEF Idle
  <2>2. b \notin DOMAIN settled_active
    BY <1>1, <1>8, <1>10 DEF RespectsBrand
  <2> HIDE DEF n
  <2>3. Become(p, n) /\ db' = InsertBrand(db, b, 1) /\ 1 \in Switch
    BY <1>10 DEF n, Switch
  <2> QED
    BY <1>7, <2>1, <2>2, <2>3
<1> QED
  BY <1>6, <1>9, <1>10 DEF EnterDir

(* The key follows the brand that was inserted for it. *)
LEMMA AddKeyStep ==
  ASSUME Inv, NEW p \in Process, AddKey(p)
  PROVE  Inv'
<1> DEFINE o == op[p]
           k == [o EXCEPT !.pc = "models"]
           n == Onward(k)
<1>1. o.pc = "key" /\ Holding(o) /\ Loading(o) /\ Sound(p, o)
  BY OpSound DEF AddKey, Holding, Loading
<1>2. Head(o.scope) \in Brand
  BY <1>1, LoadForm, ScopeForm DEF Sound
<1>3. /\ IsOp(k) /\ k.pc = "models" /\ k.flags = o.flags /\ k.scope = o.scope
      /\ k.active = o.active /\ k.stale = o.stale /\ k.todo = o.todo
  BY <1>1 DEF Sound, IsOp, PC
<1> HIDE DEF k
<1>4. Sound(p, k) /\ Holding(k) /\ Follows(o, k)
  BY <1>1, <1>3 DEF Sound, OpFormed, Holding, Loading, Follows, Respects, RespectsBrand
<1>5. Sound(p, n) /\ Follows(k, n)
  BY <1>4, OnwardSound
<1>6. Follows(o, n) /\ n.pc # "apply_brand"
  BY <1>3, <1>4, <1>5 DEF Follows, Onward, NextDir, Idle
<1> HIDE DEF n
<1>7. Become(p, n) /\ db' = InsertKey(db, Head(o.scope))
  BY DEF AddKey, n, k
<1>8. Goes(p) /\ op'[p] = n
  BY <1>5, <1>7, BecomeGoes DEF Inv
<1>9. Respectful(op'[p])
  BY <1>6, <1>8, FollowsRespects
<1>10. IsDatabase(db') /\ RowsSame(db, db') /\ db'.active = db.active
  BY <1>2, <1>7, InsertKeyForm DEF Inv, TypeOK
<1>11. Files /\ history' = history /\ settled_active' = settled_active
  BY FilesStay DEF AddKey, history
<1>12. \A b \in DOMAIN settled_active : BrandKept(b)'
  BY <1>10, <1>11, BrandsSameKept
<1> QED
  BY <1>6, <1>8, <1>9, <1>10, <1>11, <1>12, RowsStay

(* A sync's load begins by taking back the learned limits that are settled. *)
LEMMA LoadBrandsStep ==
  ASSUME Inv, NEW p \in Process, LoadBrands(p)
  PROVE  Inv'
<1> DEFINE o == op[p]
           n == [pc |-> "rows", flags |-> o.flags, scope |-> o.scope, active |-> db.active]
<1>1. o.pc = "brands" /\ Sound(p, o) /\ o.flags \in Flags /\ o.scope \in Scope
  BY OpSound, LoadForm DEF LoadBrands, Sound
<1>2. IsTable(db.active, Brand, Switch)
  BY DatabaseForm DEF Inv, TypeOK
<1>3. IsOp(n) /\ n.pc = "rows" /\ n.flags = o.flags /\ n.scope = o.scope /\ n.active = db.active
  BY <1>1, <1>2 DEF IsOp, PC
<1> HIDE DEF n
<1>4. Sound(p, n)
  BY <1>3 DEF Sound, OpFormed, Holding
<1>5. Become(p, n) /\ UNCHANGED <<db, offered, file, disturbances, settled_active>>
  BY DEF LoadBrands, n
<1>6. Goes(p) /\ op'[p] = n
  BY <1>4, <1>5, BecomeGoes DEF Inv
<1>7. /\ DOMAIN settled' = DOMAIN settled
      /\ \A v \in DOMAIN settled :
           /\ settled'[v] \in Model
           /\ settled'[v].cap = settled[v].cap /\ settled'[v].enabled = settled[v].enabled
           /\ settled'[v].limit = "learned" =>
                settled[v].limit = "learned" /\ "limits" \notin o.flags
  <2>1. settled' = [v \in DOMAIN settled |-> IF "limits" \in o.flags
                                             THEN [settled[v] EXCEPT !.limit = "file"]
                                             ELSE settled[v]]
    BY DEF LoadBrands, ForgetLimits
  <2>2. \A v \in DOMAIN settled : settled[v] \in Model
    BY DEF Inv, TypeOK, IsTable
  <2>3. ASSUME NEW m \in Model
        PROVE  LET k == [m EXCEPT !.limit = "file"] IN
               k \in Model /\ k.limit = "file" /\ k.cap = m.cap /\ k.enabled = m.enabled
    BY RowForm
  <2>4. ASSUME NEW v \in DOMAIN settled, "limits" \in o.flags
        PROVE  /\ settled'[v] \in Model /\ settled'[v].limit = "file"
               /\ settled'[v].cap = settled[v].cap /\ settled'[v].enabled = settled[v].enabled
    <3>1. settled'[v] = [settled[v] EXCEPT !.limit = "file"]
      BY <2>1, <2>4
    <3> QED
      BY <2>2, <2>3, <3>1
  <2>5. ASSUME NEW v \in DOMAIN settled, "limits" \notin o.flags
        PROVE  settled'[v] = settled[v]
    BY <2>1, <2>5
  <2> QED
    BY <2>1, <2>2, <2>4, <2>5
<1>8. ASSUME NEW v \in DOMAIN settled
      PROVE  /\ \A q \in Process : Respects(op[q], v, settled'[v])
             /\ Respects(n, v, settled'[v])
             /\ RowKept(v)'
  <2>1. RowKept(v) /\ \A q \in Process : Respects(op[q], v, settled[v])
    BY DEF Inv, Safe, SafeRows
  <2>2. \A m : Keeps(m, settled[v]) => Keeps(m, settled'[v])
    BY <1>7 DEF Keeps
  <2>3. \A q \in Process : Respects(op[q], v, settled'[v])
    BY <1>7, <2>1, <2>2 DEF Respects
  <2>4. Respects(n, v, settled'[v])
    BY <1>3, <1>7 DEF Respects, Holding
  <2>5. RowKept(v)'
    BY <1>5, <2>1, <2>2 DEF RowKept, RowsOf
  <2> QED
    BY <2>3, <2>4, <2>5
<1>9. SafeRows'
  <2>1. ASSUME NEW v \in DOMAIN settled, NEW q \in Process
        PROVE  Respects(op'[q], v, settled'[v])
    BY <1>6, <1>8 DEF Goes
  <2> QED
    BY <1>7, <1>8, <2>1 DEF SafeRows
<1>10. SafeBrands'
  <2>1. ASSUME NEW b \in DOMAIN settled_active
        PROVE  /\ BrandKept(b)' /\ RespectsBrand(n, b, settled_active[b])
               /\ \A q \in Process : RespectsBrand(op[q], b, settled_active[b])
    BY <1>3, <1>5 DEF Inv, Safe, SafeBrands, BrandKept, Known, RespectsBrand
  <2>2. ASSUME NEW b \in DOMAIN settled_active, NEW q \in Process
        PROVE  RespectsBrand(op'[q], b, settled_active[b])
    BY <1>6, <2>1, <2>2 DEF Goes
  <2> QED
    BY <1>5, <2>1, <2>2 DEF SafeBrands
<1>11. Owned' /\ IsDatabase(db') /\ OneRowInPg'
  BY <1>5 DEF Inv, TypeOK, Formed, Owned, OneRowInPg, Unique
<1>12. IsTable(settled, Variant, Model)' /\ IsTable(settled_active, Brand, Switch)'
  <2>1. settled' \in [DOMAIN settled' -> Model]
    BY <1>7 DEF LoadBrands, ForgetLimits
  <2>2. DOMAIN settled \subseteq Variant /\ IsTable(settled_active, Brand, Switch)
    BY DEF Inv, TypeOK, IsTable
  <2> QED
    BY <1>5, <1>7, <2>1, <2>2 DEF IsTable
<1>13. TypeOK' /\ Formed'
  BY <1>3, <1>5, <1>6, <1>11, <1>12, FormedStep, FilesStay DEF Files
<1> QED
  BY <1>9, <1>10, <1>11, <1>13 DEF Inv, Safe

(* What a load reads of the rows keeps every settled edit. *)
LEMMA LoadModelsStep ==
  ASSUME Inv, NEW p \in Process, LoadModels(p)
  PROVE  Inv'
<1> DEFINE o == op[p]
           known == {v \in InScope(o.scope) : Found(v) # {}}
<1>1. o.pc = "rows" /\ Loading(o) /\ Sound(p, o)
  BY OpSound DEF LoadModels, Loading
<1>2. o.flags \in Flags /\ o.scope \in Scope /\ IsTable(o.active, Brand, Switch)
  BY <1>1, LoadForm DEF Sound
<1>3. PICK stale \in [known -> UNION {Found(v) : v \in known}] :
        /\ \A v \in known : stale[v] \in Found(v)
        /\ Become(p, [pc |-> "dir", flags |-> o.flags, scope |-> o.scope,
                      active |-> o.active, stale |-> stale])
  BY DEF LoadModels
<1> DEFINE n == [pc |-> "dir", flags |-> o.flags, scope |-> o.scope,
                 active |-> o.active, stale |-> stale]
<1>4. /\ n.pc = "dir" /\ n.flags = o.flags /\ n.scope = o.scope /\ n.active = o.active
      /\ n.stale = stale
  OBVIOUS
<1>5. known \subseteq Variant
  BY <1>2, ScopeForm
<1>6. ASSUME NEW v \in known
      PROVE  \E i \in RowsOf(db, v) : stale[v] = [id |-> i, row |-> db.models[i]]
  BY <1>3 DEF Found
<1>7. ASSUME NEW v \in InScope(o.scope), RowsOf(db, v) # {}
      PROVE  v \in known
  <2>1. PICK i \in RowsOf(db, v) : TRUE
    BY <1>7
  <2>2. [id |-> i, row |-> db.models[i]] \in Found(v)
    BY DEF Found
  <2> QED
    BY <2>2
<1>8. DOMAIN stale = known
  OBVIOUS
<1> HIDE DEF known
<1>9. ASSUME NEW v \in known
      PROVE  /\ stale[v] \in [id : Id, row : Model] /\ stale[v].id[1] = v
             /\ stale[v].row.variant = v
  <2>1. PICK i \in RowsOf(db, v) : stale[v] = [id |-> i, row |-> db.models[i]]
    BY <1>6
  <2>2. i \in DOMAIN db.models /\ db.models[i].variant = v
    BY DEF RowsOf
  <2> QED
    BY <2>1, <2>2, RowAt
<1>10. IsTable(stale, Variant, [id : Id, row : Model])
  BY <1>5, <1>8, <1>9 DEF IsTable
<1>11. IsOp(n)
  BY <1>2, <1>10 DEF IsOp, PC
<1>12. Become(p, n) /\ UNCHANGED <<db, offered, file, disturbances, history>>
  BY <1>3 DEF LoadModels
<1> HIDE DEF n
<1>13. Sound(p, n)
  BY <1>4, <1>8, <1>9, <1>11 DEF Sound, OpFormed
<1>14. ASSUME NEW v \in DOMAIN settled
       PROVE  Respects(n, v, settled[v])
  <2>1. RowKept(v) /\ Respects(o, v, settled[v])
    BY DEF Inv, Safe, SafeRows
  <2>2. v \in InScope(o.scope) => v \in DOMAIN stale
    BY <1>7, <1>8, <2>1 DEF RowKept
  <2>3. v \in DOMAIN stale => Keeps(stale[v].row, settled[v])
    BY <1>6, <1>8, <2>1 DEF RowKept
  <2>4. settled[v].limit = "learned" => "limits" \notin n.flags
    BY <1>1, <1>4, <2>1 DEF Respects
  <2> QED
    BY <1>4, <2>2, <2>3, <2>4 DEF Respects
<1>15. ASSUME NEW b \in DOMAIN settled_active
       PROVE  RespectsBrand(n, b, settled_active[b])
  BY <1>1, <1>4 DEF Inv, Safe, SafeBrands, RespectsBrand
<1>16. Goes(p) /\ op'[p] = n
  BY <1>12, <1>13, BecomeGoes DEF Inv
<1>17. Respectful(op'[p])
  BY <1>14, <1>15, <1>16 DEF Respectful
<1> QED
  BY <1>4, <1>12, <1>16, <1>17, FilesStay, Rests

(* A row as a load has read it. *)
LEMMA HeldForm ==
  ASSUME NEW p, NEW o, Sound(p, o), Holding(o), NEW v \in DOMAIN o.stale
  PROVE  /\ v \in Variant /\ o.stale[v].id \in Id /\ o.stale[v].row \in Model
         /\ o.stale[v].id[1] = v /\ o.stale[v].row.variant = v
<1>1. IsTable(o.stale, Variant, [id : Id, row : Model])
  BY LoadForm DEF Sound
<1>2. v \in Variant /\ o.stale[v] \in [id : Id, row : Model]
  BY <1>1 DEF IsTable
<1>3. o.stale[v].id[1] = v /\ o.stale[v].row.variant = v
  BY DEF Sound, OpFormed
<1> QED
  BY <1>2, <1>3

(* What a load would write for a variant is of it and keeps its edit. *)
LEMMA UpsertForm ==
  ASSUME Inv, NEW p \in Process, op[p].pc = "models",
         NEW v \in op[p].todo, NEW u \in Upserts(op[p], v)
  PROVE  /\ u.id \in Id /\ u.row \in Model /\ u.row.variant = v /\ u.id[1] = v
         /\ v \in DOMAIN settled => Keeps(u.row, settled[v])
<1> DEFINE o == op[p]
<1>1. Sound(p, o) /\ Holding(o) /\ Loading(o)
  BY OpSound DEF Holding, Loading
<1>2. /\ v \in Variant /\ v \in InScope(o.scope)
      /\ IsTable(o.stale, Variant, [id : Id, row : Model])
  BY <1>1, LoadForm, ScopeForm DEF Sound, OpFormed
<1>3. v \in DOMAIN settled => Respects(o, v, settled[v])
  BY DEF Inv, Safe, SafeRows
<1>4. CASE v \in DOMAIN o.stale
  <2> DEFINE m == o.stale[v].row
  <2>1. u = [id |-> o.stale[v].id, row |-> Refreshed(m, o.flags)]
    BY <1>4 DEF Upserts
  <2>2. o.stale[v].id \in Id /\ m \in Model /\ o.stale[v].id[1] = v /\ m.variant = v
    BY <1>1, <1>4, HeldForm
  <2>3. v \in DOMAIN settled =>
          Keeps(m, settled[v]) /\ (settled[v].limit = "learned" => "limits" \notin o.flags)
    BY <1>1, <1>3, <1>4 DEF Respects
  <2> HIDE DEF m
  <2>4. /\ Refreshed(m, o.flags) \in Model /\ Refreshed(m, o.flags).variant = v
        /\ v \in DOMAIN settled => Keeps(Refreshed(m, o.flags), settled[v])
    BY <2>2, <2>3, RefreshedForm
  <2>5. u.id = o.stale[v].id /\ u.row = Refreshed(m, o.flags)
    BY <2>1
  <2> QED
    BY <2>2, <2>4, <2>5
<1>5. CASE v \notin DOMAIN o.stale
  <2>1. PICK i \in Fresh(v) : u = [id |-> i, row |-> New(v)]
    BY <1>5 DEF Upserts
  <2>2. i \in Id /\ i[1] = v
    BY DEF Fresh
  <2>3. v \notin DOMAIN settled
    BY <1>1, <1>2, <1>3, <1>5 DEF Respects
  <2> QED
    BY <1>2, <2>1, <2>2, <2>3, NewForm
<1> QED
  BY <1>4, <1>5

(* One row is written, or refused, and the load ends. *)
LEMMA UpsertModelStep ==
  ASSUME Inv, NEW p \in Process, UpsertModel(p)
  PROVE  Inv'
<1> DEFINE o == op[p]
           v == CHOOSE w \in o.todo : TRUE
           k == [o EXCEPT !.todo = @ \ {v}]
           n == Onward(k)
<1>1. o.pc = "models" /\ Sound(p, o) /\ v \in o.todo
  BY OpSound DEF UpsertModel
<1>2. PICK u \in Upserts(o, v) :
        IF RefusesModel(db, u.id, u.row)
        THEN Become(p, Idle) /\ UNCHANGED db
        ELSE db' = InsertModel(db, u.id, u.row) /\ Become(p, n)
  BY DEF UpsertModel
<1>3. /\ u.id \in Id /\ u.row \in Model /\ u.row.variant = v /\ u.id[1] = v
      /\ v \in DOMAIN settled => Keeps(u.row, settled[v])
  BY <1>1, UpsertForm
<1>4. Files /\ history' = history
  BY FilesStay DEF UpsertModel
<1>5. CASE RefusesModel(db, u.id, u.row)
  <2>1. Become(p, Idle) /\ db' = db
    BY <1>2, <1>5
  <2>2. Goes(p) /\ op'[p] = Idle
    BY <2>1, IdleSound, BecomeGoes DEF Inv
  <2>3. Respectful(op'[p])
    BY <2>2, IdleSound, FollowsRespects
  <2>4. op'[p].pc # "apply_brand"
    BY <2>2 DEF Idle
  <2> QED
    BY <1>4, <2>1, <2>2, <2>3, <2>4, Rests
<1>6. CASE ~RefusesModel(db, u.id, u.row)
  <2>1. db' = InsertModel(db, u.id, u.row) /\ Become(p, n)
    BY <1>2, <1>6
  <2>2. /\ IsOp(k) /\ k.pc = "models" /\ k.flags = o.flags /\ k.scope = o.scope
        /\ k.active = o.active /\ k.stale = o.stale /\ k.todo \subseteq o.todo
    BY <1>1 DEF Sound, IsOp, PC
  <2> HIDE DEF k
  <2>3. Sound(p, k) /\ Holding(k) /\ Follows(o, k)
    BY <1>1, <2>2 DEF Sound, OpFormed, Holding, Loading, Follows, Respects, RespectsBrand
  <2>4. Sound(p, n) /\ Follows(k, n)
    BY <2>3, OnwardSound
  <2>5. Follows(o, n) /\ n.pc # "apply_brand"
    BY <2>2, <2>3, <2>4 DEF Follows, Onward, NextDir, Idle
  <2> HIDE DEF n
  <2>6. Goes(p) /\ op'[p] = n
    BY <2>1, <2>4, BecomeGoes DEF Inv
  <2>7. Respectful(op'[p])
    BY <2>5, <2>6, FollowsRespects
  <2>8. IsDatabase(db') /\ Written(db, db', u.id, u.row)
    BY <1>3, <2>1, InsertModelForm DEF Inv, TypeOK
  <2>9. db.backend = "postgres" => Sole(db, u.id, u.row)
    BY <1>6, RefusesUnlessSole DEF Inv
  <2> QED
    BY <1>3, <1>4, <2>5, <2>6, <2>7, <2>8, <2>9, RowStep
<1> QED
  BY <1>5, <1>6

(* A row that is no longer listed is switched off, with the rest as it is. *)
LEMMA DisableMissingStep ==
  ASSUME Inv, NEW p \in Process, DisableMissing(p)
  PROVE  Inv'
<1> DEFINE o == op[p]
<1>1. o.pc = "models" /\ Sound(p, o) /\ Holding(o) /\ Loading(o)
  BY OpSound DEF DisableMissing, Holding, Loading
<1>2. PICK v \in Missing(o) : /\ db' = SetModelEnabled(db, o.stale[v].id, 0)
                              /\ Become(p, Onward(SwitchedOff(o, v)))
  BY DEF DisableMissing
<1>3. IsTable(o.stale, Variant, [id : Id, row : Model])
  BY <1>1, LoadForm DEF Sound
<1>4. v \in DOMAIN o.stale
  BY DEF Missing
<1> DEFINE i == o.stale[v].id
           m == [o.stale[v].row EXCEPT !.enabled = 0]
           t == With(o.stale, v, [id |-> i, row |-> m])
           k == [o EXCEPT !.stale = t]
           n == Onward(k)
<1>5. /\ i \in Id /\ o.stale[v].row \in Model /\ i[1] = v /\ o.stale[v].row.variant = v
      /\ v \in Variant /\ 0 \in Switch
  BY <1>1, <1>4, HeldForm DEF Switch
<1>6. /\ m \in Model /\ m.variant = v /\ m.enabled = 0
      /\ m.cap = o.stale[v].row.cap /\ m.limit = o.stale[v].row.limit
  BY <1>5, RowForm
<1>7. SwitchedOff(o, v) = k
  BY DEF SwitchedOff
<1> HIDE DEF i, m
<1>8. /\ DOMAIN t = DOMAIN o.stale /\ t[v].id = i /\ t[v].row = m
      /\ \A w \in DOMAIN o.stale : w # v => t[w] = o.stale[w]
  BY <1>4 DEF With
<1>9. IsTable(t, Variant, [id : Id, row : Model])
  <2>1. [id |-> i, row |-> m] \in [id : Id, row : Model]
    BY <1>5, <1>6
  <2> QED
    BY <1>3, <1>5, <2>1, WithTable
<1> HIDE DEF t
<1>10. /\ IsOp(k) /\ k.pc = "models" /\ k.flags = o.flags /\ k.scope = o.scope
       /\ k.active = o.active /\ k.stale = t /\ k.todo = o.todo
  BY <1>1, <1>9 DEF Sound, IsOp, PC
<1> HIDE DEF k
<1>11. ASSUME NEW w \in DOMAIN o.stale, NEW left, Keeps(o.stale[w].row, left)
       PROVE  Keeps(t[w].row, left)
  <2>1. CASE w = v
    BY <1>6, <1>8, <1>11, <2>1 DEF Keeps
  <2>2. CASE w # v
    BY <1>8, <1>11, <2>2
  <2> QED
    BY <2>1, <2>2
<1>12. \A w \in DOMAIN t : t[w].id[1] = w /\ t[w].row.variant = w
  BY <1>1, <1>5, <1>6, <1>8 DEF Sound, OpFormed
<1>13. Sound(p, k) /\ Holding(k)
  BY <1>1, <1>10, <1>12 DEF Sound, OpFormed, Holding
<1>14. Follows(o, k)
  BY <1>1, <1>8, <1>10, <1>11, <1>13 DEF Follows, Respects, RespectsBrand, Loading
<1>15. Sound(p, n) /\ Follows(k, n)
  BY <1>13, OnwardSound
<1>16. Follows(o, n) /\ n.pc # "apply_brand"
  BY <1>10, <1>14, <1>15 DEF Follows, Onward, NextDir, Idle
<1> HIDE DEF n
<1>17. Become(p, n) /\ db' = SetModelEnabled(db, i, 0)
  BY <1>2, <1>7 DEF n, i
<1>18. Goes(p) /\ op'[p] = n
  BY <1>15, <1>17, BecomeGoes DEF Inv
<1>19. Respectful(op'[p])
  BY <1>16, <1>18, FollowsRespects
<1>20. Files /\ history' = history
  BY FilesStay DEF DisableMissing
<1>21. CASE i \notin DOMAIN db.models
  <2>1. db' = db
    BY <1>5, <1>17, <1>21, EnabledForm DEF Inv, TypeOK
  <2> QED
    BY <1>16, <1>18, <1>19, <1>20, <2>1, Rests
<1>22. CASE i \in DOMAIN db.models
  <2> DEFINE r == [db.models[i] EXCEPT !.enabled = 0]
  <2>1. IsDatabase(db') /\ Written(db, db', i, r) /\ r \in Model
    BY <1>5, <1>17, <1>22, EnabledForm DEF Inv, TypeOK
  <2>2. /\ db.models[i] \in Model /\ db.models[i].variant = v /\ i \in RowsOf(db, v)
        /\ db.backend = "postgres" =>
             \A x : x.variant = db.models[i].variant => Sole(db, i, x)
    BY <1>5, <1>22, RowAt
  <2>3. /\ r.variant = v /\ r.enabled = 0
        /\ r.cap = db.models[i].cap /\ r.limit = db.models[i].limit
    BY <1>5, <2>2, RowForm
  <2> HIDE DEF r
  <2>4. ASSUME v \in DOMAIN settled
        PROVE  Keeps(r, settled[v])
    <3>1. Keeps(db.models[i], settled[v])
      BY <2>2, <2>4 DEF Inv, Safe, SafeRows, RowKept
    <3> QED
      BY <2>3, <3>1 DEF Keeps
  <2>5. db.backend = "postgres" => Sole(db, i, r)
    BY <2>2, <2>3
  <2> QED
    BY <1>5, <1>16, <1>18, <1>19, <1>20, <2>1, <2>3, <2>4, <2>5, RowStep
<1> QED
  BY <1>21, <1>22
-----------------------------------------------------------------------------
(* The other steps. One in which p comes to do what holds no rows or brands. *)
LEMMA UnladenRespects ==
  ASSUME NEW o, o.pc \notin {"rows", "dir", "key", "models"}
  PROVE  Respectful(o)
BY DEF Respectful, Respects, RespectsBrand, Loading, Holding

(* Nothing changes but that. *)
LEMMA Turns ==
  ASSUME Inv, NEW p \in Process, NEW o, Sound(p, o), Become(p, o),
         o.pc \notin {"rows", "dir", "key", "models"}, db' = db, history' = history, Files,
         o.pc = "apply_brand" => Known(db, o.on)
  PROVE  Inv'
<1>1. Goes(p) /\ op'[p] = o
  BY BecomeGoes DEF Inv
<1>2. Respectful(op'[p])
  BY <1>1, UnladenRespects
<1> QED
  BY <1>1, <1>2, Rests

(* A step of nobody: what a provider offers changes, or nothing does. *)
LEMMA Stays ==
  ASSUME Inv, UNCHANGED <<db, file, op, history>>, offered' \subseteq Variant
  PROVE  Inv'
<1>1. TypeOK'
  BY DEF Inv, TypeOK, history, IsTable
<1>2. Formed' /\ OneRowInPg'
  BY DEF Inv, Formed, Filed, Owned, OnKnown, Known, OneRowInPg, Unique
<1>3. Safe'
  BY DEF Inv, Safe, SafeRows, SafeBrands, RowKept, BrandKept, RowsOf, Known, history
<1> QED
  BY <1>1, <1>2, <1>3 DEF Inv

(* A load as it begins. *)
LEMMA LoadsSound ==
  ASSUME NEW p, NEW flags \in Flags, NEW s \in Scope
  PROVE  Sound(p, Loads(flags, s)) /\ Loads(flags, s).pc = "brands"
BY DEF Sound, Loads, IsOp, OpFormed, Holding, PC

(* What a load may have ahead of it. *)
LEMMA DirsScope ==
  ASSUME NEW b \in Brand
  PROVE  Dirs \in Scope /\ <<b>> \in Scope
BY CatalogImportAssumption, EmptySeq DEF Scope

(* The syncs: a listing is of the provider's own variants. *)
LEMMA FetchStep ==
  ASSUME Inv, NEW s \in Sync, Fetch(s)
  PROVE  Inv'
<1> DEFINE b == ProviderOf[s]
           roster == offered \cap VariantsOf(b)
<1>1. PICK list \in Listings(s, roster) : Become(s, [pc |-> "write", list |-> list])
  BY DEF Fetch
<1>2. list \subseteq VariantsOf(b)
  <2>1. list = roster \/ \E n \in SUBSET (roster \ Prior(b)) :
                           list = (roster \cap Prior(b)) \cup n
    <3>1. CASE s \notin Scraping
      BY <3>1 DEF Listings
    <3>2. CASE s \in Scraping
      <4> DEFINE known == roster \cap Prior(b)
      <4>1. list \in {known \cup new : new \in {n \in SUBSET (roster \ known) :
                                                  Cardinality(n) <= EnrichMax}}
        BY <3>2 DEF Listings
      <4>2. PICK n \in SUBSET (roster \ known) : list = known \cup n
        BY <4>1
      <4>3. n \in SUBSET (roster \ Prior(b))
        BY <4>2
      <4> QED
        BY <4>2, <4>3
    <3> QED
      BY <3>1, <3>2
  <2> QED
    BY <2>1
<1> DEFINE o == [pc |-> "write", list |-> list]
<1>3. list \subseteq Variant
  BY <1>2 DEF VariantsOf
<1>4. IsOp(o) /\ o.pc = "write" /\ o.list = list
  BY <1>3 DEF IsOp, PC
<1>5. Become(s, o) /\ db' = db /\ history' = history /\ offered' = offered
  BY <1>1 DEF Fetch
<1> HIDE DEF o
<1>6. Sound(s, o)
  BY <1>2, <1>4 DEF Sound, OpFormed, Holding
<1>7. Files
  <2>1. file' = file \/ file' = Without(file, {b})
    BY DEF Fetch
  <2>2. CASE file' = file
    BY <1>5, <2>2, FilesStay
  <2>3. CASE file' = Without(file, {b})
    <3>1. IsTable(file', Brand, SUBSET Variant)
      BY <2>3, WithoutTable DEF Inv, TypeOK
    <3>2. DOMAIN file' \subseteq DOMAIN file /\ \A c \in DOMAIN file' : file'[c] = file[c]
      BY <2>3 DEF Without, Restrict
    <3>3. Filed'
      BY <3>2 DEF Inv, Formed, Filed
    <3> QED
      BY <1>5, <3>1, <3>3 DEF Files, Inv, TypeOK
  <2> QED
    BY <2>1, <2>2, <2>3
<1>8. s \in Process
  BY DEF Process
<1> QED
  BY <1>4, <1>5, <1>6, <1>7, <1>8, Turns

(* The file is written, and the load begins. *)
LEMMA WriteFileStep ==
  ASSUME Inv, NEW s \in Sync, WriteFile(s)
  PROVE  Inv'
<1> DEFINE b == ProviderOf[s]
           o == SyncLoads(s)
<1>1. b \in Brand /\ s \in Process
  BY CatalogImportAssumption DEF Process
<1>2. op[s].pc = "write" /\ Sound(s, op[s])
  BY <1>1, OpSound DEF WriteFile
<1>3. op[s].list \subseteq VariantsOf(b) /\ op[s].list \subseteq Variant
  BY <1>2 DEF Sound, OpFormed, VariantsOf
<1>4. Sound(s, o) /\ o.pc = "brands"
  <2>1. {"limits", "missing"} \in Flags /\ Dirs \in Scope /\ <<b>> \in Scope
    BY <1>1, DirsScope DEF Flags
  <2> QED
    BY <2>1, LoadsSound DEF SyncLoads
<1>5. file' = With(file, b, op[s].list)
  BY DEF WriteFile
<1>6. IsTable(file', Brand, SUBSET Variant)
  BY <1>1, <1>3, <1>5, WithTable DEF Inv, TypeOK
<1>7. Filed'
  <2>1. /\ DOMAIN file' = DOMAIN file \cup {b} /\ file'[b] = op[s].list
        /\ \A c \in DOMAIN file : c # b => file'[c] = file[c]
    BY <1>5 DEF With
  <2> QED
    BY <1>3, <2>1 DEF Inv, Formed, Filed
<1>8. Files
  BY <1>6, <1>7 DEF WriteFile, Files, Inv, TypeOK
<1>9. Become(s, o) /\ db' = db /\ history' = history
  BY DEF WriteFile
<1> HIDE DEF o
<1> QED
  BY <1>1, <1>4, <1>8, <1>9, Turns

(* A provider comes to offer a model, or no longer does. *)
LEMMA OfferStep ==
  ASSUME Inv, Offer
  PROVE  Inv'
<1>1. offered' \subseteq Variant
  BY DEF Offer, Inv, TypeOK
<1> QED
  BY <1>1, Stays DEF Offer

(* A process ends where it is. *)
LEMMA AbortStep ==
  ASSUME Inv, NEW p \in Process, Abort(p)
  PROVE  Inv'
<1>1. /\ Sound(p, Idle) /\ Idle.pc = "idle" /\ Become(p, Idle) /\ db' = db
      /\ history' = history /\ Files
  BY IdleSound, FilesStay DEF Abort, Idle
<1> QED
  BY <1>1, Turns

(* The loads that commands and endpoints begin. *)
LEMMA LoadBegins ==
  ASSUME Inv, NEW e \in Editor, Seed(e) \/ Refresh(e)
  PROVE  Inv'
<1>1. PICK flags \in Flags : Become(e, Loads(flags, Dirs))
  BY DEF Seed, Refresh, Flags
<1>2. Dirs \in Scope
  BY CatalogImportAssumption DEF Scope
<1>3. Sound(e, Loads(flags, Dirs)) /\ Loads(flags, Dirs).pc = "brands"
  BY <1>2, LoadsSound
<1>4. e \in Process /\ db' = db /\ history' = history /\ Files
  BY FilesStay DEF Seed, Refresh, Process
<1> QED
  BY <1>1, <1>3, <1>4, Turns

(* A command opens the database. Nothing but the index changes. *)
LEMMA OpenStep ==
  ASSUME Inv, NEW e \in Editor,
         Command(e) \/ SqliteOpen(e) \/ Reindex(e) \/ OpenFails(e) \/ PgOpen(e)
  PROVE  Inv'
<1>1. e \in Process /\ Sound(e, op[e])
  BY OpSound DEF Process
<1>2. Files /\ history' = history /\ settled_active' = settled_active
  BY FilesStay DEF Command, SqliteOpen, Reindex, OpenFails, PgOpen, history
<1>3. PICK s \in {"idle", "open", "reindex", "find"} : Become(e, [pc |-> s])
  <2>1. ASSUME op[e].pc \in {"open", "reindex"}, NEW x
        PROVE  [op[e] EXCEPT !.pc = x] = [pc |-> x]
    BY <1>1, <2>1 DEF Sound, IsOp
  <2>2. ASSUME NEW x \in {"reindex", "find"}, op[e].pc \in {"open", "reindex"},
               Become(e, [op[e] EXCEPT !.pc = x])
        PROVE  Become(e, [pc |-> x])
    BY <2>1, <2>2
  <2>3. CASE Command(e)
    BY <2>3 DEF Command
  <2>4. CASE SqliteOpen(e)
    BY <2>2, <2>4 DEF SqliteOpen
  <2>5. CASE Reindex(e)
    BY <2>2, <2>5 DEF Reindex
  <2>6. CASE OpenFails(e)
    BY <2>6 DEF OpenFails, Idle
  <2>7. CASE PgOpen(e)
    BY <2>2, <2>7 DEF PgOpen
  <2> QED
    BY <2>3, <2>4, <2>5, <2>6, <2>7
<1> DEFINE o == [pc |-> s]
<1>4. Sound(e, o) /\ o.pc = s
  BY BareSound
<1> HIDE DEF o
<1>5. Goes(e) /\ op'[e] = o
  BY <1>1, <1>3, <1>4, BecomeGoes DEF Inv, o
<1>6. Respectful(op'[e]) /\ op'[e].pc # "apply_brand"
  BY <1>4, <1>5, UnladenRespects
<1>7. CASE Command(e) \/ OpenFails(e) \/ PgOpen(e)
  <2>1. db' = db
    BY <1>7 DEF Command, OpenFails, PgOpen
  <2> QED
    BY <1>1, <1>2, <1>5, <1>6, <2>1, Rests
<1>8. CASE SqliteOpen(e) \/ Reindex(e)
  <2>1. PICK x \in {"unique", "none"} : db' = [db EXCEPT !.index = x]
    BY <1>8 DEF SqliteOpen, Reindex, DropIndex, CreateIndex
  <2>2. /\ db'.index = x /\ db'.models = db.models /\ db'.backend = db.backend
        /\ db'.members = db.members /\ BrandsSame(db, db') /\ IsDatabase(db')
    BY <2>1, IndexChanged DEF Inv, TypeOK
  <2>3. db.backend = "sqlite" \/ db'.index = "unique"
    BY <1>8, <2>2 DEF SqliteOpen, Reindex, CreateIndex, Inv, TypeOK, IsDatabase
  <2>4. OneRowInPg'
    BY <2>2, <2>3 DEF Inv, OneRowInPg, Unique
  <2>5. db'.active = db.active
    BY <2>2 DEF BrandsSame
  <2>6. \A b \in DOMAIN settled_active : BrandKept(b)'
    BY <1>2, <2>5, BrandsSameKept
  <2> QED
    BY <1>1, <1>2, <1>5, <1>6, <2>2, <2>4, <2>5, <2>6, ModelsStay
<1> QED
  BY <1>7, <1>8

(* It finds the row or the brand it is about. *)
LEMMA ToApplySound ==
  ASSUME NEW p, NEW verbs \in SUBSET (ModelVerb \cup {"add", "limit"}), NEW v \in Variant,
         NEW i \in Id, i[1] = v
  PROVE  Sound(p, ToApply(verbs, v, i)) /\ ToApply(verbs, v, i).pc = "apply"
BY DEF Sound, ToApply, IsOp, OpFormed, Holding, PC

(* A command has found its model, or the server one to learn a limit of. *)
LEMMA FindModelStep ==
  ASSUME Inv, NEW e \in Editor, FindModel(e) \/ LearnLimit(e)
  PROVE  Inv'
<1>1. e \in Process /\ db' = db /\ history' = history /\ Files
  BY FilesStay DEF FindModel, LearnLimit, Process
<1>2. ASSUME Become(e, Idle)
      PROVE  Inv'
  <2>1. Sound(e, Idle) /\ Idle.pc = "idle"
    BY IdleSound DEF Idle
  <2> QED
    BY <1>1, <1>2, <2>1, Turns
<1>3. ASSUME NEW verbs \in SUBSET (ModelVerb \cup {"add", "limit"}), NEW v \in Variant,
             NEW i \in RowsOf(db, v), Become(e, ToApply(verbs, v, i))
      PROVE  Inv'
  <2>1. i \in DOMAIN db.models /\ db.models[i].variant = v
    BY DEF RowsOf
  <2>2. i \in Id /\ i[1] = v
    BY <2>1, RowAt
  <2>3. Sound(e, ToApply(verbs, v, i)) /\ ToApply(verbs, v, i).pc = "apply"
    BY <2>2, ToApplySound
  <2> QED
    BY <1>1, <1>3, <2>3, Turns
<1>4. CASE FindModel(e)
  BY <1>2, <1>3, <1>4 DEF FindModel
<1>5. CASE LearnLimit(e)
  <2>1. PICK i \in DOMAIN db.models : Become(e, ToApply({"limit"}, db.models[i].variant, i))
    BY <1>5 DEF LearnLimit
  <2>2. i \in RowsOf(db, db.models[i].variant) /\ db.models[i].variant \in Variant
    BY RowAt DEF RowsOf, Model
  <2> QED
    BY <1>3, <2>1, <2>2
<1> QED
  BY <1>4, <1>5

(* It has found its brand, to edit it or to add a model to it. *)
LEMMA FindBrandStep ==
  ASSUME Inv, NEW e \in Editor, FindBrand(e)
  PROVE  Inv'
<1>1. e \in Process /\ db' = db /\ history' = history /\ Files
  BY FilesStay DEF FindBrand, Process
<1>2. PICK b \in Brand :
        \/ ~Known(db, b) /\ Become(e, Idle)
        \/ /\ Known(db, b)
           /\ Become(e, [pc |-> "apply_brand", verbs |-> BrandVerb, on |-> b,
                         active |-> db.active[b]])
        \/ Known(db, b) /\ \E v \in VariantsOf(b) : \E i \in Fresh(v) :
             Become(e, ToApply({"add"}, v, i))
  BY DEF FindBrand
<1>3. ASSUME Become(e, Idle)
      PROVE  Inv'
  <2>1. Sound(e, Idle) /\ Idle.pc = "idle"
    BY IdleSound DEF Idle
  <2> QED
    BY <1>1, <1>3, <2>1, Turns
<1>4. ASSUME Known(db, b),
             Become(e, [pc |-> "apply_brand", verbs |-> BrandVerb, on |-> b,
                        active |-> db.active[b]])
      PROVE  Inv'
  <2> DEFINE o == [pc |-> "apply_brand", verbs |-> BrandVerb, on |-> b, active |-> db.active[b]]
  <2>1. db.active[b] \in Switch
    BY <1>4, DatabaseForm, TableRow DEF Inv, TypeOK, Known
  <2>2. IsOp(o) /\ o.pc = "apply_brand" /\ o.on = b
    BY <2>1 DEF IsOp, PC
  <2>3. Become(e, o)
    BY <1>4
  <2> HIDE DEF o
  <2>4. Sound(e, o)
    BY <2>2 DEF Sound, OpFormed, Holding
  <2> QED
    BY <1>1, <1>4, <2>2, <2>3, <2>4, Turns
<1>5. ASSUME NEW v \in VariantsOf(b), NEW i \in Fresh(v), Become(e, ToApply({"add"}, v, i))
      PROVE  Inv'
  <2>1. v \in Variant /\ i \in Id /\ i[1] = v
    BY DEF VariantsOf, Fresh
  <2>2. Sound(e, ToApply({"add"}, v, i)) /\ ToApply({"add"}, v, i).pc = "apply"
    BY <2>1, ToApplySound
  <2> QED
    BY <1>1, <1>5, <2>2, Turns
<1> QED
  BY <1>2, <1>3, <1>4, <1>5

(* The key of a brand that a command has added. *)
LEMMA AddBrandKeyStep ==
  ASSUME Inv, NEW e \in Editor, AddBrandKey(e)
  PROVE  Inv'
<1>1. op[e].pc = "brand_key" /\ e \in Process /\ Sound(e, op[e])
  BY OpSound DEF AddBrandKey, Process
<1>2. op[e].on \in Brand
  BY <1>1 DEF Sound, IsOp
<1>3. Files /\ history' = history /\ settled_active' = settled_active
  BY FilesStay DEF AddBrandKey, history
<1>4. IsDatabase(db') /\ RowsSame(db, db') /\ db'.active = db.active
  BY <1>2, InsertKeyForm DEF AddBrandKey, Inv, TypeOK
<1>5. Goes(e) /\ op'[e] = Idle
  BY <1>1, IdleSound, BecomeGoes DEF AddBrandKey, Inv
<1>6. Respectful(op'[e]) /\ op'[e].pc # "apply_brand"
  BY <1>5, UnladenRespects DEF Idle
<1>7. \A b \in DOMAIN settled_active : BrandKept(b)'
  BY <1>3, <1>4, BrandsSameKept
<1> QED
  BY <1>1, <1>3, <1>4, <1>5, <1>6, <1>7, RowsStay
-----------------------------------------------------------------------------
(* What a command makes of the models: none, or a row of the variant that it *)
(* is about, which on PostgreSQL is the only one.                            *)
Edits(d, e, i, v) ==
  /\ IsDatabase(e) /\ BrandsSame(d, e) /\ e.index = d.index /\ e.backend = d.backend
  /\ \/ e.models = d.models
     \/ \E m \in Model : /\ m.variant = v /\ Written(d, e, i, m)
                         /\ d.backend = "postgres" => Sole(d, i, m)

(* An update is such an edit, *)
LEMMA UpdateEdits ==
  ASSUME Inv, NEW i \in Id, NEW m,
         i \in DOMAIN db.models => m \in Model /\ m.variant = db.models[i].variant
  PROVE  Edits(db, UpdateModel(db, i, m), i, i[1])
<1> DEFINE e == UpdateModel(db, i, m)
<1>1. IsDatabase(db)
  BY DEF Inv, TypeOK
<1>2. /\ IsDatabase(e)
      /\ i \in DOMAIN db.models => Written(db, e, i, m)
      /\ i \notin DOMAIN db.models => e = db
  BY <1>1, UpdateModelForm
<1> HIDE DEF e
<1>3. ASSUME i \in DOMAIN db.models
      PROVE  Edits(db, e, i, i[1])
  <2>1. /\ db.models[i].variant = i[1]
        /\ db.backend = "postgres" => Sole(db, i, m)
    BY <1>3, RowAt
  <2> QED
    BY <1>2, <1>3, <2>1 DEF Edits, Written
<1>4. ASSUME i \notin DOMAIN db.models
      PROVE  Edits(db, e, i, i[1])
  BY <1>1, <1>2, <1>4 DEF Edits, BrandsSame
<1> QED
  BY <1>3, <1>4 DEF e

(* and so is every verb of the commands. *)
LEMMA ModelEdits ==
  ASSUME Inv, NEW p \in Process, op[p].pc = "apply", NEW verb \in op[p].verbs
  PROVE  Edits(db, ModelEdited(op[p], verb), op[p].id, op[p].on)
<1> DEFINE o == op[p]
           i == o.id
           v == o.on
<1>1. /\ o.verbs \subseteq ModelVerb \cup {"add", "limit"} /\ v \in Variant /\ i \in Id
      /\ i[1] = v
  BY OpSound DEF Sound, IsOp, OpFormed
<1>2. verb \in {"cap", "disable", "enable", "member", "unmember", "add", "limit"}
  BY <1>1, CatalogImportAssumption
<1>3. IsDatabase(db) /\ OneRowInPg
  BY DEF Inv, TypeOK
<1>4. i \in DOMAIN db.models => db.models[i] \in Model
  BY RowAt
<1>5. CASE verb = "add"
  <2>1. ModelEdited(o, verb) = ModelAdded(o)
    BY <1>5 DEF ModelEdited
  <2>2. CASE RefusesModel(db, i, New(v))
    BY <1>3, <2>1, <2>2 DEF ModelAdded, Edits, BrandsSame
  <2>3. CASE ~RefusesModel(db, i, New(v))
    <3> DEFINE m == New(v)
               e == InsertModel(db, i, m)
    <3>1. m \in Model /\ m.variant = v
      BY <1>1, NewForm
    <3>2. ModelEdited(o, verb) = e
      BY <2>1, <2>3 DEF ModelAdded
    <3>3. db.backend = "postgres" => Sole(db, i, m)
      BY <1>3, <2>3, RefusesUnlessSole
    <3> HIDE DEF m
    <3>4. IsDatabase(e) /\ Written(db, e, i, m)
      BY <1>1, <1>3, <3>1, InsertModelForm
    <3> HIDE DEF e
    <3> QED
      BY <3>1, <3>2, <3>3, <3>4 DEF Edits, Written
  <2> QED
    BY <2>2, <2>3
<1>6. CASE verb = "cap"
  <2> DEFINE m == [db.models[i] EXCEPT !.cap = 1]
  <2>1. ModelEdited(o, verb) = UpdateModel(db, i, m)
    BY <1>6 DEF ModelEdited, Capped, SetModelCap
  <2>2. ASSUME i \in DOMAIN db.models
        PROVE  m \in Model /\ m.variant = db.models[i].variant
    <3>1. \A row \in Model : \A c \in Nat \cup {NoCap} :
            LET n == [row EXCEPT !.cap = c] IN n \in Model /\ n.variant = row.variant
      BY RowForm
    <3> QED
      BY <1>4, <2>2, <3>1
  <2> QED
    BY <1>1, <2>1, <2>2, UpdateEdits
<1>7. CASE verb \in {"disable", "enable"}
  <2> DEFINE x == IF verb = "enable" THEN 1 ELSE 0
             m == [db.models[i] EXCEPT !.enabled = x]
  <2>1. ModelEdited(o, verb) = UpdateModel(db, i, m)
    BY <1>7 DEF ModelEdited, Switched, SetModelEnabled
  <2>2. x \in Switch
    BY DEF Switch
  <2> HIDE DEF x
  <2>3. i \in DOMAIN db.models => m \in Model /\ m.variant = db.models[i].variant
    BY <1>4, <2>2, RowForm
  <2> QED
    BY <1>1, <2>1, <2>3, UpdateEdits
<1>8. CASE verb \in {"member", "unmember"}
  <2>1. ModelEdited(o, verb) = MemberEdited(o, verb)
    BY <1>8 DEF ModelEdited
  <2>2. \/ MemberEdited(o, verb) = db
        \/ \E s \in SUBSET Id : MemberEdited(o, verb) = [db EXCEPT !.members = s]
    <3>1. db.members \cup {i} \in SUBSET Id /\ db.members \ {i} \in SUBSET Id
      BY <1>1, <1>3, DatabaseForm
    <3> QED
      BY <3>1 DEF MemberEdited, InsertMember, RemoveMember
  <2>3. ASSUME NEW s \in SUBSET Id
        PROVE  Edits(db, [db EXCEPT !.members = s], i, v)
    BY <1>3, MembersChanged DEF Edits
  <2>4. Edits(db, db, i, v)
    BY <1>3 DEF Edits, BrandsSame
  <2> QED
    BY <2>1, <2>2, <2>3, <2>4
<1>9. CASE verb = "limit"
  <2> DEFINE m == [db.models[i] EXCEPT !.limit = "learned"]
  <2>1. ModelEdited(o, verb) = UpdateModel(db, i, m)
    BY <1>9 DEF ModelEdited, SyncModelLimits
  <2>2. i \in DOMAIN db.models => m \in Model /\ m.variant = db.models[i].variant
    BY <1>4, RowForm
  <2> QED
    BY <1>1, <2>1, <2>2, UpdateEdits
<1> QED
  BY <1>2, <1>5, <1>6, <1>7, <1>8, <1>9

(* The rows of the other variants are left alone, and the forms are kept. *)
LEMMA OthersStay ==
  ASSUME Inv, NEW i \in Id, NEW v, i[1] = v, Edits(db, db', i, v)
  PROVE  /\ Owned' /\ OneRowInPg' /\ IsDatabase(db') /\ db'.active = db.active
         /\ \A w : w # v => /\ RowsOf(db', w) = RowsOf(db, w)
                            /\ \A j \in RowsOf(db, w) : db'.models[j] = db.models[j]
<1>1. IsDatabase(db') /\ db'.active = db.active
  BY DEF Edits, BrandsSame
<1>2. CASE db'.models = db.models
  <2>1. Owned' /\ OneRowInPg'
    BY <1>2 DEF Edits, Inv, Formed, Owned, OneRowInPg, Unique
  <2>2. \A w : RowsOf(db', w) = RowsOf(db, w)
    BY <1>2 DEF RowsOf
  <2> QED
    BY <1>1, <1>2, <2>1, <2>2
<1>3. ASSUME NEW m \in Model, m.variant = v, Written(db, db', i, m),
             db.backend = "postgres" => Sole(db, i, m)
      PROVE  /\ Owned' /\ OneRowInPg'
             /\ \A w : w # v => /\ RowsOf(db', w) = RowsOf(db, w)
                                /\ \A j \in RowsOf(db, w) : db'.models[j] = db.models[j]
  <2>1. Owned'
    BY <1>3 DEF Inv, Formed, Owned, Written
  <2>2. OneRowInPg'
    BY <1>3, OpensStill DEF Inv
  <2>3. ASSUME NEW w, w # v
        PROVE  /\ RowsOf(db', w) = RowsOf(db, w)
               /\ \A j \in RowsOf(db, w) : db'.models[j] = db.models[j]
    <3>1. ASSUME NEW j \in RowsOf(db, w)
          PROVE  j # i /\ j \in RowsOf(db', w) /\ db'.models[j] = db.models[j]
      <4>1. j # i
        BY <2>3 DEF Inv, Formed, Owned, RowsOf
      <4>2. j \in DOMAIN db'.models
        BY <1>3, <2>3 DEF Written, RowsOf
      <4> QED
        BY <1>3, <4>1, <4>2 DEF Written, RowsOf
    <3>2. ASSUME NEW j \in RowsOf(db', w)
          PROVE  j \in RowsOf(db, w)
      BY <1>3, <2>3 DEF Written, RowsOf
    <3> QED
      BY <3>1, <3>2
  <2> QED
    BY <2>1, <2>2, <2>3
<1> QED
  BY <1>1, <1>2, <1>3 DEF Edits

(* A settled edit is what it left, and nobody is at work on older rows. *)
LEMMA QuietRespects ==
  ASSUME NEW e \in Process, Quiet(e), NEW p \in Process, p # e
  PROVE  /\ \A v : \A left : Respects(op[p], v, left)
         /\ \A b : \A left : RespectsBrand(op[p], b, left)
<1>1. op[p].pc \in {"idle", "write", "brands", "open", "reindex", "find"}
  BY DEF Quiet
<1> QED
  BY <1>1 DEF Respects, RespectsBrand, Loading, Holding

(* The edit of a model, settled or not. *)
LEMMA ApplyStep ==
  ASSUME Inv, NEW e \in Editor, Apply(e)
  PROVE  Inv'
<1> DEFINE o == op[e]
           v == o.on
<1>1. o.pc = "apply" /\ e \in Process /\ Sound(e, o)
  BY OpSound DEF Apply, Process
<1>2. v \in Variant /\ o.id \in Id /\ o.id[1] = v
  BY <1>1 DEF Sound, IsOp, OpFormed
<1>3. PICK verb \in o.verbs : db' = ModelEdited(o, verb)
  BY DEF Apply
<1>4. Edits(db, db', o.id, v)
  BY <1>1, <1>3, ModelEdits
<1>5. /\ Owned' /\ OneRowInPg' /\ IsDatabase(db') /\ db'.active = db.active
      /\ \A w : w # v => /\ RowsOf(db', w) = RowsOf(db, w)
                         /\ \A j \in RowsOf(db, w) : db'.models[j] = db.models[j]
  BY <1>2, <1>4, OthersStay
<1>6. Goes(e) /\ op'[e] = Idle
  BY <1>1, IdleSound, BecomeGoes DEF Apply, Inv
<1>7. /\ \A w : \A left : Respects(Idle, w, left)
      /\ \A b : \A left : RespectsBrand(Idle, b, left)
  BY DEF Idle, Respects, RespectsBrand, Loading, Holding
<1>8. /\ \/ /\ Quiet(e)
            /\ \E m \in Settled(v) : settled' = With(settled, v, m)
         \/ settled' = Without(settled, {v})
      /\ UNCHANGED <<offered, file, settled_active>>
  BY DEF Apply
<1>9. ASSUME NEW w \in DOMAIN settled, w # v
      PROVE  /\ RowsOf(db', w) # {}
             /\ \A j \in RowsOf(db', w) : Keeps(db'.models[j], settled[w])
             /\ \A p \in Process : Respects(op'[p], w, settled[w])
  <2>1. RowKept(w) /\ \A p \in Process : Respects(op[p], w, settled[w])
    BY DEF Inv, Safe, SafeRows
  <2>2. /\ RowsOf(db', w) # {}
        /\ \A j \in RowsOf(db', w) : Keeps(db'.models[j], settled[w])
    BY <1>5, <1>9, <2>1 DEF RowKept
  <2>3. \A p \in Process : Respects(op'[p], w, settled[w])
    BY <1>6, <1>7, <2>1 DEF Goes
  <2> QED
    BY <2>2, <2>3
<1>10. IsTable(settled, Variant, Model) /\ IsTable(db'.models, Id, Model)
  BY <1>5, DatabaseForm DEF Inv, TypeOK
<1>11. IsTable(settled', Variant, Model) /\ SafeRows'
  <2>1. ASSUME Quiet(e), NEW m \in Settled(v), settled' = With(settled, v, m)
        PROVE  IsTable(settled', Variant, Model) /\ SafeRows'
    <3>1. PICK i \in RowsOf(db', v) : m = db'.models[i] /\ \A k \in RowsOf(db', v) : k = i
      BY <2>1 DEF Settled
    <3>2. i \in DOMAIN db'.models
      BY DEF RowsOf
    <3>3. m \in Model
      BY <1>10, <3>1, <3>2, TableRow
    <3>4. /\ DOMAIN settled' = DOMAIN settled \cup {v} /\ settled'[v] = m
          /\ \A w \in DOMAIN settled : w # v => settled'[w] = settled[w]
      BY <2>1 DEF With
    <3>5. IsTable(settled', Variant, Model)
      BY <1>2, <1>10, <2>1, <3>3, WithTable
    <3>6. RowsOf(db', v) # {} /\ \A j \in RowsOf(db', v) : Keeps(db'.models[j], m)
      BY <3>1 DEF Keeps
    <3>7. \A p \in Process : Respects(op'[p], v, m)
      BY <1>1, <1>6, <1>7, <2>1, QuietRespects DEF Goes
    <3>8. SafeRows'
      BY <1>9, <3>4, <3>6, <3>7 DEF SafeRows, RowKept
    <3> QED
      BY <3>5, <3>8
  <2>2. ASSUME settled' = Without(settled, {v})
        PROVE  IsTable(settled', Variant, Model) /\ SafeRows'
    <3>1. /\ DOMAIN settled' = DOMAIN settled \ {v}
          /\ \A w \in DOMAIN settled \ {v} : settled'[w] = settled[w]
      BY <2>2 DEF Without, Restrict
    <3>2. IsTable(settled', Variant, Model)
      BY <1>10, <2>2, WithoutTable
    <3>3. SafeRows'
      BY <1>9, <3>1 DEF SafeRows, RowKept
    <3> QED
      BY <3>2, <3>3
  <2> QED
    BY <1>8, <2>1, <2>2
<1>12. SafeBrands'
  <2>1. settled_active' = settled_active
    BY <1>8
  <2>2. ASSUME NEW b \in DOMAIN settled_active
        PROVE  /\ BrandKept(b)'
               /\ \A p \in Process : RespectsBrand(op'[p], b, settled_active[b])
    <3>1. BrandKept(b) /\ \A p \in Process : RespectsBrand(op[p], b, settled_active[b])
      BY DEF Inv, Safe, SafeBrands
    <3>2. BrandKept(b)'
      BY <1>5, <2>1, <3>1 DEF BrandKept, Known
    <3>3. \A p \in Process : RespectsBrand(op'[p], b, settled_active[b])
      BY <1>6, <1>7, <3>1 DEF Goes
    <3> QED
      BY <3>2, <3>3
  <2> QED
    BY <2>1, <2>2 DEF SafeBrands
<1>13. Files
  BY <1>8, FilesStay
<1>14. IsTable(settled_active, Brand, Switch)'
  BY <1>8 DEF Inv, TypeOK, IsTable
<1>15. op'[e].pc # "apply_brand"
  BY <1>6 DEF Idle
<1>16. TypeOK' /\ Formed'
  BY <1>1, <1>5, <1>6, <1>11, <1>13, <1>14, <1>15, FormedStep DEF Files
<1> QED
  BY <1>5, <1>11, <1>12, <1>16 DEF Inv, Safe

(* A brand is edited, and its edit settled or not; the rows are left alone. *)
LEMMA BrandStep ==
  ASSUME Inv, NEW e \in Process, NEW b \in Brand, NEW o, Become(e, o), Sound(e, o),
         o.pc \notin {"rows", "dir", "key", "models", "apply_brand"},
         IsDatabase(db'), RowsSame(db, db'), DOMAIN db'.active = DOMAIN db.active \cup {b},
         \A c \in DOMAIN db.active : c # b => db'.active[c] = db.active[c],
         \/ Quiet(e) /\ settled_active' = With(settled_active, b, db'.active[b])
         \/ settled_active' = Without(settled_active, {b}),
         Files, settled' = settled
  PROVE  Inv'
<1>1. Goes(e) /\ op'[e] = o
  BY BecomeGoes DEF Inv
<1>2. /\ \A v : \A left : Respects(o, v, left)
      /\ \A c : \A left : RespectsBrand(o, c, left)
  BY DEF Respects, RespectsBrand, Loading, Holding
<1>3. ASSUME NEW c \in DOMAIN settled_active, c # b
      PROVE  /\ Known(db', c) /\ (settled_active[c] = 0 => db'.active[c] = 0)
             /\ \A p \in Process : RespectsBrand(op'[p], c, settled_active[c])
  <2>1. BrandKept(c) /\ \A p \in Process : RespectsBrand(op[p], c, settled_active[c])
    BY DEF Inv, Safe, SafeBrands
  <2>2. Known(db', c) /\ (settled_active[c] = 0 => db'.active[c] = 0)
    BY <1>3, <2>1 DEF BrandKept, Known
  <2>3. \A p \in Process : RespectsBrand(op'[p], c, settled_active[c])
    BY <1>1, <1>2, <2>1 DEF Goes
  <2> QED
    BY <2>2, <2>3
<1>4. /\ IsTable(settled_active, Brand, Switch) /\ IsTable(settled, Variant, Model)
      /\ IsTable(db'.active, Brand, Switch)
  BY DatabaseForm DEF Inv, TypeOK
<1>5. IsTable(settled_active', Brand, Switch) /\ SafeBrands'
  <2>1. ASSUME Quiet(e), settled_active' = With(settled_active, b, db'.active[b])
        PROVE  IsTable(settled_active', Brand, Switch) /\ SafeBrands'
    <3>1. /\ DOMAIN settled_active' = DOMAIN settled_active \cup {b}
          /\ settled_active'[b] = db'.active[b]
          /\ \A c \in DOMAIN settled_active : c # b => settled_active'[c] = settled_active[c]
      BY <2>1 DEF With
    <3>2. b \in DOMAIN db'.active /\ db'.active[b] \in Switch
      BY <1>4, TableRow
    <3>3. IsTable(settled_active', Brand, Switch)
      BY <1>4, <2>1, <3>2, WithTable
    <3>4. \A p \in Process : RespectsBrand(op'[p], b, db'.active[b])
      BY <1>1, <1>2, <2>1, QuietRespects DEF Goes
    <3>5. SafeBrands'
      BY <1>3, <3>1, <3>2, <3>4 DEF SafeBrands, BrandKept, Known
    <3> QED
      BY <3>3, <3>5
  <2>2. ASSUME settled_active' = Without(settled_active, {b})
        PROVE  IsTable(settled_active', Brand, Switch) /\ SafeBrands'
    <3>1. /\ DOMAIN settled_active' = DOMAIN settled_active \ {b}
          /\ \A c \in DOMAIN settled_active \ {b} : settled_active'[c] = settled_active[c]
      BY <2>2 DEF Without, Restrict
    <3>2. IsTable(settled_active', Brand, Switch)
      BY <1>4, <2>2, WithoutTable
    <3>3. SafeBrands'
      BY <1>3, <3>1 DEF SafeBrands, BrandKept
    <3> QED
      BY <3>2, <3>3
  <2> QED
    BY <2>1, <2>2
<1>6. Owned' /\ \A v \in DOMAIN settled : RowKept(v)'
  BY RowsSameKept DEF RowsSame
<1>7. SafeRows'
  <2>1. ASSUME NEW v \in DOMAIN settled, NEW p \in Process
        PROVE  Respects(op'[p], v, settled[v])
    BY <1>1, <1>2 DEF Goes, Inv, Safe, SafeRows
  <2> QED
    BY <1>6, <2>1 DEF SafeRows
<1>8. OneRowInPg'
  BY DEF Inv, OneRowInPg, Unique, RowsSame
<1>9. TypeOK' /\ Formed'
  BY <1>1, <1>4, <1>5, <1>6, FormedStep DEF Files
<1> QED
  BY <1>5, <1>7, <1>8, <1>9 DEF Inv, Safe

(* The edit of a brand that was found before: it is there still. *)
LEMMA ApplyBrandStep ==
  ASSUME Inv, NEW e \in Editor, ApplyBrand(e)
  PROVE  Inv'
<1> DEFINE o == op[e]
           b == o.on
<1>1. o.pc = "apply_brand" /\ e \in Process /\ Sound(e, o) /\ Known(db, b)
  BY OpSound DEF ApplyBrand, Process, Inv, Formed, OnKnown
<1>2. b \in Brand /\ o.active \in Switch /\ o.verbs \subseteq BrandVerb
  BY <1>1 DEF Sound, IsOp
<1>3. PICK verb \in o.verbs : db' = BrandEdited(o, verb)
  BY DEF ApplyBrand
<1>4. verb \in {"brand_off", "brand_on", "brand_weight"} /\ {0, 1} = Switch
  BY <1>2, CatalogImportAssumption DEF Switch
<1>5. \E a \in Switch : db' = SetBrandActive(db, b, a) \/ db' = InsertBrand(db, b, a)
  BY <1>2, <1>3, <1>4 DEF BrandEdited
<1>6. /\ IsDatabase(db') /\ RowsSame(db, db') /\ DOMAIN db'.active = DOMAIN db.active \cup {b}
      /\ \A c \in DOMAIN db.active : c # b => db'.active[c] = db.active[c]
  BY <1>1, <1>2, <1>5, SetBrandActiveForm, InsertBrandForm DEF Inv, TypeOK, Known
<1>7. Become(e, Idle) /\ Sound(e, Idle) /\ Idle.pc = "idle"
  BY IdleSound DEF ApplyBrand, Idle
<1>8. \/ Quiet(e) /\ settled_active' = With(settled_active, b, db'.active[b])
      \/ settled_active' = Without(settled_active, {b})
  BY DEF ApplyBrand
<1>9. Files /\ settled' = settled
  BY FilesStay DEF ApplyBrand
<1> QED
  BY <1>1, <1>2, <1>6, <1>7, <1>8, <1>9, BrandStep

(* A brand that is added may overwrite one: its edits are forgotten. *)
LEMMA AddBrandStep ==
  ASSUME Inv, NEW e \in Editor, AddBrand(e)
  PROVE  Inv'
<1>1. PICK b \in Brand : /\ db' = InsertBrand(db, b, 1)
                         /\ settled_active' = Without(settled_active, {b})
                         /\ Become(e, IF Known(db, b) THEN Idle
                                      ELSE [pc |-> "brand_key", on |-> b])
  BY DEF AddBrand
<1>2. /\ IsDatabase(db') /\ RowsSame(db, db') /\ DOMAIN db'.active = DOMAIN db.active \cup {b}
      /\ \A c \in DOMAIN db.active : c # b => db'.active[c] = db.active[c]
  BY <1>1, InsertBrandForm DEF Inv, TypeOK, Switch
<1> DEFINE k == [pc |-> "brand_key", on |-> b]
           o == IF Known(db, b) THEN Idle ELSE k
<1>3. IsOp(k) /\ k.pc = "brand_key"
  BY DEF IsOp, PC
<1> HIDE DEF k
<1>4. Sound(e, k)
  BY <1>3 DEF Sound, OpFormed, Holding
<1>5. Sound(e, o) /\ o.pc \in {"idle", "brand_key"}
  BY <1>3, <1>4, IdleSound DEF Idle
<1>6. Become(e, o)
  BY <1>1 DEF k
<1> HIDE DEF o
<1>7. Files /\ settled' = settled /\ e \in Process
  BY FilesStay DEF AddBrand, Process
<1> QED
  BY <1>1, <1>2, <1>5, <1>6, <1>7, BrandStep
-----------------------------------------------------------------------------
(* The invariant holds at first, and every step keeps it. *)
LEMMA InitInv ==
  ASSUME Init
  PROVE  Inv
<1>1. PICK backend \in Backends : db = EmptyDatabase(backend)
  BY DEF Init
<1>2. /\ offered \subseteq Variant
      /\ file = [b \in Brand |-> VariantsOf(b) \cap (Curated \cup offered)]
      /\ op = [p \in Process |-> Idle] /\ settled = NoRows /\ settled_active = NoRows
  BY DEF Init, VariantsOf
<1>3. backend \in Backend
  BY CatalogImportAssumption
<1>4. IsDatabase(db) /\ DOMAIN db.models = {} /\ db.index = "unique"
  BY <1>1, <1>3, NoRowsTable DEF EmptyDatabase, IsDatabase
<1>5. IsTable(file, Brand, SUBSET Variant) /\ Filed
  <2>1. \A b \in Brand : VariantsOf(b) \subseteq Variant
    BY DEF VariantsOf
  <2> QED
    BY <1>2, <2>1 DEF IsTable, Filed
<1>6. \A p \in Process : Sound(p, op[p]) /\ op[p].pc # "apply_brand"
  BY <1>2, IdleSound DEF Idle
<1>7. /\ IsTable(settled, Variant, Model) /\ IsTable(settled_active, Brand, Switch)
      /\ DOMAIN settled = {} /\ DOMAIN settled_active = {}
  BY <1>2, NoRowsTable
<1>8. TypeOK
  BY <1>2, <1>4, <1>5, <1>6, <1>7 DEF TypeOK, Sound
<1>9. Formed
  BY <1>4, <1>5, <1>6 DEF Formed, Owned, Sound, OnKnown
<1>10. Safe /\ OneRowInPg
  BY <1>4, <1>7 DEF Safe, SafeRows, SafeBrands, OneRowInPg, Unique
<1> QED
  BY <1>8, <1>9, <1>10 DEF Inv

(* Every step keeps it, one lemma for each action. *)
LEMMA NextInv ==
  ASSUME Inv, [Next]_vars
  PROVE  Inv'
<1>1. CASE Offer
  BY <1>1, OfferStep
<1>2. ASSUME NEW s \in Sync, SyncStep(s)
      PROVE  Inv'
  BY <1>2, FetchStep, WriteFileStep DEF SyncStep
<1>3. ASSUME NEW p \in Process, LoadStep(p)
      PROVE  Inv'
  BY <1>3, LoadBrandsStep, LoadModelsStep, EnterDirStep, AddKeyStep, UpsertModelStep,
     DisableMissingStep DEF LoadStep
<1>4. ASSUME NEW e \in Editor, EditStep(e)
      PROVE  Inv'
  BY <1>4, LoadBegins, OpenStep, FindModelStep, FindBrandStep, ApplyStep, ApplyBrandStep,
     AddBrandStep, AddBrandKeyStep DEF EditStep
<1>5. ASSUME NEW p \in Process, Abort(p)
      PROVE  Inv'
  BY <1>5, AbortStep
<1>6. CASE UNCHANGED vars
  BY <1>6, Stays DEF vars, Inv, TypeOK
<1> QED
  BY <1>1, <1>2, <1>3, <1>4, <1>5, <1>6 DEF Next

(* In every reachable state: types, what belongs to whom, no settled edit    *)
(* contradicted by a row or by what a load holds, and one row per variant on *)
(* PostgreSQL.                                                               *)
THEOREM InvariantHolds == Spec => []Inv
<1>1. Init => Inv
  BY InitInv
<1>2. Inv /\ [Next]_vars => Inv'
  BY NextInv
<1> QED
  BY <1>1, <1>2, PTL DEF Spec

(* Whatever loads and commands overlap, fail or end halfway, the tables and  *)
(* what every process holds of them have their types.                        *)
THEOREM TypeCorrect == Spec => []TypeOK
<1>1. Inv => TypeOK
  BY DEF Inv
<1> QED
  BY <1>1, InvariantHolds, PTL

(* load_filtered: an edit that was made while no load was under way outlives *)
(* every load after it, whichever fail or overlap.                           *)
THEOREM EditsOutlive == Spec => []EditsOutliveLoads
<1>1. Inv => EditsOutliveLoads
  BY DEF Inv, Safe, SafeRows, SafeBrands, RowKept, BrandKept, EditsOutliveLoads
<1> QED
  BY <1>1, InvariantHolds, PTL

(* insert_model of storage-pg: no load takes a model out of its groups. *)
LEMMA LoadKeepsMembers ==
  ASSUME Inv, db.backend = "postgres", NEW p \in Process, LoadStep(p)
  PROVE  db'.members = db.members
<1>1. IsDatabase(db) /\ Sound(p, op[p])
  BY OpSound DEF Inv, TypeOK
<1>2. CASE LoadBrands(p) \/ LoadModels(p)
  BY <1>2 DEF LoadBrands, LoadModels
<1>3. CASE EnterDir(p)
  <2>1. \A b, a : InsertBrand(db, b, a).members = db.members
    BY <1>1 DEF InsertBrand, IsDatabase
  <2> QED
    BY <1>3, <2>1 DEF EnterDir
<1>4. CASE AddKey(p)
  BY <1>1, <1>4 DEF AddKey, InsertKey, IsDatabase
<1>5. CASE UpsertModel(p)
  <2> DEFINE v == CHOOSE w \in op[p].todo : TRUE
  <2>1. op[p].pc = "models" /\ v \in op[p].todo
    BY <1>5 DEF UpsertModel
  <2>2. PICK u \in Upserts(op[p], v) : db' = db \/ db' = InsertModel(db, u.id, u.row)
    BY <1>5 DEF UpsertModel
  <2>3. u.id \in Id /\ u.row \in Model
    BY <2>1, UpsertForm
  <2> QED
    BY <1>1, <2>2, <2>3, InsertModelForm
<1>6. CASE DisableMissing(p)
  <2>1. PICK i : db' = SetModelEnabled(db, i, 0)
    BY <1>6 DEF DisableMissing
  <2>2. 0 \in Switch
    BY DEF Switch
  <2> QED
    BY <1>1, <2>1, <2>2, EnabledForm
<1> QED
  BY <1>2, <1>3, <1>4, <1>5, <1>6 DEF LoadStep

(* load_filtered on PostgreSQL: whatever overlaps it, no step of a load      *)
(* removes a reference to a model.                                           *)
THEOREM ReferencesStay == Spec => ReferencesStayValidInPg
<1> DEFINE A == db.backend = "postgres" /\ (\E p \in Process : LoadStep(p))
                  => db.members \subseteq db'.members
<1>1. Inv => A
  BY LoadKeepsMembers
<1> HIDE DEF A
<1>2. Spec => [][A]_vars
  BY <1>1, InvariantHolds, PTL DEF Spec
<1> QED
  BY <1>2 DEF A, ReferencesStayValidInPg
-----------------------------------------------------------------------------
(* What the schema asks of the tables: the index, while it stands, and the   *)
(* foreign keys.                                                             *)
Constrained(d) ==
  (d.index = "unique" => Unique(d)) /\ d.members \subseteq DOMAIN d.models

(* A call that changes neither rows nor references keeps it. *)
LEMMA SameConstrained ==
  ASSUME NEW d, NEW e, Constrained(d), RowsSame(d, e)
  PROVE  Constrained(e)
BY DEF Constrained, RowsSame, Unique

(* An insert that is not refused keeps it: SQLite deletes what is in the way *)
(* and what refers to it, PostgreSQL has nothing in the way.                 *)
LEMMA InsertConstrained ==
  ASSUME NEW d, IsDatabase(d), Constrained(d), NEW i \in Id, NEW m \in Model,
         ~RefusesModel(d, i, m)
  PROVE  Constrained(InsertModel(d, i, m))
<1> DEFINE e == InsertModel(d, i, m)
           gone == IF d.backend = "sqlite"
                   THEN {j \in DOMAIN d.models :
                           j = i \/ (d.index = "unique" /\ d.models[j].variant = m.variant)}
                   ELSE {}
<1>1. Written(d, e, i, m)
  BY InsertModelForm
<1>2. /\ \A j \in DOMAIN d.models \ gone : j \in DOMAIN e.models
      /\ \A j \in DOMAIN e.models : j # i => j \notin gone
      /\ e.members = d.members \ gone
  <2>1. CASE d.backend = "sqlite"
    <3> DEFINE t == With(Without(d.models, gone), i, m)
               s == d.members \ gone
    <3>1. e = [d EXCEPT !.models = t, !.members = s]
      BY <2>1 DEF InsertModel, SqliteInsertModel
    <3>2. DOMAIN t = (DOMAIN d.models \ gone) \cup {i}
      BY WithoutForm DEF With
    <3> HIDE DEF t, s, gone, e
    <3>3. e.models = t /\ e.members = s
      BY <3>1 DEF IsDatabase
    <3> QED
      BY <3>2, <3>3 DEF s
  <2>2. CASE d.backend # "sqlite"
    <3> DEFINE t == With(d.models, i, m)
    <3>1. e = [d EXCEPT !.models = t]
      BY <2>2 DEF InsertModel, PgInsertModel
    <3>2. DOMAIN t = DOMAIN d.models \cup {i} /\ gone = {}
      BY <2>2 DEF With
    <3> HIDE DEF t, gone, e
    <3>3. e.models = t /\ e.members = d.members
      BY <3>1 DEF IsDatabase
    <3> QED
      BY <3>2, <3>3
  <2> QED
    BY <2>1, <2>2
<1>3. \A j \in DOMAIN e.models :
        j # i /\ d.index = "unique" => d.models[j].variant # m.variant
  <2>1. CASE d.backend = "sqlite"
    <3> HIDE DEF e
    <3> QED
      BY <1>1, <1>2, <2>1 DEF Written
  <2>2. CASE d.backend = "postgres"
    <3> HIDE DEF e, gone
    <3> QED
      BY <1>1, <2>2 DEF Written, RefusesModel, PgRefusesModel, RowsOf
  <2> QED
    BY <2>1, <2>2, DatabaseForm DEF Backend
<1>4. i \in gone \/ i \notin DOMAIN d.models \/ gone = {}
  OBVIOUS
<1> HIDE DEF e, gone
<1>5. e.members \subseteq DOMAIN e.models
  BY <1>2 DEF Constrained
<1>6. ASSUME e.index = "unique", NEW j \in DOMAIN e.models, NEW k \in DOMAIN e.models,
             e.models[j].variant = e.models[k].variant
      PROVE  j = k
  <2>1. d.index = "unique" /\ Unique(d)
    BY <1>1, <1>6 DEF Written, Constrained
  <2>2. CASE j = i \/ k = i
    BY <1>1, <1>3, <1>6, <2>1, <2>2 DEF Written
  <2>3. CASE j # i /\ k # i
    BY <1>1, <1>6, <2>1, <2>3 DEF Written, Unique
  <2> QED
    BY <2>2, <2>3
<1>7. Constrained(e)
  BY <1>5, <1>6 DEF Constrained, Unique
<1> QED
  BY <1>7 DEF e

(* An update that leaves the variant alone keeps it. *)
LEMMA UpdateConstrained ==
  ASSUME NEW d, IsDatabase(d), Constrained(d), NEW i, NEW m,
         i \in DOMAIN d.models => m.variant = d.models[i].variant
  PROVE  Constrained(UpdateModel(d, i, m))
<1>1. CASE i \notin DOMAIN d.models
  BY <1>1 DEF UpdateModel
<1>2. CASE i \in DOMAIN d.models
  <2> DEFINE t == [d.models EXCEPT ![i] = m]
             e == [d EXCEPT !.models = t]
  <2>1. UpdateModel(d, i, m) = e
    BY <1>2 DEF UpdateModel
  <2>2. DOMAIN t = DOMAIN d.models /\ \A j \in DOMAIN t : t[j].variant = d.models[j].variant
    BY <1>2
  <2> HIDE DEF t
  <2>3. e.models = t /\ e.index = d.index /\ e.members = d.members
    BY DEF IsDatabase
  <2> HIDE DEF e
  <2> QED
    BY <2>1, <2>2, <2>3 DEF Constrained, Unique
<1> QED
  BY <1>1, <1>2

(* So every verb of the commands and of the server keeps it. *)
LEMMA EditConstrained ==
  ASSUME Inv, Constrained(db), NEW p \in Process, op[p].pc = "apply", NEW verb \in op[p].verbs
  PROVE  Constrained(ModelEdited(op[p], verb))
<1> DEFINE o == op[p]
           i == o.id
           v == o.on
<1>1. o.verbs \subseteq ModelVerb \cup {"add", "limit"} /\ v \in Variant /\ i \in Id
  BY OpSound DEF Sound, IsOp
<1>2. verb \in {"cap", "disable", "enable", "member", "unmember", "add", "limit"}
  BY <1>1, CatalogImportAssumption
<1>3. IsDatabase(db)
  BY DEF Inv, TypeOK
<1>4. i \in DOMAIN db.models => db.models[i] \in Model
  BY RowAt
<1>5. CASE verb = "add"
  <2>1. ModelEdited(o, verb) =
          IF RefusesModel(db, i, New(v)) THEN db ELSE InsertModel(db, i, New(v))
    BY <1>5 DEF ModelEdited, ModelAdded
  <2>2. New(v) \in Model
    BY <1>1, NewForm
  <2> QED
    BY <1>1, <1>3, <2>1, <2>2, InsertConstrained
<1>6. ASSUME NEW m, i \in DOMAIN db.models => m.variant = db.models[i].variant
      PROVE  Constrained(UpdateModel(db, i, m))
  BY <1>3, <1>6, UpdateConstrained
<1>7. CASE verb = "cap"
  <2> DEFINE m == [db.models[i] EXCEPT !.cap = 1]
  <2>1. ModelEdited(o, verb) = UpdateModel(db, i, m)
    BY <1>7 DEF ModelEdited, Capped, SetModelCap
  <2>2. \A row \in Model : [row EXCEPT !.cap = 1].variant = row.variant
    BY RowForm
  <2>3. i \in DOMAIN db.models => m.variant = db.models[i].variant
    BY <1>4, <2>2
  <2> QED
    BY <1>6, <2>1, <2>3
<1>8. CASE verb \in {"disable", "enable"}
  <2> DEFINE x == IF verb = "enable" THEN 1 ELSE 0
             m == [db.models[i] EXCEPT !.enabled = x]
  <2>1. ModelEdited(o, verb) = UpdateModel(db, i, m)
    BY <1>8 DEF ModelEdited, Switched, SetModelEnabled
  <2>2. x \in Switch
    BY DEF Switch
  <2> HIDE DEF x
  <2>3. i \in DOMAIN db.models => m.variant = db.models[i].variant
    BY <1>4, <2>2, RowForm
  <2> QED
    BY <1>6, <2>1, <2>3
<1>9. CASE verb \in {"member", "unmember"}
  <2>1. ModelEdited(o, verb) = MemberEdited(o, verb)
    BY <1>9 DEF ModelEdited
  <2>2. ASSUME NEW s \in SUBSET DOMAIN db.models
        PROVE  Constrained([db EXCEPT !.members = s])
    BY <1>3, MembersChanged DEF Constrained, Unique
  <2>3. \/ MemberEdited(o, verb) = db
        \/ \E s \in SUBSET DOMAIN db.models : MemberEdited(o, verb) = [db EXCEPT !.members = s]
    <3>1. db.members \ {i} \in SUBSET DOMAIN db.models
      BY DEF Constrained
    <3>2. i \in DOMAIN db.models => db.members \cup {i} \in SUBSET DOMAIN db.models
      BY DEF Constrained
    <3> QED
      BY <3>1, <3>2 DEF MemberEdited, RefusesMember, InsertMember, RemoveMember
  <2> QED
    BY <2>1, <2>2, <2>3
<1>10. CASE verb = "limit"
  <2> DEFINE m == [db.models[i] EXCEPT !.limit = "learned"]
  <2>1. ModelEdited(o, verb) = UpdateModel(db, i, m)
    BY <1>10 DEF ModelEdited, SyncModelLimits
  <2>2. i \in DOMAIN db.models => m.variant = db.models[i].variant
    BY <1>4, RowForm
  <2> QED
    BY <1>6, <2>1, <2>2
<1> QED
  BY <1>2, <1>5, <1>7, <1>8, <1>9, <1>10

(* The calls on brands and keys change neither rows nor references. *)
LEMMA BrandsConstrained ==
  ASSUME IsDatabase(db), Constrained(db)
  PROVE  /\ \A b, a : Constrained(InsertBrand(db, b, a)) /\ Constrained(SetBrandActive(db, b, a))
         /\ \A b : Constrained(InsertKey(db, b))
<1>1. ASSUME NEW a
      PROVE  Constrained([db EXCEPT !.active = a])
  BY ActiveChanged, SameConstrained
<1>2. ASSUME NEW k
      PROVE  Constrained([db EXCEPT !.keyed = k])
  BY KeyedChanged, SameConstrained
<1> QED
  BY <1>1, <1>2 DEF InsertBrand, SetBrandActive, InsertKey

(* Every step keeps it; the index is made only of rows that are unique. *)
LEMMA StepConstrained ==
  ASSUME Inv, Constrained(db), [Next]_vars
  PROVE  Constrained(db')
<1>1. IsDatabase(db)
  BY DEF Inv, TypeOK
<1>2. CASE db' = db
  BY <1>2
<1>3. ASSUME NEW p \in Process, LoadStep(p)
      PROVE  Constrained(db')
  <2>1. CASE EnterDir(p)
    BY <1>1, <2>1, BrandsConstrained DEF EnterDir
  <2>2. CASE AddKey(p)
    BY <1>1, <2>2, BrandsConstrained DEF AddKey
  <2>3. CASE UpsertModel(p)
    <3> DEFINE v == CHOOSE w \in op[p].todo : TRUE
    <3>1. op[p].pc = "models" /\ v \in op[p].todo
      BY <2>3 DEF UpsertModel
    <3>2. PICK u \in Upserts(op[p], v) :
            \/ db' = db
            \/ ~RefusesModel(db, u.id, u.row) /\ db' = InsertModel(db, u.id, u.row)
      BY <2>3 DEF UpsertModel
    <3>3. u.id \in Id /\ u.row \in Model
      BY <3>1, UpsertForm
    <3> QED
      BY <1>1, <1>2, <3>2, <3>3, InsertConstrained
  <2>4. CASE DisableMissing(p)
    <3>1. PICK i : db' = UpdateModel(db, i, [db.models[i] EXCEPT !.enabled = 0])
      BY <2>4 DEF DisableMissing, SetModelEnabled
    <3>2. i \in DOMAIN db.models => [db.models[i] EXCEPT !.enabled = 0].variant = db.models[i].variant
      BY RowAt, RowForm DEF Switch
    <3> QED
      BY <1>1, <3>1, <3>2, UpdateConstrained
  <2>5. CASE LoadBrands(p) \/ LoadModels(p)
    BY <1>2, <2>5 DEF LoadBrands, LoadModels
  <2> QED
    BY <1>3, <2>1, <2>2, <2>3, <2>4, <2>5 DEF LoadStep
<1>4. ASSUME NEW e \in Editor, EditStep(e)
      PROVE  Constrained(db')
  <2>1. CASE SqliteOpen(e)
    <3>1. db' = [db EXCEPT !.index = "none"]
      BY <2>1 DEF SqliteOpen, DropIndex
    <3> QED
      BY <1>1, <3>1, IndexChanged DEF Constrained
  <2>2. CASE Reindex(e)
    <3>1. db' = [db EXCEPT !.index = "unique"] /\ Unique(db)
      BY <2>2 DEF Reindex, CreateIndex
    <3> QED
      BY <1>1, <3>1, IndexChanged DEF Constrained, Unique
  <2>3. CASE Apply(e)
    <3>1. e \in Process /\ op[e].pc = "apply"
      BY <2>3 DEF Apply, Process
    <3>2. PICK verb \in op[e].verbs : db' = ModelEdited(op[e], verb)
      BY <2>3 DEF Apply
    <3> QED
      BY <3>1, <3>2, EditConstrained
  <2>4. CASE ApplyBrand(e)
    <3>1. e \in Process /\ op[e].pc = "apply_brand"
      BY <2>4 DEF ApplyBrand, Process
    <3>2. PICK verb \in op[e].verbs : db' = BrandEdited(op[e], verb)
      BY <2>4 DEF ApplyBrand
    <3>3. op[e].verbs \subseteq BrandVerb
      BY <3>1, OpSound DEF Sound, IsOp
    <3>4. verb \in {"brand_off", "brand_on", "brand_weight"}
      BY <3>2, <3>3, CatalogImportAssumption
    <3> QED
      BY <1>1, <3>2, <3>4, BrandsConstrained DEF BrandEdited
  <2>5. CASE AddBrand(e) \/ AddBrandKey(e)
    BY <1>1, <2>5, BrandsConstrained DEF AddBrand, AddBrandKey
  <2>6. CASE Seed(e) \/ Refresh(e) \/ Command(e) \/ LearnLimit(e)
    BY <1>2, <2>6 DEF Seed, Refresh, Command, LearnLimit
  <2>7. CASE OpenFails(e) \/ PgOpen(e) \/ FindModel(e) \/ FindBrand(e)
    BY <1>2, <2>7 DEF OpenFails, PgOpen, FindModel, FindBrand
  <2> QED
    BY <1>4, <2>1, <2>2, <2>3, <2>4, <2>5, <2>6, <2>7 DEF EditStep
<1>5. CASE Offer \/ \E s \in Sync : SyncStep(s)
  BY <1>2, <1>5 DEF Offer, SyncStep, Fetch, WriteFile
<1>6. CASE \E p \in Process : Abort(p)
  BY <1>2, <1>6 DEF Abort
<1>7. CASE UNCHANGED vars
  BY <1>2, <1>7 DEF vars
<1> QED
  BY <1>3, <1>4, <1>5, <1>6, <1>7 DEF Next

(* insert_model, the migration and the foreign keys, on both databases:      *)
(* whatever loads, commands and opens overlap, fail or end halfway, a variant *)
(* has one row while the index stands, PostgreSQL never loses it, and no     *)
(* reference dangles.                                                        *)
THEOREM SchemaIsKept == Spec => []SchemaKept
<1>1. ASSUME Init
      PROVE  Constrained(db)
  <2>1. PICK backend \in Backends : db = EmptyDatabase(backend)
    BY <1>1 DEF Init
  <2>2. DOMAIN db.models = {} /\ db.members = {}
    BY <2>1, NoRowsTable DEF EmptyDatabase
  <2> QED
    BY <2>2 DEF Constrained, Unique
<1>2. Inv /\ Constrained(db) /\ [Next]_vars => Constrained(db)'
  BY StepConstrained
<1>3. Inv /\ Constrained(db) => SchemaKept
  BY DEF Inv, OneRowInPg, Constrained, SchemaKept
<1> QED
  BY <1>1, <1>2, <1>3, InvariantHolds, PTL DEF Spec
=============================================================================
