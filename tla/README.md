# A verification of proviz-elekto in TLA+

proviz-elekto chooses, for each call to a large language model, which model of
which provider ("brand") and which of the provider's API keys serves it. It
keeps a catalog in a database, counts what is in flight and what was used
recently, blocks what a provider has rejected, and either hands the choice to
the caller (`/select`, who calls the provider and sends a `/report`) or makes
the call itself (`/complete`, `/batch`). Everything that is not catalog lives
in the memory of one process and is shared by its threads.

This directory holds TLA+ modules translated from the source, TLC
configurations that check them on small instances, and proofs for TLAPS.
`PROJECT.json` ties each definition to the lines it models and lists runs,
theorems, findings and hazards.

## The system's parts

| Part | Code | State | Operations | What makes it correct |
|---|---|---|---|---|
| usage tracker | `core/usage_tracker.rs` | per (model, key): two atomic counters, sliding windows, learned ceiling, latency average | reserve, cancel, release, anchor, headroom, learn | counters are the calls in progress; the cap is never overrun; nothing leaks |
| reactive limits | `core/rate_state.rs` | id -> end of its cooldown, four maps: models, keys, key quotas, brands | mark, mark_for_ms, is_limited, clear, min_remaining | no block outlasts its bound; a hint is long enough and no longer |
| selector | `core/selector.rs` | the catalog cache, the two parts above, traffic and sticky records | select, the reports, reload | no failure while something can serve; nothing blocked serves; the order of preference holds |
| completion driver | `server/complete.rs` | one request: attempt, exclusions, the candidate it holds | select, call, classify, report, retry | each reservation is released exactly once, attempts are bounded, the status is the last failure's |
| batch queue | `server/batch.rs` | a queue per model, a table of results | submit, debounced flush, poll, download | every accepted entry gets one result; slots are given back once |
| endpoints | `server/lib.rs` | - | select with a wait, report, reload | a select its client abandons gives its slot back |
| catalog cache | `core/selector.rs`, `core/storage.rs` | the snapshot, when it was loaded | expire, reload, write learned limits | it comes to hold the catalog, whatever reloads overlap |
| exchange rates | `core/fx.rs` | rates, a refreshing flag, stamps | stale check, refresh, overlay | one fetch at a time, failures back off |
| latency predictor | `core/latency.rs` | bounded history per bucket | record, predict, persist | bounds on size and age |
| storage, sync, command line | `storage-*`, `*_sync.rs`, `builtin_providers.rs`, `cli` | the database, a file per provider | upserts, imports, edits, migrations | an import loses nothing that was set by hand, and the catalog agrees with the files in the end |
| Python client | `python/proviz_elekto` | a call: its model, what it skips, the requests sent again | call, tool loop, reports in the foreground and background | a lost message costs one slot, a retry avoids what failed |

They interact by calls: the completion driver and the endpoints call the
selector from blocking threads; the selector calls the limits and the tracker;
a report runs against selects in other threads; the batch queue's background
task reports on behalf of calls whose handlers ended long ago. Client processes
reach the server by HTTP requests that are sent again when no answer comes.
Sync tasks of the server and processes of the command line write the same
database, row after row, and the server's cache follows by reloads.

What is hard here is concurrency in memory (every select reads limits and
counters that reports change under it), operations that are made of two atomic
halves (release, is_limited), a choice fixed early and used late (the key, the
ceiling's pool), cleanup on paths that few tests take (a client that goes away,
a failed batch), writers that put back rows they read long before, scores whose
parts undo one another, and durations that are rounded. `PROJECT.json`, "hazards",
lists each at its line with the properties aimed at it.

## Modules

| Module | Models | Role |
|---|---|---|
| `SlotPool` | what the in-flight counters promise: a pool of slots per bucket | abstract specification |
| `UsageTracker` | the reservation half of `usage_tracker.rs`, one action per atomic instruction | implements `SlotPool` |
| `UsageTrackerProofs` | the theorems about it | proofs |
| `RateState` | `rate_state.rs` and the sleep of `select_with_wait` | component |
| `RateStateProofs` | the theorems about it | proofs |
| `UsageWindows` | the windows, the learned ceiling and the drain hint of `usage_tracker.rs` | operators on a bucket, used by `SplitFlow` and `Ranking` |
| `Routing` | which rules a request is looked up by, and the catalog's filters | operators, extended by `Selector` |
| `Selector` | Pass 1 against shared state, the ceiling, reservation and the reports of `selector.rs` | component, implements `SlotPool` |
| `SelectorProofs` | the theorems about it and about `Routing` | proofs |
| `Ranking` | Pass 2: headroom, traffic balance, stickiness, weights | component |
| `Complete` | `complete.rs` with `select_with_wait`, the guards and `apply_report` of `lib.rs` | composes the handlers of several clients over one selector, implements `SlotPool` |
| `CompleteProofs` | the theorems about it | proofs |
| `BatchQueue` | `batch.rs` | component, next to callers of the regular flow |
| `BatchQueueProofs` | the theorems about it | proofs |
| `FxRates` | `fx.rs` and the refresh functions of `selector.rs` | component |
| `FxRatesProofs` | the theorems about it | proofs |
| `CatalogCache` | `reload`, `ensure_cache` and `sync_provider_limits` of `selector.rs` | component, database included |
| `SplitFlow` | the clients of `client.py` against the server's counters, windows and cooldowns | composes both sides over a network that loses messages |
| `SplitFlowProofs` | the theorems about it and about `UsageWindows` | proofs |
| `CatalogTables` | the storage calls on brands, keys, models and members, on both backends | operators on a database, used by `CatalogImport` |
| `CatalogImport` | the load of provider files, the syncs, the commands that edit | composes processes over one database |
| `CatalogImportProofs` | the theorems about it and about `CatalogTables` | proofs |

`MC...` modules give the constants their values for TLC; each `.cfg` is a run.
Each component has a `TypeOK`. Eight of them are theorems, one per module of
proofs; those of `Ranking` and `CatalogCache` document the state for its reader.
No run spends a property on them.

### SlotPool and UsageTracker

`SlotPool` has two variables: who holds a slot of which bucket, and the caps.
`Acquire` needs room below the cap, `Return` needs a slot, `SetCap` is a
catalog reload, which may put the cap below what is already held.

`UsageTracker` splits this as the code does. `TryReserve` is the first load of
`try_reserve` with its test of the cap; `CasSucceeds` and `CasFails` are the
outcomes of `compare_exchange_weak` (which may fail spuriously); `AddTokens` is
the second counter. `Cancel` and `Release` are the first saturating subtraction
of `cancel_reservation` and `release`, `SubTokens` the second, and `PushWindow`
the push that `release` makes under the mutex. `Drain` is a minute passing for a
window's oldest entry. `SetCap` excludes a select in progress, because a select
holds the cache's read lock and reload swaps the cache under its write lock. The
windows are counted, not listed: no property here is about which entry is the
oldest. `apply_report` takes a report's `estimated_tokens` for what it says, and
one that states none for 0 (`Echoes`); what reports left out and what they stated
beyond the reservation are the histories `omitted` and `overstated`. The tokens
that calls have added and not yet given back are counted one by one, as the pairs
of a caller and a number (`TokensOf`): the sum over callers is the size of that
set.

### RateState

The clock moves in instants and a millisecond is `TicksPerMs` of them, so that
the rounding of `as_millis() + 1` is visible. A task's operation is a record in
`op`: about to insert an expiry it worked out earlier, about to remove an
entry it has seen ended, part-way through the ids of a hint, or asleep.
Durations are shrunk; their order (parse < timeout < rpm) is the code's.

### UsageWindows

A bucket is a record: reservations, the ages of finished calls in the request
and the token window, the learned ceiling, how long it has stood, and whether the
provider has announced limits (`Announced`, of `anchor_limits`), which put the
ceiling out of force for good; the ceiling that is then never read again is
forgotten with it. What runs under the bucket's mutex in the code is one operator
here; `release`, which subtracts from the counter before it takes the mutex to push
the call, is two (`CancelledReservation` and `Recorded`), and both `SplitFlow`
and `Ranking` take them as two steps.
Time passes in ticks of which `Span` are a minute; expired entries stay until
somebody drains them, as in the code, but one stands for all of them.

### Routing and Selector

`Routing` translates what the read lock holds still during a select: `RulesOf`
(pin before group before the rules of the step, and every model where a step
has none), `Passes` (all filters of Pass 1 that only the catalog and the request
decide), the ceilings, and `Routed`, the models a select goes through by the
position of their rules.

A select is the record `op[t]`: the models ahead of it and the candidates found,
then the keys of the pool ahead of it, then the key it picked, then the
candidates left to reserve. `Check`, `TryKey` and `Admit` are the three places
where Pass 1 reads shared state, each a step of its own; `Decide` is the
ceiling (or the failure), `Reserve` one `try_reserve`. The score is any score:
`First` is what the sorts after scoring leave open. The reports mark, clear and
release as the code does, and `ReportRateLimit` is followed by
`ReportQuotaDetails` in a step of its own, as in `apply_report`. A cooldown may
end at any time.

Two history variables serve the properties only: `free[t]`, the buckets that
could have served at every moment since the select began, and `closed[t]`,
the limits in force at every moment since it began.

### Ranking

The score as integers: a weight is a percent, a component at most `Unit`.
`HeadroomFast` counts the window, what the provider last reported as remaining
and the calls in flight; `TrafficScore` is the min-max normalisation of what
each brand is due over what it was given; `StickyBonus` is scaled back by
`TotalWeight`, since the code adds it after dividing by the weights' sum. The
other components are a model's `Merit` and stand still. `ReadHeadroom` reads one
member at a time while other selects reserve; `Rank` picks and reserves;
`RecordTraffic` and `RememberModel` are the records the next selects read. A
report is three steps: the slot is given back, the call recorded (until then it is
in `Pushing` and counts nowhere), the provider's word kept. The
members have no caps or cooldowns, which are `Selector`'s. `free[t]` has the
models with room ever since a select began.

### Complete

A handler is the record `op[t]`: waiting for its select job, asleep, with a
candidate, in the provider's call, waiting for the report job, or with its
answer. Each `.await` of the code is a state, since a client may disconnect
there: `Disconnect` says who owns the slot at that point. Before the call it is
the guard (`CompletionReservation`), during a select or a report the job running
in its own thread, which goes on alone (`LostSelect`, `lost_report`) and whose
unclaimed result is dropped with its reservation (`DropUnclaimed`). Select and
report are one step each here, since `Selector` looks into them. Three timers
per model count the milliseconds its blocks have left, and `Tick` counts them
down together. `failed` and `stated_ms` are histories: the models that have
failed a request, and what is left of a model's last Retry-After. What comes of
preparing a call (an endpoint without URL, a missing key, a payload the
provider's API cannot express) is a choice from `Setup`.

### BatchQueue

`Submit` to `Respond` are the awaits of `handle_batch_submit`; `Enqueue` and
`Respond` are the two ends of the time the queue's mutex is held. The flush task
is `WindowOver`/`Notified` (which branch of `select!` woke it) and `Drain`. The
code's queues, one per model, are one sequence `queue` in the order of arrival,
of records with the client, the model and the key; `Drain` takes it apart by
model. A job is the set of its clients with the key of the first of them, and
has the stages at which `flush_model_group` returns early (`RejectAll`) and ends
in `Finish`, unless the answer to one of its requests never comes (`Stall`): the
HTTP client has no timeout. `releasing` counts the detached reports that have not run yet.
Callers of the regular flow are there because a batch entry's reports change
counters that they depend on.

### FxRates

`Check` reads the two ages, `Claim` is the compare-exchange, then `Attempt`,
`Receive`, `Install` and `Save` follow the refresh through memory and
database; `Finish` clears the flag. A table is the number of its publication.
The refresh of the server's start (`Eager`) asks for no permit. `Restart`
keeps the database and loads what is there.

### CatalogCache

Tables are counters of their edits: `models` stands for what a reload reads
first, `members` for what it reads last, `limit` for a model's rate limit.
`Edit` stands for the CLI, the sync tasks and providers that announce another
limit. Reloads in two threads interleave with each other and with the three
steps of `sync_provider_limits`.

### SplitFlow

A client's call is the record `op[c]`: it asks (`Gate` and `Reserve`, the two
halves of the server's select), has an answer under way, runs its provider call
and reports. A request or answer that is lost is sent again (`LoseAnswer`,
`LoseRefusal`, `ReportUnanswered`, `LoseReport`). If the client times out while the
server is at work, the blocking job goes on in a thread of the server, a record
`op[t]` of the same shape, beside the request that repeats it: `TimeOut` hands the
select over, `ReportTimesOut` the report. A select nobody awaits ends like any other
and `DropUnclaimed`, the guard, gives its slot back. Successes are reported by
background threads (`transit`) that may deliver late, twice or never; a thread of
the server gives the slot back, records the call (`Push`), raises the ceiling
(`Outcome`) and keeps the limits that came with it (`Announce`), each a step of
its own. A failure's report is two steps, its halved ceiling and its cooldown being
one with the subtraction; the catalog's part of `sync_provider_limits` is one
step here and has its own in `CatalogCache`. Clients
die and the server restarts with empty memory. A call that was refused knows
whether a hint came with it (`refused` or `hinted`). Who owns a slot is `owed`
in the call, 0 or 1, `transit` for background reports, and `leaked` for what
nobody gives back any more; `strays` counts reports that came for a slot the
server did not count. `hot` and `peak` are histories of a call: models whose
failure it has just reported, and the ceilings it was let in under.

### CatalogTables and CatalogImport

`CatalogTables` has the storage calls as operators on a record of tables, with
the two backends side by side: SQLite's `INSERT OR REPLACE` deletes the row and
what refers to it, PostgreSQL's `ON CONFLICT (id) DO UPDATE` keeps both and
refuses a second id for a variant. A table is a partial function: a row is there
or it is not. A switch is the 0 or 1 of its column.

`CatalogImport` has processes over it. A sync fetches, judges the size of the
roster, writes the provider's file and loads; a load (`LoadBrands` to
`DisableMissing`) reads brands and models once and then writes call after call;
a command opens the database with its migration, finds its row and writes.
`Abort` ends any of them between two calls. Processes of the same kind differ
only in what they load, so that `SyncLoads` and `Loads` are all a sync or an
endpoint adds; what a load may do beyond inserting is in its `flags`. `file` is
partial as well, a brand without an entry has a file that was cut short.
`settled`, for models, and `settled_active`, for brands, are histories: what
stays of an edit that was made while nobody was at work on rows read before it.

## Runs

| Run | Question | Bounds |
|---|---|---|
| `usage_tracker` | are counters exact and caps kept under every interleaving? | 3 callers, 1 model, 2 keys, caps none/1/2 |
| `rate_state` | is a hint long enough, not too long, a block bounded? | 2 tasks, 2 ids, 4 instants, 2 per ms |
| `selector` | are failures justified, preferences, ceilings and the request's terms kept, slots those of `SlotPool`? | 2 tasks, 2 models of 2 brands, 1 key, 6 requests |
| `selector_keys` | are limits, siblings and the order of keys respected? | 2 tasks, 2 models, 2 keys |
| `ranking` | do races and bonuses overrun a quota by a call each at most, and does a warm model stay warm? | 2 tasks, 3 groups of 2, traffic of 4 calls |
| `complete` | is every slot accounted for, the answer truthful, no failed model called again, a key's Retry-After kept, every request ended? | 2 clients, 2 models, 2 attempts, fair |
| `split` | do counters stay within what was lost, does a learned ceiling hold and leave room, do retries go elsewhere? | 1 client, 2 server threads, 1 model, 1 retry, 1 fault, fair |
| `batch` | is a full queue always flushed, no entry lost, every one brought to a result? | 2 clients, 1 caller, 2 models, flush at 2, fair |
| `batch_cap` | does a batch respect the cap of regular calls? (no) | 1 client, 2 callers, 1 slot |
| `fx` | one lazy refresh at a time, fetched rates never replaced by the seed, stale ones refreshed whatever failed? | 3 threads, TTL 3, cooldown 1, fair |
| `catalog` | does the cache come to hold the catalog and the announced limits? | 2 threads, 2 limits, 2 edits, fair |
| `imports` | do edits outlive loads, do the tables keep what the schema asks, do references stay (PostgreSQL), does the catalog come to agree with the files? | 2 syncs, 1 editor, 2 brands of 1 variant, 2 disturbances, fair |

Three callers are enough for `UsageTracker`: an overrun needs two that race for
the last slot and a third whose release moves the counter back to the value the
first expects. Two tasks are enough for the races of `RateState`, `Selector`,
`Ranking`, `Complete` and `CatalogCache`: each is between one
task's reads and another's write. The six requests of `selector` leave both
models in the pool, only one within the group's ceiling, only an excluded fast
one besides a slow one, only the one that does not train, none (a group without
members) and no group; `selector_keys` has the key pool. The groups of `ranking`
are one for which cost is all, one that is not sticky, and one whose overrides
leave the weights a sum of 84, the least for which the bonus outweighs the
traffic; a group of two is enough because a score is compared pair by pair.
`Complete` has one model with a single slot, whose key may be missing, and one
with a key pool, whose payload may be bad; one request fails over and one is
pinned and waits, with a budget of two milliseconds, so that exhaustion, waiting
and failover all happen; a Retry-After is absent or longer than the default
cooldown, so that a block can be replaced by a shorter one.
`MaxAttempts` is smaller than the code's 4, and `MaxRetries` of `split` than its
2, since what follows depends only on whether one is left. `split` has two slots
and a ceiling to learn, so that both refuse. One client is enough to race: the
select it repeats runs beside the first, and the reports of the calls it made before
run on in the threads; with a second client the states are too many for TLC. The
client runs the tool loop, whose last report is handled differently, and a call of
it is also one of `call`. Two threads hold a job without its client and the report of
another call, or two reports. That any number of clients and threads keep the safety
properties is proved. In `batch` the queue fills, is
flushed, and fills again before the flush task has used the wake-up it stored.
`FxRates` needs two selecting threads for the flag and a third that refreshes
without it. In `imports` one sync scrapes and loads all providers, the other
loads its own, and two of the three processes are at work at a time (`MaxBusy`):
each wrong write is over what one other process did since the read.
`Cooldown`, `RetryMs`, `DrainMs`, `REFRESH_TTL`, `RETRY_COOLDOWN`, `Span`,
`TrafficSpan` and `StickyTtl` keep the order of the code's durations, not their
size. `ranking` and `selector` treat the tasks as interchangeable (SYMMETRY),
as do `usage_tracker`, `rate_state` and `selector_keys`; none of these checks
liveness. The clock of `RateState` stops at `MaxTime`, and in `imports` nothing
is left to do once a roster has become too small to load; these two runs do not
check for deadlock, all others do.

`batch_cap` is expected to find a violation: it states what a document of the
repository says, and "findings" in `PROJECT.json` quotes it. It is a `code_bug`:
the code gives back a slot that is not the batch's.

`FreeBound`, `WindowBound`, `MisstateBound`, `MaxTime`, `MaxReports`, `MaxPublished`, `MaxEdits`,
`MaxFaults`, `TrafficBound`, `MaxBusy` and `MaxDisturbances` are bounds of the
models, not of the code. `WindowBound` limits the calls of a bucket with a ceiling in
force, in flight, in the window or between them, so that selects wait for time to
pass, and is above what `CeilingHeld` allows of a ceiling of one; `FreeBound` limits
those of a bucket without one, of which it says nothing; `MisstateBound` is the
error of a counter after which reports state what they reserved; `MaxReports` keeps clients from
submitting while that many detached reports wait; `MaxPublished` ends the
provider's publications, `MaxEdits` the edits; `MaxFaults` is the number of
losses, deaths and restarts; `TrafficBound` stops selects while the traffic
window holds that many; `MaxDisturbances` counts commands, refreshes, changes of
a roster and failures together.

### Disagreements seen while modelling that no run keeps

Each follows from the model's actions or was met while translating the lines;
the one above is kept as a run.

- `usage_tracker.rs:256`: `release` subtracts the call from the in-flight
  counter before it locks the windows and pushes it there, so a select in
  between counts it in neither. docs/selection-algorithm.md:119-122 says the two
  are added to prevent "over-booking under concurrent load". `Push` is that
  second step, and `CeilingHeld` and `QuotaSpilled` count such calls: they bound the
  overrun by the requests at work, not by the selects among them.
- `server/lib.rs:230`: a report without `estimated_tokens` gives back 0 tokens,
  and nothing ever lowers the counter again. README.md:259 says "until the next
  selection clears it". `TokensWithinReports` bounds what reports left out from
  above and asserts of neither that it stays nor that it is cleared.
- `server/main.rs:523`: the client that batch jobs use has no timeout, and
  `poll_until_complete` tests its deadline between requests only: a connection
  that stalls keeps the entries of its group pending for ever, though
  batch.rs:264 gives a job an hour. `ResultsArrive` excepts such jobs.
- `rate_state.rs:48`: `is_limited` gives its guard back before it removes an
  ended entry; a cooldown marked in between is removed with it.
- `rate_state.rs:32`: a mark replaces the entry whatever it holds, so the
  timeout of an older call cuts an hour's block to half a minute.
- `selector.rs:888`: candidates beyond the latency ceiling are dropped before
  the reservation, so a select that loses the race for those within it fails
  although a slower model was free throughout (docs/selection-algorithm.md:22-26:
  "AllModelsExhausted is never returned while any model is still reachable").
- `server/lib.rs:130`: `max_wait_ms` is spent per select: a handler that goes on
  after a failure waits again, for the full budget.
- `batch.rs:203`: a group runs on the key of its first entry, whatever keys the
  others were selected for.
- `batch.rs:143`: the wake-up that a full queue stores while the flush task is
  busy ends the next window early, for a queue that is not full.
- `fx.rs:213`: ages are read under a lock that is released before the flag is
  taken, so a delayed select may start a fetch right after another ended
  (fx.rs:14-16: "at most once per REFRESH_TTL").
- `selector.rs:208`: tables are saved in any order, and a restart may load the
  older one.
- `selector.rs:318`: reloads do not exclude each other; one that read its tables
  before an edit may replace what the forced reload after the edit installed,
  until the cache expires (`EditsArrive` says that it then comes right).
- `selector.rs:769`: the key is chosen in Pass 1 and never again: a select whose
  key is taken before its reservation fails although another key of the same
  model was free throughout (docs/selection-algorithm.md:22-26, as above).
- `selector.rs:1373`: without a key pool a Retry-After blocks the model, and the
  success of a call that was already running clears it (CHANGELOG.md:8: "honour
  Retry-After"). `KeyRetryAfterHonoured` says that with keys it is kept, until a
  later quota failure states none.
- `selector.rs:1250`: a quota failure without a Retry-After blocks for the default
  minute (`unwrap_or(60_000)`) and replaces the hour that an earlier failure of the
  same key stated.
- `batch.rs:570`: a submit that is refused with a 400, or abandoned during its
  select, leaves its slot taken (README.md:107: "Server-managed calls release
  slots on success, failure and cancellation").
- `openrouter_sync.rs:157`: a sync loads all providers with `disable_missing`, so
  it disables another provider's models that are not in that provider's file,
  though :100 speaks of "the openrouter brand's own entries" and
  `builtin_providers.rs:178` calls such a model "usually an accident, not an
  intentional removal".
- `storage-sqlite/src/lib.rs:543`: `INSERT OR REPLACE` deletes the row first, and
  by ON DELETE CASCADE the model's group members, rules and measured quality: on
  SQLite every load empties the groups. `ReferencesStayValidInPg` holds of the
  other backend only.
- `storage-pg/src/lib.rs:376`: the update of a row that exists leaves out
  `max_output_tokens`, `tpd_limit`, `tpm_limit_month`, `rps_limit`,
  `avg_latency_ms` and `notes`, which SQLite writes.
- `builtin_providers.rs:316`: a key is added only with a new brand, so a brand
  whose load ended between the two never gets one (`Abort` after `EnterDir`).
- `usage_tracker.rs:355`: expired entries that nobody has drained make the hint 0,
  and the bucket it asks is the one without a key: where models have keys the
  answer is always the two seconds of "nothing known".
- `usage_tracker.rs:412`: "this will recover within 60s" is not so once a provider
  has reported what remains: that number has no age, and a model reported empty
  stays behind until one of its calls succeeds.
- docs/selection-algorithm.md:24-25: "always route to the least-over-quota option":
  headroom is 20 of 100, and cost, quality, latency and traffic can outweigh it.
- docs/selection-algorithm.md:194: "Mistral models are always tried before Groq
  models": a brand's priority only breaks ties of the score.
- `selector.rs:36`, the sticky bonus: it is added after the weights were divided
  by their sum, so with overrides that leave a sum below 84 the traffic balance
  outweighs it, and with little traffic the min-max balance gives every call to
  the brand with the greater weight.
- `usage_tracker.rs:617`: "Callers must filter on `< 0.0`": the selector does not.
- `models.rs:378`: the doc of `pin_model` lets a bare slug match; `selector.rs:594`
  refuses it.
- `models.rs:185`: a rule's `requires_fn_call` is stored and never read, and
  deleting the last rule of a step opens it to every model.
- `client.py:724`: a success reported in the background may arrive after the
  failure of a later call and clear its block; `RetriesElsewhere` says what is
  left of "blocked in proviz before the retry select() call" then.
- `client.py:671`: the client's HTTP timeout may end before the server's select or
  its wait for a model: the select is sent again, races the first one, which is given
  back by its guard, and may be refused for it. A report whose answer is lost or late
  is applied twice: it frees a slot twice and halves a learned ceiling twice.

## Fairness

- `complete`: blocking jobs are run by tokio's pool, a call ends by its
  timeout (`timeout_secs`, with a default), and time passes. Clients owe
  nothing: they may disconnect or not.
- `batch`: the handlers go on, windows end (a sleep), a job whose requests are
  answered ends, by the deadline that `poll_until_complete` tests between them at
  the latest (nothing is assumed of a job whose request stalls), and the mutex is
  tokio's, which queues its waiters first in, first out: hence strong fairness
  for those who wait for it. That a detached report runs is not needed.
- `fx`: selects keep coming, a refresh goes on, the provider answers now
  and then, and the server is not restarted for ever.
- `catalog`: selects and reports keep coming, what was begun goes on, time
  passes, and the database does not fail for ever.
- `split`: time passes, the server's threads finish what they have begun, what is
  under way for a client goes on (`Proceed`: the select it waits for ends, its answer
  arrives, the provider's call ends by its HTTP timeout, the report arrives), and a
  success that is not lost gets a thread. That one is strong fairness: all
  threads of the model may be busy at times, and tokio's pool, whose bound the
  threads stand for, keeps jobs that wait for one in a queue. Clients need not go on
  calling.
- `imports`: the sync tasks loop for ever and a load goes on once begun; failures
  end, since `MaxDisturbances` counts them. `Converges` asks only of behaviours in
  which some sync goes on loading all providers.

## What is proved

Eight modules of proofs, one per component except `Ranking` and `CatalogCache`. Each
theorem holds of every value of the constants that satisfies the component's
ASSUME, which TLC evaluates on the instances of the runs; nothing else is assumed.
Every proof follows the same plan: the type invariant, an inductive invariant that
contains the property or implies it, one lemma per action or group of actions, and
a last step in temporal logic.

`UsageTrackerProofs` (any finite set of callers; any models, keys, caps, estimates):

- `CountingCorrect`, `CasWithinCapCorrect`: a bucket's counter is the number
  of calls that hold its slots, and a caller's test of the cap is still valid
  when it swaps. The two are proved together as the inductive invariant `IInv`:
  counting needs that the subtraction never saturates, which follows from the
  counting itself; the validity of the test needs that caps do not move under a
  select.
- `CapNeverOverrun`: the action property `CapRespected`, from `IInv` and the
  lemma that only a successful swap raises a counter.
- `TokensCorrect`: `TokensWithinReports`, inductive with the types. A step changes
  what one caller is charged (`Due`) and the counter by as much, or records the
  difference in `omitted` or `overstated`; a subtraction that saturates leaves the
  counter below what is charged by no more than was overstated. The size of the set of pairs takes the place of a sum, which would
  need induction.
- `ImplementsPool`: the protocol implements `SlotPool`. A successful swap is
  `Acquire`, the first subtraction is `Return`, all else stutters.

`RateStateProofs` (any threads and ids, any table of cooldowns, any Retry-After, any
length of a millisecond in instants):

- `BlockBoundedCorrect`, `RetryHintCorrect`, `SleepNotTooLongCorrect`: the three
  properties of the run `rate_state`. None is inductive as it stands, because
  each speaks of one moment of an operation. `IInv` adds what holds on the way:
  an expiry that is worked out but not yet inserted is bounded (`InsertSound`);
  a hint that is under way has read a true upper bound and names ids that are
  free by then (`HintSound`), which its sleep inherits (`SleepSound`). The
  rounding is one lemma, `RemainingMsBounds`; that other threads cannot spoil
  what a task knows without disturbing it is two, `SoundKept` (time passes,
  entries go) and `SoundUnderMark`.

`SelectorProofs` (any catalog, pools of keys, requests; any finite set of tasks):

- `CountersAreHolders`, `ImplementsSlots`: a bucket's counter is the number of tasks
  that hold a slot of it (`Counted`), so `Selector` implements `SlotPool`: this is
  where a report's subtraction is shown never to saturate.
- `BlockedStaysOut`, `KeysInOrder`, `ServedWithinTerms`, `SlowServesAsFallback`: what a
  select may serve. `SelectInv` says for each select what it knows of the buckets
  it has found and the keys it has passed: they meet the request's terms
  (`Allowed`), no limit has stood on them all the time (`Spared`), an earlier key
  was not free all the time (`InOrder`), and who is left to reserve is within the
  ceiling or the fallback (`WithinOrFallback`). All are about `free` and `closed`,
  which only shrink, so what other tasks do cannot undo them.
- `SiblingsStayReachable`: from the limits that each report marks.
- `FailuresJustified`, `PrepaidServesFirst`, `CeilingIsKept`, the converse: no bucket
  that could have served all the time is overlooked (`Covered`): it is still to be
  looked at, or among those found. They hold for pools of any length, of the buckets
  that a select cannot pass by (`FirstKey`): those of a pool's first key, and of a
  brand without keys. More would be false: a select stops at the first key that can
  serve, and if that one is taken before its reservation it fails though a later
  key was free throughout (`selector.rs:769`, above).

`FxRatesProofs` (any threads, eager ones among them, any periods):

- `RefreshSingleFlight`: to know how many refresh is too little, so `OneFlies` says who:
  the flag is set exactly while one thread, the same all along, is in a lazy refresh.
- `RatesLastGoodStays`: a thread that is about to save has installed its table first
  (`SavedAfterInstall`), so memory is past the seed whenever the database is, and a
  restart loads what was saved.

`CompleteProofs` (any models, requests, caps, cooldowns, attempts; any finite set of
clients):

- `SlotsAreAccounted`: `Counted`, one lemma per group of the handler's awaits
  (`SlotStep`: a slot is taken, given back or kept), `Disconnect` at each of them.
- `ImplementsSlots`: so `Complete` implements `SlotPool`. A select that finds a model
  is `Acquire`: its client had no slot, and the counter, which is the number of
  holders, is below the cap. The end of a report job, a disconnect before one and a
  dropped result are `Return`; all else stutters. No run checks it: the refinement
  follows from `SlotsAccounted`, which `complete` checks, and the caps.
- `AnswersAreTruthful`, `FailedStayOut`, `AllAttemptsAreMade`: `RequestInv` relates where
  a handler is to the history of the models that failed it: what its answer says
  (`Truthful`), that those it may still try are apart from those (`Apart`), and that
  its attempts are as many as the failures (`Counts`), which a wait and a repeated
  select do not change.
- `KeyRetryAfterIsHonoured`: what is left of a key's last Retry-After is at most what is
  left of the block that enforces it (`Stated`). The exception in the property, a
  quota failure that states none, is what the code does.

`SplitFlowProofs` (any finite sets of clients, threads and models, any caps, windows,
retries and faults), with lemmas about `UsageWindows`:

- `SlotsBalanced`: `Balanced` (counter <= slots due <= counter + strays) is inductive
  with the types and the shape of a call. Each step leaves a model's counter alone,
  takes a slot for a call, gives back one that is due, gives back one that is not
  (a stray), or forgets all at a restart; five cases (`Moved` and `Forgotten`) in place
  of one per action and message fault. A job handed over to a thread moves nothing
  (`Handed`).
- `CeilingIsHeld`: the load of a model is the calls in its window and the jobs at work
  on it, those that record a call and those that race for a slot (`Busy`). `Within`
  says that load and dues stay within the ceiling that a racing select saw, plus the
  number of clients and threads and the strays. A report takes a call out of the dues as
  its job starts work, and out of work as the call enters the window, so that the
  sum stays as it was although the counters count the call nowhere in between; a
  select that ends gives up its place in the race for the slot it takes. That is why
  a ceiling that is only read at the gate still holds up to what is at work. A
  ceiling may also rise, or be put out of force, between gate and reservation: the
  history `peak` follows it (`Sees`).
- `FailedElsewhere`: a model whose failure a call has just reported is blocked
  (`HotBlocked`), until time passes or a late success lifts the block.

`BatchQueueProofs` (any clients, callers, models, keys, caps, batch size):

- `FullQueueIsSignalled`: inductive with the types.
- `NoEntryIsLost`: `Apart` says that an entry is in the queue once or in one job, not in
  both, and that while it is its client waits and has no result. `Drain` groups by
  model: each model has a first entry (`FirstOfModel`), so each entry has a group.
  The run drains queues of few entries; the theorem has any number of models in one.

`CatalogImportProofs` (any brands, variants, processes, files and failures, both
databases), with lemmas about `CatalogTables`:

- `SchemaIsKept`: on PostgreSQL, one row per variant is inductive with `Owned`, that
  an id is of one variant (`OneRowInPg`). On SQLite the index goes and comes back
  while others write, so it is what stands or falls with it that is inductive
  (`Constrained`, with the foreign keys): an insert deletes what is in the way and
  what refers to it, an update leaves the variant alone, and `Reindex` finds the
  rows unique or fails.
- `EditsOutlive`: `Safe` says that the database keeps what is settled (`SafeRows`,
  `SafeBrands`) and that every process which holds rows it read holds the settled
  ones as they are (`Respects`, `RespectsBrand`), since it will write them back; a
  row in its scope that it did not hold it would insert anew. An edit settles
  only while nobody holds anything, which is how `Respects` begins, and `Follows`
  says that a load's own steps keep it.
- `ReferencesStay`: an action property of the storage calls of PostgreSQL.

Each module proves `TypeCorrect`, `Spec => []TypeOK`, first or with its invariant.

What stays with TLC: the liveness properties (`Settles`, `ResultsArrive`,
`StaleIsRefreshed`, `EditsArrive`, `LimitsSettle`, `Converges`, `LearnedNeverStarves`),
since fairness and ENABLED are out of the prover's reach; and `QuotaSpilled` and
`WarmModelKept` of `Ranking`. Both compare scores, which contain sums over the traffic
window and the brands (`Recent`), and both are about a candidate of the highest
score: that such a sum is a number, and that a finite set of scores has a greatest,
needs induction over the set, which the provers cannot instantiate. They hold in the
run for its weights and groups.

## What is not modelled, and why

- Quality, cost, latency and slow headroom are a constant in `Ranking`'s score and
  any score in `Selector`: they are floating-point arithmetic on data that a
  select does not change.
- The one-second and monthly windows, the values of `anchor_limits` (that there are
  some is `announced`) and the latency average of `usage_tracker.rs`: the same shape
  as what is modelled, or arithmetic.
- The latency history (`latency.rs`): its lock is held from the sample to the end
  of its save, so nothing interleaves; the regression is floating-point.
- The rest of storage (rules, steps, rates, samples, events) and of the command
  line: one statement per call, with no invariant between rows; row mapping and
  argument parsing are data.
- Fetching, scraping and parsing of the providers' catalogs, payload building and
  parsing (`complete.rs`, `systemone.rs`) and placeholder expansion keep no state.
- The polling thread of the Python batch client, and the scripts.

## Plan

The safety properties of the runs are theorems but for those of `Ranking`, for the
reason above. `Routing`, `UsageWindows`, `CatalogTables` and `Ranking` declare no
recursive operator, so that they can be cited from proofs.

Models, if the code grows there: an import that also writes rules and groups, and
`Selector` with `Ranking`'s score in place of any score.
