# cloudkitty in TLA+

TLA+ modules for the parts of cloudkitty that decide *what gets rated, when, by
whom, at which price, and what a reader sees of it*: the processors that rate
scopes period by period, the API operations that interfere with them, the
reprocessing of past periods, the fetchers and collectors that usage comes
from, the rating modules and their rules, and the storage drivers of both
versions. TLC checks the modules on small instances; TLAPS proves the main
properties of the core for any number of processes, scopes and periods.

Every module is a translation of the source, never of the documentation. Where
a document, a comment or a docstring promises something the code does not do,
section 6 quotes both.

## 1. The system

A deployment runs API processes, `cloudkitty-processor` processes (each a
cotyledon service manager that forks `CloudKittyProcessor` and
`CloudKittyReprocessor` workers), one SQL database, one storage backend for
data points, a message bus and a coordination backend (tooz).

| Component | State it keeps | Operations | Talks to |
|---|---|---|---|
| `CloudKittyProcessor`, `Worker` (`orchestrator.py`) | the list of scopes of its cycle, the scope it has locked, the data points its storage client has not sent | one cycle: fetch scopes, shuffle, try each lock, rate period after period, release | fetcher, state table, collector, rating modules, storage, tooz |
| `ScopeEndpoint` (`orchestrator.py`) | the scopes left in the message it handles | `reset_state`: for each scope lock, delete, set the timestamp, release | message bus, storage, state table, tooz |
| `CloudKittyReprocessor`, `ReprocessingWorker` (`orchestrator.py`) | as the processor, for schedules | one cycle over the unfinished schedules: lock, clean the window once, rate period after period | schedule table, state table, collector, storage, tooz |
| State table (`storage_state/`, class `StateManager`) | one row per scope and configuration: last processed timestamp, active flag, fetcher, collector, scope key | get/set timestamp, get/set activity, create, list | SQL |
| Schedule table (`ReprocessingSchedulerDb`) | one row per schedule: scope, window, progress, reason | persist, list, update progress | SQL |
| Scope API (`api/v2/scope/state.py`) | none | GET, PUT (reset), PATCH, POST | state table, message bus |
| Task API (`api/v2/task/reprocess.py`) | none | GET, POST | both tables |
| v2 storage (`storage/v2/*`) | the data points; the buffer of the client | push, retrieve, total, delete | InfluxDB 1 and 2, Elasticsearch, OpenSearch, Loki |
| Summary and dataframes (`api/v2/summary`, `api/v2/dataframes`) | none | totals by groups, listings page by page, push of frames | storage |
| HashMap (`rating/hash/`) | services, fields, groups, mappings, thresholds; in a worker the rules it loaded | administer; load; price a data point | SQL |
| Rating modules, PyScripts (`rating/`) | enabled flag and priority per module; scripts; in a worker the modules and scripts it loaded | enable, set priority, administer scripts, load, rate, quote | SQL, message bus |
| Fetchers, collectors (`fetcher/`, `collector/`) | none; `metrics.yml` | find the scopes; retrieve a metric for a scope and a period | Gnocchi, Prometheus, Keystone |
| v1 storage and API (`storage/v1/`, `api/v1/`) | rows, or measures and states; the periods in memory | append, commit, total, list, tenants | SQL, Gnocchi |
| Local time (`utils/tz.py`) | none | conversions, periods, months | - |

How they interact, and what is hard about it:

* **Processors share everything and trust one lock.** Each processor of each
  worker loads the same scopes and walks them in a random order. Only the tooz
  lock of a scope keeps two of them from rating one period twice. The row, the
  active flag and the clock are read at different times under that lock.
* **The row and the data are in different stores.** A period is pushed to the
  backend, then its timestamp is written to SQL. A crash or an exception may
  come between the two, and the backend's answer may be lost.
* **The API changes the tables under the workers.** PATCH writes the active
  flag without any lock. PUT sends a fire-and-forget message; its handler
  takes the lock with `blocking=True`.
* **The storage client remembers.** A failed write leaves data points in the
  client object shared by all scopes of a process; the next push, made under
  another lock, sends them. Loki's client does not even report the failure,
  and keeps points of a push that succeeded.
* **Reprocessing deletes first.** The window is erased before its first period
  is rated again: until the schedule is finished the data are incomplete, and
  the schedule row is all that remembers it. The lock it uses is that of the
  schedule, not that of the scope, so that a processor, a reset and a
  reprocessor may be at work on one scope.
* **A row is found by columns that may be NULL.** Its first reader gives it its
  own scope key, fetcher and collector; the lookup, the update and the creation
  are transactions of their own.
* **Usage and rules are read query by query.** Scopes, resources, measures,
  modules, priorities, lists of rules and the rules themselves come from
  separate queries, while users and operators change what they answer.
* **Rules have a past.** A mapping is valid for a time, and what it said of a
  period that was rated is settled. The API validates a change against the
  clock and the rule, and writes it in another transaction; the database no
  longer constrains the rules.
* **Schedules have no identity.** Their rows are looked up by scope and window,
  in a new session for each access, by workers and by the validation of POST.
* **Readers page by offset** through a backend that is written meanwhile, and
  the drivers cut an answer into chunks, shards and buckets of their own.
* **A period is an hour of UTC and is computed on the wall clock**, which
  repeats or skips one when summer time ends or begins; whether it has waited
  long enough is told by comparing what the wall clock shows.

What makes each component correct is listed with its module in section 3.

## 2. Modules

```
RatingStore            time, choice of the next period, storage backends
  |-- ScopeProcessing          processors, reset endpoint, scope API
  |     |-- ZonedProcessing            the same on local times (with LocalTime)
  |     |     |-- MCScopeProcessing            sp_*.cfg
  |     |     '-- ScopeProcessing_proofs       types, locks, waiting, gaps, overrun,
  |     |                            writes, deletions, duplicates, what clients
  |     |                            hold, refinement of RatingLedger, periods
  |     |                            and months on local times
  |     '-- (INSTANCE) RatingLedger    what rating promises of a scope
  |-- Reprocessing             task API, schedules, reprocessors
  |     |-- MCReprocessing             rp_*.cfg
  |     '-- Reprocessing_proofs        types, disjoint windows, progress, no loss,
  |                            only ends are stored twice
  '-- RatingSystem             both together, by INSTANCE
        |-- MCRatingSystem             system.cfg
        '-- RatingSystem_proofs        no loss and one copy, from the theorems
                               of both parts
LocalTime              conversions, bounds of periods and months

RatingRules            HashMap mappings: validity, changes, deletions
  |-- MCRatingRules            rules.cfg
  '-- RatingRules_proofs       types, overlaps, the settled past
HashMapRating          HashMap: loading rules and pricing points
  |-- MCHashMapRating          hashmap.cfg
  '-- HashMapRating_proofs     no stale rule, none missed, prices by the book
RatingModules          modules, priorities, scripts, quotes
  |-- MCRatingModules          modules.cfg
  '-- RatingModules_proofs     modules, their order and scripts of a worker
ScopeRows              the rows of a scope and their columns
  |-- MCScopeRows              rows.cfg
  '-- ScopeRows_proofs         types, nothing twice, one row each
Collection             fetchers, collectors, threads, metrics.yml
  '-- MCCollection             collect.cfg
StorageReads           v2 drivers and API: pushing, listing, totals
  '-- MCStorageReads           reads.cfg
V1Storage              storage and reports of version 1
  |-- MCV1Storage              v1.cfg
  '-- V1Storage_proofs         what is rated is stored, and once; totals agree
```

Operators named *Faulty variant* in a comment are the code with one plausible
bug in it (a dropped guard, a lock not released, two steps in the wrong order).
No specification uses them; replacing the sound operator by its variant must make TLC
report the property that is there to notice.

### What one step is

An action is one access to something another process can see: a query or a
transaction of the database, a request to the storage backend or to an
external service, a call of the lock service, a message. Code between two
accesses is local and belongs to the
action before or after it. Between any two actions every other process may run,
and the process may die where the module says so.

### What is abstracted

* **Time** is counted in periods. A timestamp is the index of the period that
  starts there; the wall clock `now` has `TicksPerPeriod` instants a period.
  This clock has no offset that changes. What becomes of it on local times is
  what `LocalTime` and `ZonedProcessing` are about: the bounds of periods are
  right in every zone, and so is the time at which they are given to a worker,
  but around the end of summer time, where it is wrong by at most what summer
  time saves. `WaitRespected` is to be read with this in mind.
* **Data** are *frames* in the modules about processors: the data points of a
  scope in a period, as the number of copies the backend holds. A push of
  several chunks that fails half way is not distinguished there from one that
  fails before or after all of it. `StorageReads` has the points, chunks
  and buffers; `V1Storage` the points one by one.
* **Rating and collection** are inputs of the processor: the set `Idle` names
  the frames for which collectors find nothing (`NoDataCollected`); any
  exception is `ProcessingFails`. Where they come from is modelled in
  `Collection`, `RatingModules` and `HashMapRating`, each with a simple
  processor around it.
* **Locks**: tooz releases the locks of a process whose session ended, and no
  others. The expiry of a lease under a live but slow owner is not modelled.
* **SQL**: each session is atomic; a query without ORDER BY may answer in any
  order, and `first()` any matching row.
* **Numbers**: quantities, costs and prices are integers (halves where a
  conversion rounds); decimals of the database are not modelled.

## 3. Correspondence with the code

### RatingStore

`CheckTimeState` is `utils.check_time_state`: without a row, the start of the
current month; otherwise the period after the row's if the waiting periods are
strictly past (`Due`), else nothing. `Commit` is a successful push: InfluxDB replaces a point with
the same time and tags, the other backends append. `DeleteFrom` and
`DeleteBetween` are the two ways the storage is asked to delete, with what each
client really selects: the Elasticsearch and OpenSearch queries use no filter
but dates (`Selects`), Loki compares the *end* of a period and takes no end for
the current instant, Elasticsearch compares the end of a document with the end
of the range and InfluxDB its start (`InOpenRange`, `InClosedRange`).

### ScopeProcessing

| Variables | Code |
|---|---|
| `lastProcessed`, `active` | the columns of `IdentifierState`; `Never` is the absence of a row |
| `frames` | the backend |
| `lock` | tooz locks `scope_id + ...`, one per scope |
| `pc`, `todo`, `cur`, `ts` | the position of a processor in `internal_run`, `process_scope` and `Worker.run`; `self.tenants`; the scope; `timestamp` |
| `buffer` | points or documents the processor's storage client holds |
| `requests` | `reset_state` casts in the queue |
| `hpc`, `hcur`, `hreq` | the position of an endpoint thread in `reset_state` |
| `exempt`, `overrun`, `spent` | history, for properties and bounds only |

Processor: `LoadScopes`, `TryLock` (non-blocking, skips locked scopes),
`ProcessScope` (first `check_time_state`, before the Worker exists),
`NextTimestamp`, `CheckActive`, `Collect`, `Push`, `SaveState`, `Release`,
`EndCycle`. Failures: `PushFails` (the write fails or its answer is lost),
`PushRefused` (Loki only: an error status, logged and forgotten),
`ProcessingFails` (any other exception), `Crash`. Endpoint: `TakeRequest`,
`AcquireForReset` (blocking), `DeleteData`, `SetState`, `ReleaseAfterReset`,
`EndReset`, `ResetFails`, `DeleteRefused` (Loki only: as `PushRefused`). API: `Toggle` (PATCH active), `RequestReset` (PUT).

`exempt[s]` is the set of periods for which nothing is promised at present: those
before the first period a scope was ever rated for, those a reset deleted and
has not handed back to the processors, those a forward reset jumped over. It
grows only where the code gives data up and shrinks when the row moves behind
them, so that they are to be rated again.

Properties:

* `NoGap`: what the row counts as rated and has usage is stored, `exempt` apart.
* `StoredOrBuffered`: the weaker promise Loki allows.
* `NoDuplicates`: without crash or error no frame is stored twice.
* `WaitRespected`: the period in hand is due and follows the row *now*, although both were
  read some steps ago.
* `OverrunBounded`: at most one period is stored after a scope was deactivated.
* `LockedWrites`: data and rows change only in the hands of the lock holder. A push that
  has failed ends this, since its points may be sent under another lock: the
  property says so.
* `DeletesWhatWasAsked`: stored data disappear only for the scope and from the timestamp
  that was asked for (with Loki also the period before it).
* `KeepsLedger`: refinement of `RatingLedger` (section 4).
* `EventuallyRated`, `ResetsComplete`: a due period of an active scope gets
  rated; a reset message gets consumed and its scopes dealt with.
* `LocksAccounted`: a lock is held exactly by the process that works on the
  scope. It is proved (section 7) and checked by no run any more.

### LocalTime and ZonedProcessing

`LocalTime` translates `utils/tz.py` for zones with any standard offset and any
hours of summer time: `UtcToLocal`, `LocalToUtc`, `AddDelta`,
`SubstractDelta`, `DiffSeconds`, `GetMonthStart`, `GetNextMonth`, the default
range of a reader (`DefaultRange`, and `NaiveRange` of API v1), and
`check_time_state` on local times (`LocalNext`, which compares the wall clocks,
as Python does with two datetimes of one zone). A local time is what the wall
clock shows, and the fold. `ZonedProcessing` puts a zone under the clock of
`ScopeProcessing`; an instant of the model lasts `HoursPerTick` hours, and its
properties look at each of them.

* `PeriodsTile`: conversions lead back, periods computed on local times are as
  long as they should and begin where the one before ended, and the default range
  is the month, up to the change of the offset in it. A scope's next
  period is given when it is in the model if the offset is the same now and at the end of
  the wait; otherwise too early or too late by at most what summer time saves
  (`DueOnTheLocalClock`, which looks up `InTime`, a table that TLC makes once).

### Reprocessing

| Variables | Code |
|---|---|
| `schedules` | rows of `storage_scope_reprocessing_schedule`, in the order of their ids |
| `lock` | tooz locks, one per scope and window (`get_lock_and_scope_name...`) |
| `pc`, `todo`, `key`, `ts`, `buffer` | as above, for a reprocessor |
| `apc`, `window`, `unchecked`, `accepted` | a POST in progress: its step, its window, the scopes still to validate and to persist |
| `overlooked` | history: a request was taken for free of an overlap that its check could not see; nothing guards on it |

POST: `Request` (the validation of scopes and dates, which reads the table of
scopes once), `CheckOverlap` / `Reject` (one query per scope),
`Persist` (one transaction per scope), `PostFails`. Reprocessor:
`LoadSchedules`, `TryLock`, `ProcessSchedule` (`next_timestamp_to_process` of
the process), `LoadScopeKey` (raises for an inactive scope), `NextTimestamp`,
`CheckActive`, `Clean` (deletes the window when the timestamp is its start),
`Collect`, `Push`, `SaveProgress`, `Release`, and the failures, of which
`CleanRefused` and `PushRefused` are Loki's, whose client logs them and goes on.

`get_all` answers the newest 100 unfinished schedules, of the scopes asked for or
of all (`Limit`, `Newest`, `UnfinishedOf`): the check of a request looks for an
overlap among these, and a reprocessor loads these alone.

In this module each scope starts rated up to an arbitrary period and stays
there; the ordinary processors join in `RatingSystem`.

Properties:

* `NothingLost`: every rated period with usage is stored, or some unfinished schedule has
  still to rate it. This is what makes "delete first" tolerable.
* `NoOverlap`: unfinished schedules of a scope share no period
  (`OneScheduleAtATime`), unless a request was checked while another that overlaps
  it was checked and not yet written, or did not see a schedule older than the
  newest 100 of its scope. The other properties are excused from then on: two
  overlapping schedules rate and clean each other's periods.
* `ProgressInOrder`: a schedule's progress visits its periods one by one.
* `OneCopyButAtEnds`: when nothing fails nothing is stored twice but the last
  period of a window.
* `SchedulesFinish`: a schedule gets carried out unless its scope is inactive, or
  it stays for ever behind the newest 100, which do not progress either
  (`Starved`).

### RatingSystem

`ScopeProcessing` and `Reprocessing` by INSTANCE on one state table and one
backend; each step is a step of one of them. The properties are not those of
the parts: no lock is common to a processor, an endpoint and a reprocessor.

* `NothingLost`: a rated period is stored, was given up by a reset, or is still
  to be rated by a schedule, whatever interleaves, crashes and fails, until an
  overlap of schedules is overlooked.
* `OneCopy`: when nothing has failed or was overlooked, only the end of a schedule, or a period
  of its window after a reset, is stored twice.

### ScopeRows

The rows of one scope with their columns (`rows`), and one process per
configuration that holds the scope's lock *in its configuration* (the lock's
name contains the collector and the fetcher). `Find` and `Adopt` are
`_get_db_item`: the row with the columns sought, or else one of NULLs, which is
given them. The accesses of `Worker.run` (`NextTimestamp`, `CheckKnown`,
`CheckActive`, `Rate`, `SetMark`) go through it, and so do those of
`reset_state`. `PutReset`, `CheckPost` / `CreateScope` and `CheckPatch` /
`UpdateScope` are the API, checks and writes apart. `why` records what may
excuse a second copy; nothing guards on it.

* `NothingTwice`: no period is stored twice for a configuration unless a row
  was adopted by another one, was reset while it had no scope key or from
  under another lock, was doubled by POST or moved by PATCH.
* `OneRowEach`: a processor never makes a second row, but for the same reasons,
  or after the reset of a row that a POST gave only some columns: nobody finds
  that row again, and the reset makes another.
* `EventuallyRated`: every configuration gets its periods rated, whoever adopts
  whose row.

### RatingRules

| Variables | Code |
|---|---|
| `rules` | rows of `hashmap_mappings`: parent, value and tenant as one `key`, group, cost and type as one `cost`, start, end, deleted |
| `exists` | rows of services, fields and groups |
| `req` | a POST or PUT between its validation and its transaction |
| `now` | `datetime.datetime.now()` |
| `how`, `quiet`, `spent` | history: how each rule came to be or was changed; when no POST or PUT was last in progress; the bound on requests |

POST: `ValidateCreation` (`validate_resource`), then `Insert` or `RefuseInsert` (`create_mapping`;
the query `with_for_update` and the insertion are one transaction, and the clock that gives the
default start is read with it). PUT: `ValidateEnding` of a running rule, `ValidateEditing` of one
that has not started, then `Update` or `RefuseUpdate`. DELETE: `Delete` of a mapping (marks it),
`DeleteGroup` (recursive or not: the foreign key is `ON DELETE SET NULL`), `DeleteParent`
(cascade). Names keep their default, a fresh uuid, so that no conflict comes from a name. A
request the validation refuses changes nothing and is left out, and so is a PUT of other columns.
The tables are those the migrations build: the unique constraints that `models.py:207` still
declares were dropped by the migration `8a591f85865f`.

* `PastStands`: which rules apply to an instant before every request in
  progress, and at what cost, is changed by no POST or PUT, `force` apart.
  Deletions may change it: a deleted rule applies to no instant, past ones included.
* `OverlapsAreExplained`: two rules for the same target overlap only if one was
  updated (or lost its group), or the later has no end and starts inside
  the earlier, which has one. Nothing else gets past the conflict check.

### HashMapRating

A worker's `_load_rates` query by query: the list of services, each service,
its fields, each field, four lists of rows for each (global and tenant mappings
and thresholds), each row (`ListServices`, `GetService`, `ListFields`,
`GetField`, `ListRows`, `GetRow`; `LoadFails` when the row is gone). It runs when
the module is made (`module = "making"`, for the rules active by then) and again
before each period (`module = "made"`). A failure of the first makes stevedore leave
HashMap out: the worker rates its backlog `without` it (`RateWithout`); a failure of the
second ends the worker. `entries` is `HashMap._entries`. Between any two the API writes: services, fields and
groups are created and deleted with their cascades, mappings and thresholds of
a catalogue created (or refused), updated, deleted. Then `Process` prices the
points: matching rules of service and fields, `UpdateResult` folded over them,
`Price`.

* `NothingStale`, `NothingMissed`: a rule used was active at some time since
  the loading began, as the row was at such a time; a rule active all the time
  is used, the tenant's before the global one.
* `PricedByTheBook`: without a concurrent write the price is `BookPrice`, a
  definition over the sets of rules (per group the highest flat cost, the
  product of the rates, the highest threshold reached), when the thresholds leave no doubt
  (`Unambiguous`): the order of rows and lists does not matter.
* `EventuallyRated`: rows that disappear delay a period, or make a worker rate its
  backlog without HashMap, but never stop the scope; a threshold on a
  field with a value that is no number does, as long as it stays.

### RatingModules

`info` is the table of module states and priorities, `scripts` that of scripts.
`worker` is a worker, or the one made for a quote: it reads for each entry
point whether it is enabled (`CheckEnabled`; the scripts are listed and read
when that module is made: `ListScripts`, `GetScript`, and `LoadFails` when one
is gone, upon which stevedore skips the module: `Skip`), then each priority
(`ReadPriority`); before each period the scripts are read again. HashMap reads its rules at
the same times: what it reads is `HashMapRating`'s; here only `DeleteRule` meanwhile and
what follows (`ListRules`, `RulesFail`). PUT of a
module is two writes; PUT of a script is a check and a write. The history
variables `seen` and `steady` say what was so at some time, or at
all times, since the reading began.

* `EnabledModulesRate`, `HighestFirst`, `RatedByItsScripts`: the modules, their
  order and the scripts a worker has are those of some time while it read them; an enabled
  module is missing only if a script or rule it was reading was deleted.
* `EventuallyRated`: deleted scripts and rules, dying workers and edits never stop the scope.

### Collection

`fetcher` is one of Keystone's, Gnocchi's, Prometheus' and the list of the
configuration; `collector` Gnocchi's or Prometheus' (Aetos inherits it). The
search of scopes: `SearchType` (Gnocchi: pages of resources whose scope is not
among those found, until an answer is empty), `CheckRole` (Keystone: project
by project), `EndSearch`. The collection: `MaxThreads` threads take the metrics
in order; a thread asks for the aggregates (`FetchMetric`) and then for the
pages of resources (`FetchResources`), joins both (`Associated`), sums over the
revisions of a resource (`SumOfRevisions`), converts and mutates (`Point`);
`GetInstant` is Prometheus' one query. `Store` names the points by `alt_name`
and lets the later of two metrics win. `metrics.yml` is checked by `ValidConf`
as `validate_conf` does.

* `ScopesFound`: every project ratable during the whole search is found, every
  scope with one resource that was there during all of it, and none that never was
  ratable. (`Sought` is what shows that a scope is ratable: for Gnocchi and
  Prometheus its resources. That some resource of the scope was there at every time
  is not enough for Gnocchi's fetcher, which searches type by type.)
* `UsageCounted`: for each metric and resource there all along, the usage of all
  its revisions, once, and of nothing else, unless a later metric has the name.
* `EventuallyRated`: a scope that stays ratable gets rated, but when the search never ends
  (`Endless`) or a measure cannot be read (`Stuck`).

### StorageReads

`docs` is what the backend holds, in an order of its choice; `client` what the
storage client holds. `Push`, `AddPoint`, `EndPush` are the push point by
point with each driver's chunks; `Delete` is a reset's deletion. A reader asks
with the tokens of a URL (`DictQueryParam`, `SingleDictQueryParam`), for a
listing page by page or a total by groups. Elasticsearch and OpenSearch answer by scroll
(`FetchScroll`) and composite buckets (`FetchSum`, `FetchBuckets`), InfluxDB 1
by `FetchPage` and `FetchRows`, InfluxDB 2 by `FetchFluxRows` and
`FetchWildcard`, Loki shard by shard (`FetchShard`) and as a whole
(`FetchLogs`, `FetchGroups`). The clients of Loki and InfluxDB 2 take a query that was refused for one
that found nothing (`ShardRefused`, `FluxRefused`); `unread` has the points it would have
answered. Loki's also takes a refused push for one to be repeated later (`PushRefused`). `Selects` is what each driver's query selects,
`Wanted` what was asked for. `BuildDataframes` is the answer's shape.

* `NothingSkipped`, `ListedOnce`, `TotalsAddUp`: what was stored when the reader began is listed;
  nothing twice nor unasked; totals count every point once, one row per group and page. Their
  exceptions are the cases in `why`: points moved or removed meanwhile, a page that overflowed or
  was cut, the failing driver; and, point by point, what a refused query would have answered.

### V1Storage

Both drivers behind the adapter. A worker under its lock appends the points of
a period (`AppendRow`, or `AppendMeasurements` after `FindResource` and
`CreateResource`), commits (`CheckCommit`, `Commit`, `PostCommit`,
`ClearUsageInfo`), and saves the scope's state. `start`, `hasData` and `held`
are `usage_start_dt`, `_has_data` and `_measurements` of the driver object,
which outlives a failed period. `InitStorage` is `cloudkitty-storage-init`;
`Reset` is a reset, for which version 1 deletes nothing. Reports are operators:
`GetTotal`, `Total`, `Summary`, `Tenants`, `GetAll` with the frames of each
driver (`ToCloudkitty`, `FormatFrame`, checked by `FromDict`).

A commit sends all measures in memory under the state of the scope, and
Gnocchi, which is external, keeps one value of a metric for each time (`Slot`):
which one, the model leaves open (`KeptOf`). In `v1` a resource is used in two
periods that share a state, and by two scopes.

* `NothingLost`: what counts as rated is stored. SQLAlchemy has a row of each point in its
  period. Of the hybrid driver one can only say that the resource of the point has a
  value under the time the period comes under, if it was pushed once: the point's, or that of
  another point sent for the resource under that time; and the resource is of a scope that used it.
* `StoredOnce`: once and in the period it belongs to (for the hybrid driver:
  under the state before it), but what was pushed again.
* `TotalsAgree`: totals agree over ranges, groups and the points listed.

## 4. The abstract specification

`RatingLedger` says what rating promises of a scope in terms of two things, the
*mark* (up to where the scope counts as rated) and the set of periods
*stored*. Data are recorded for the period after the mark only; the mark moves
one period ahead and only over stored (or idle) periods; a reset may erase
everything from a timestamp on, and may move the mark only where nothing at or
after the landing point is stored. `ScopeProcessing` implements it with `mark`
read from the rows and `stored` from the backend (`Ledger == INSTANCE
RatingLedger WITH ...`). Locks, cycles, messages, the clock and failures all
map to stuttering. The refinement needs that no push fails: an unsent frame
sent later is data recorded for a period that is not after the mark. It is
model-checked on Elasticsearch with one scope and proved on InfluxDB.

The pure algorithms have a reference definition instead: prices (`BookPrice`),
totals and listings (`Wanted`, `Price` over the stored points), the usage of a
resource (the sum over its revisions), periods (counting).

## 5. Runs

The modules about processors bound the number of crashes, errors, requests and so on by `Budget`, a
function from kinds of events to how often they may happen, and time by
`MaxTime` and `MaxPeriod`; in the others `Budget` is one number for all
changes that come from outside (in `V1Storage` also the run of
`cloudkitty-storage-init`).

| Run | Instance | Shows |
|---|---|---|
| `sp_elasticsearch` | 1 scope, 2 processors, 1 endpoint, 3 periods in months of two periods, one of them idle, 1 each of reset, toggle, crash, error; at each hour of an instant, 6 of them, in 20 zones with or without changes of offset, of one or two hours; fair | `NoDuplicates`, `OverrunBounded`, `NoGap`, `PeriodsTile`, `KeepsLedger`, `EventuallyRated`, `ResetsComplete` |
| `sp_loki` | 2 scopes, 2 processors, 1 endpoint, 2 periods, 1 waiting period, 1 each of reset (of one or both scopes), interrupted reset, crash, failed or refused push or refused deletion | `WaitRespected`, `StoredOrBuffered`, `LockedWrites`, `DeletesWhatWasAsked` |
| `rp_elasticsearch` | 1 scope, 2 reprocessors, 2 callers, 2 periods, queries that answer 1 schedule, 3 requests, 1 each of crash and failed push | `NothingLost`, `OneCopyButAtEnds`, `NoOverlap`, `ProgressInOrder` |
| `rp_loki` | 2 scopes, 1 reprocessor, 1 caller, 2 periods, queries that answer 1 schedule, 1 request for one or both scopes, 1 each of toggle, crash, error, failed or refused push or refused deletion; fair | `SchedulesFinish` |
| `system` | 1 scope on Elasticsearch, 1 processor, 1 endpoint, 1 reprocessor, 1 caller, 3 periods, 1 reset, 1 schedule, a crash of either side, 1 failed push, 1 interrupted reset | `NothingLost`, `OneCopy` |
| `rows` | 2 configurations with one scope key, 2 periods, 1 request of any kind, from an empty table; fair | `NothingTwice`, `OneRowEach`, `EventuallyRated` |
| `rules` | 1 target, 1 group, 2 costs, 2 callers, 3 instants, 3 requests | `OverlapsAreExplained`, `PastStands` |
| `hashmap` | 1 service with 1 field, 1 group, 4 mappings and 4 thresholds (flat and rate, global and the tenant's), 2 points (one with a value that is no number), 2 periods, 3 rows; fair | `NothingStale`, `NothingMissed`, `PricedByTheBook`, `EventuallyRated` |
| `modules` | 3 modules, 2 scripts of 2 texts, 2 periods, 2 requests or crashes; fair | `EnabledModulesRate`, `HighestFirst`, `RatedByItsScripts`, `EventuallyRated` |
| `collect` | 2 scopes, 5 resources of 2 types, 2 metrics of one name, 2 threads, pages of 1, every fetcher with every collector, 2 changes or failures; fair | `UsageCounted`, `ScopesFound`, `EventuallyRated` |
| `reads` | 4 drivers, 5 points of 2 periods in 2 pushes, 4 requests, 3 groupings, an administrator and a project, pages of 1 and 2, chunks of 3, shards of 2 periods, 1 deletion or refused query or push | `NothingSkipped`, `ListedOnce`, `TotalsAddUp` |
| `v1` | 2 drivers, 2 scopes, 2 processors, 3 periods, 1 failed push, crash, reset or storage initialisation | `NothingLost`, `StoredOnce`, `TotalsAgree` |

Why the bounds are enough for the cases that matter:

* *Two processors* are needed for every race for a lock, and a third would only meet the
  same lock taken. *Two scopes* are needed for what leaks from one scope to another
  (shared client buffer, deletion filters, a reset interrupted between two
  scopes); properties that concern one scope are checked with one.
* *Two or three periods*: the first is special (start of the month), the second is
  reached by the increment, the third lies after an idle one. A window of two
  periods has a start and an end that the cleaning and the worker treat
  differently; the windows of `system` have an inside too.
* *Three requests of two callers, and queries that answer one schedule*: a schedule,
  a newer one that hides it, and a request that overlaps it; and two requests
  that are checked at once. *One reprocessor* is enough to finish schedules: another
  one holds a lock only while it works itself, or crashes, which frees it, and
  what two do to each other is what `rp_elasticsearch` looks at.
* *One* fault of each kind at any point covers the crash between any two steps;
  a crash and a failed push together cover a retry after a half-done push.
* The faults are *independent of the schedule*, so that every action fires at every step where its
  guard allows it.
* *Three requests on one target*: a rule, a second one that may conflict with it, and
  a change to either while the other is in progress; rules for two targets never
  meet. *Three instants* tell before, at and after apart.
* *Three rows of HashMap*: two that combine in a group and one that comes, goes
  or changes meanwhile. The catalogue has each kind of row at each place, and
  each combination of three of them.
* *One or two changes from outside* during a reading: one is enough to fall
  between any two queries; two, for what was there at the beginning and at the
  end but not in between.
* *Pages of one resource, chunks of three points, shards of two periods*: every
  page, chunk and shard has a neighbour and one of them is not full. The points
  of `reads` include two of one series, two whose groups read the same when
  concatenated, and one with an attribute the others lack.
* *The zones* change their offset inside a period, at its ends, twice in a
  month, or never, by one hour or two (with one, no hour lies between what is too
  early and what is not). The theorems of section 7 cover all others.
* Symmetry is used on processes (and on costs, which are only compared), and
  only in runs without liveness.

Deadlock is checked in `sp_*`, `rp_*`, `system` and `collect`, where the
processes cycle for ever: no step gets stuck. In `rules`, `hashmap`, `modules`,
`rows`, `reads` and `v1` the model stops once the last period is rated and the
bounded requests are made.

### Fairness

`FairSpec` of `ScopeProcessing` assumes weak fairness of the clock (up to the bound), of each
processor and of each endpoint: an unfinished Python process that can run does. Beyond this,
strong fairness of an endpoint's blocking `acquire`: processors hold a scope's lock for one visit,
then sleep until the next cycle (`time.sleep(CONF.collect.period)` when nothing was due), so the
lock is free again and again, and tooz hands it to a waiter eventually. Nothing is assumed of the
API (it need not be called), of faults (they need not happen) or of *which* scope a processor
picks first. The lock attempts of processors and reprocessors are non-blocking: weak fairness is
all they get. Liveness is stated from any state, faults included: the budget being finite, it says
that the system recovers once faults stop.

The other modules with liveness assume the same of their worker (`WorkerStep`,
`Work`, `Process`, `Search`, `Collect`), of the clock, and in `ScopeRows` of a
POST or PATCH that has passed its checks, weakly; nothing of requests to come, of Gnocchi,
Prometheus and Keystone, or of failures.

## 6. Disagreements between the code and what is said of it

These were met while translating; the properties are stated so that they
name the case instead of hiding it.

| Code | Said |
|---|---|
| `utils/__init__.py:215`: without a row the answer is the start of the month, whatever the time and `wait_periods`. (`WaitRespected` is about known scopes.) | `doc/source/admin/configuration/collector.rst:17`: "Periods to wait before the current timestamp. This is done to avoid missing some data ..." |
| `orchestrator.py:234`: a reset to T deletes the period starting at T, then records T as processed, so that period is never rated again (`exempt`). | `doc/source/developer/roadmap.rst:126`: "delete all the data for a specific scope after a given date, and reset the state of this scope to that date" |
| `storage/v2/elasticsearch/client.py:381`: `delete_by_query` builds its query without the scope filter: a reset of one scope deletes all scopes. (`DeletionsAreAsked` holds of Elasticsearch only with a single scope.) | `storage/v2/__init__.py:96`: "Deletes all data from for the given period and filters." |
| `storage/v2/loki/client.py:324` stamps a line with the end of its period and deletes by that stamp: a reset from T takes the period that ends at T along. (Named in `DeletesWhatWasAsked`.) | the same |
| `api/v2/task/reprocess.py:79`: overlap is checked in one session and rows are written in another: two callers get overlapping schedules. (`NoOverlap` names the case; `OneScheduleAtATime`, without it, does not hold.) | the error of `reprocess.py:237`: a scope cannot have two schedules "for a similar time range" |
| `orchestrator.py:604`: the cleaning deletes `[start, end)`, the worker rates `start..end`: the last period is stored twice where a push appends. (`OneCopyButAtEnds`.) | `orchestrator.py:597`: "we can clean/erase the old data in the reprocessing task time frame" |
| `rating/hash/db/sqlalchemy/api.py:368`: a mapping without an end conflicts with rules that start later or have no end, not with one that has an end and is still valid. (`OverlapsAreExplained`.) | `8a591f85865f_extend_hashmapping.py:52`: "the constraint validations will be delegated to the application" |
| `utils/__init__.py:221`: two times of one zone are compared by their wall clocks: a period whose wait ends just after the end of summer time is given up to an hour early, one whose wait ends just before it up to an hour late. (`PeriodsTile` bounds the error.) | `utils/__init__.py:203`: "Returns the next timestamp ... if the next timestamp is inferior to the current time and the waiting period" |
| `utils/tz.py:158`: the next month begins as many days of 24 hours later: an hour late or early if the offset changes in between. (`PeriodsTile` says by how much.) | `utils/tz.py:145`: "Returns the start of the next month in the local timezone." |

Other behaviour a reader of the code may not expect, each named by a property
or a definition:

* The default start of a rule or a script is the time at which the models were
  imported (`rating/common/db/models.py:30`: `default=datetime.datetime.now()`;
  `ImportTime`).
* Two metrics with one `alt_name` hide each other: the last one with usage is
  rated (`orchestrator.py:391`; `UsageCounted`).
* The Gnocchi fetcher searches for ever if all resources of a type lack the
  scope attribute and no scope is known yet (`fetcher/gnocchi.py:141`; `Endless`).
* The same fetcher may miss a scope for a cycle that never was without resources:
  one of a type still to be searched goes while one of a type already searched comes
  (`fetcher/gnocchi.py:129`; `ScopesFound`).
* Rows of a Flux answer are merged under the concatenation of their group
  values (`storage/v2/influx.py:480`; `Ambiguous`). InfluxDB 2's listing fails
  or is empty (`ProcessWildcard`), and it knows no metadata filters (`Unable`).
* A query that Loki or InfluxDB 2 refuses reads as one without results
  (`storage/v2/loki/client.py:206`, `storage/v2/influx.py:711`): listings and
  totals lack its points and say nothing of it (`unread`).
* The limit of a Loki request holds for every shard, and the total is the
  number of lines answered; Elasticsearch's scroll may overflow a page by the end of
  a chunk (`why` of `StorageReads`).
* A script, or a rule of HashMap, deleted while a worker is made makes stevedore leave the
  module out of that worker for its whole backlog (`missed` in `EnabledModulesRate`,
  `RateWithout`).
* Version 1: the hybrid driver commits the measures of a period under the state
  before it (`storage/v1/hybrid/__init__.py:92`), and those of the first two periods under one:
  of a resource used in both Gnocchi keeps the value of one, the other is lost, without any failure
  (`storage/v1/hybrid/backends/gnocchi.py:281`; `NothingLost` says no more); nothing is
  deleted by a reset;
  rows of a failed push stay and are pushed again; the hybrid total ignores the
  service; filters and groups other than `project_id` are dropped; a resource's measures stay
  with the project that made it; a point without an `id`, or of a service added
  without `cloudkitty-storage-init`, is never stored by the hybrid driver, and
  its listing fails unless it is empty, as its frames carry a key that the
  schema of data points refuses.

## 7. Proofs

All theorems hold for every value of the constants that the named assumptions allow: any sets of
processors, endpoints, reprocessors and scopes, any number of periods, any budget, any zones.
`RatingStoreAssumption`, `ScopeProcessingAssumption`, `ReprocessingAssumption`,
`ScopeRowsAssumption`, `RatingRulesAssumption`, `RatingModulesAssumption`,
`HashMapRatingAssumption`, `RatingSystemAssumption`, `LocalTimeAssumption`,
`ZonedProcessingAssumption` and `V1Assumption` only give types (and keep names apart); the last
also says that a point which bears the scope key bears its own scope, for which it was collected.
`Confined` (in both proof modules) says that the backend is InfluxDB, or Elasticsearch in a
deployment with a single scope: a deletion then removes what was asked, and nothing of another
scope. `Separate` says the latter alone, which Loki keeps as well.

| Module | Theorem | Under |
|---|---|---|
| `ScopeProcessing_proofs` | `TypeCorrect`: `[]TypeOK` | - |
| | `LocksAreAccounted`: `[]LocksAccounted` | - |
| | `WaitIsRespected`: `[]WaitRespected` | - |
| | `NothingIsMissing`: `[]NoGap` | `Confined` |
| | `OverrunIsBounded`: `[]OverrunBounded` | - |
| | `WritesAreLocked`: `LockedWrites` | `Separate` |
| | `DeletionsAreAsked`: `DeletesWhatWasAsked` | `Separate` |
| | `NothingIsDuplicated`: `[]NoDuplicates` | not Loki |
| | `ImplementsLedger`: `KeepsLedger` | `Confined`, no failing push |
| | `RatedIsHeld`: `[]StoredOrBuffered` | - |
| | `PeriodsMeet`: every hour of every zone `Tiles` | - |
| | `LocalClockAgrees`: `[]DueOnTheLocalClock` | - |
| | `RangesAreMonths`: `[]PeriodsTile` | `CalendarFits` |
| `ScopeRows_proofs` | `TypeCorrect`: `[]TypeOK` | - |
| | `RatedOnce`: `[]NothingTwice` | - |
| | `RowMadeOnce`: `[]OneRowEach` | - |
| `Reprocessing_proofs` | `TypeCorrect`: `[]TypeOK` | - |
| | `SchedulesAreDisjoint`: `[]NoOverlap` | - |
| | `ProgressIsOrdered`: `ProgressInOrder` | - |
| | `ReprocessingLosesNothing`: `[]NothingLost` | `Confined` |
| | `OnlyEndsAreCopied`: `[]OneCopyButAtEnds` | - |
| `RatingModules_proofs` | `RatesWithTheEnabled`: `[]EnabledModulesRate` | - |
| | `RatesWithItsScripts`: `[]RatedByItsScripts` | - |
| | `RatesByPriority`: `[]HighestFirst` | - |
| `HashMapRating_proofs` | `NoStaleRules`: `[]NothingStale` | - |
| | `NoRuleMissed`: `[]NothingMissed` | - |
| | `PricesAreByTheBook`: `[]PricedByTheBook` | - |
| `RatingSystem_proofs` | `SystemLosesNothing`: `[]NothingLost` | `Confined` |
| | `SystemKeepsOneCopy`: `[]OneCopy` | not Loki |
| `RatingRules_proofs` | `TypeCorrect`: `[]TypeOK` | - |
| | `ExplainedOverlaps`: `[]OverlapsAreExplained` | - |
| | `PastIsSettled`: `PastStands` | - |
| `V1Storage_proofs` | `WhatIsRatedIsStored`: `[]NothingLost` | - |
| | `WhatIsStoredIsStoredOnce`: `[]StoredOnce` | - |
| | `ReportsAgree`: `[]TotalsAgree` | `ScopeKey = "project_id"` |

The hypotheses on `Backend` are not conveniences: without them
the code does what section 6 says (or loses what Loki's client silently drops),
and TLC shows each of these cases within seconds.

*The chain of invariants of ScopeProcessing.* `LockInv` adds to the types that a
working processor and a resetting endpoint have a scope (`HasScope`) and the
accounting of locks. It is inductive: every step that takes or frees a lock
moves its owner in or out of the working steps. `WaitInv` adds that a working
processor's timestamp is the one the row still calls for (`PeriodChosen`): the
row is written by the lock holder alone, so what was read under the lock stays
true. `GapInv` adds that in step "save" the frame is stored or idle
(`PushedBeforeSave`) and that in step "set" everything from the requested
timestamp on is exempt (`GivenUpBeforeSet`); without these two the update of
the row would not preserve `NoGap`. `OverrunInv` says that `overrun` is 0
before a push in steps that have seen the scope active. `CleanInv` adds
that, until a push fails, clients hold nothing back (`ClientsEmpty`) and what a reset
deleted stays deleted until it has set the row (`DeletedBeforeSet`), which makes the
update of the row a `Land`; `LedgerInv`, that only scopes with a row are reset
(`ResetsKnown`); `DupInv`, that no copy exists of a period about to be pushed
(`FreshPeriods`). `HeldInv`, on `WaitInv`, weakens
"stored" to "stored or held by some client" so that it holds of a client that
hides errors (`HeldBeforeSave`), and needs that no endpoint is at work when no
reset was ever asked (`EndpointsRest`): a push sends what the client holds, and
only a crash or a deletion takes frames away.

*Local time.* `RoundTrip` is the heart: an instant leads to a wall clock and a
fold that lead back to it, by cases on whether the instant has summer time and
whether the clock shows its hour twice. `add_delta` then is addition in UTC. The clocks
that `check_time_state` compares differ from UTC by the offsets of two hours, which differ by at
most what summer time saves: that is all `LocalClockAgrees` takes. That the default range is the month (`Covers`) takes
more. The table `Begin` of the months is defined recursively, so that it exists at all,
and increases, is shown first, by induction over the sets of numbers that have
a table up to them (`BeginExists`, `BeginOrder`); then each hour of the wall clock lies in one
month (`MonthExists`, `MonthUnique`). What remains is that the instant at which
a clock shows the first of a month at midnight parts the month's hours from the earlier ones.
It would not, if the offset changed at that very hour: the clock would show the end of
a month again, or skip its beginning. `CalendarFits` excludes this case: around
the beginning of a month all hours have summer time, or none (`Settled`). TLC
evaluates it for the zones of `sp_*`.

*ScopeRows.* A process finds its row anew in each access, so the invariant
(`OwnInv`, of each configuration while nothing excuses a copy) says where the
stored periods end whatever row that will be: at its mark; at the period in the
process's hands, between `Rate` and `SetMark`; and at the first period as long as
no row has the configuration's columns (`Bounded`, `FirstOnly`). It needs that a
process which found no row is at the first period even if a POST makes one
meanwhile, and that what it read of a row still holds (`InHand`). All that
others do is deletions and rows of their own (`Apart`), and `ApartKeeps` shows
once that the invariant stands them; then each step of the process itself is
proved. `RowMadeOnce` adds that who is about to make a row has none (`OwnRow`).
Instances with two requests, on which TLC checked these invariants first, showed
the case that `OneRowEach` excuses: the reset of a row with some NULL columns.

*Reprocessing.* `LockHeld` is the accounting of the locks of schedules.
`ProgressInv` adds that a scope which a caller has validated is free, for its window,
of schedules and of other callers' requests (`AcceptedAreFree`), that rows
keep start <= progress <= end (`RowsOrdered`) and that the period in a worker's
hands is the next one of its row (`PeriodInHand`). With disjoint windows a key
names one unfinished row, hence the nondeterministic `first()` is harmless.
It includes that nothing was overlooked: the invariant of the theorems is
`overlooked \/ ProgressInv`, and a step that leaves `overlooked` false is one whose
check saw all there was to see.
`LostInv` adds `PushedBeforeSave`. `CopyInv` adds to `ProgressInv` that clients are empty between
pushes as long as none has failed (`ClientsEmpty`) and that the periods of a
begun schedule it has not reached are empty, its end apart (`RestIsClean`): so
the cleaning comes before the first push, and each push finds nothing.

*RatingModules.* `Remembered` says that while a worker reads, what is so now is in
`seen` and what is in `steady` is so now, which every change of the tables preserves
(`Observed`). The rest are loop invariants: the entry points the worker has passed
(`Before`) are among its modules if they were enabled all along, but for one
that could not be made (`Places`), as a read fails only after a deletion
(`MissingIsNoted`; HashMap's fails only then by `RulesFail`); the scripts in memory and those still to read are the active
ones, and those read have a text of that time (`ScriptsInv`): a script in memory
may be an old one until it is read again, so the invariant is not about all.

*RatingRules.* `OverlapsAreExplained` is inductive together with the types: a new
rule is related to the older ones by the negated conflict check, and every
other step leaves a pair of rules as it was, removes one of them or marks it
edited. `PastStands` is not provable from the types: `PastInv` adds what a
validated write still finds (`Pending`). It was validated at `quiet` or later, so the
dates it brings are not before `quiet`; and the dates it replaces are not
either, because no other write moves a date from after `quiet` to before it
(`DatesStand`) and ids are not used twice. That is why the stale read of PUT does no harm
to the past, however long the write is delayed.

*RatingModules, the order.* Which priorities a worker saw does not follow from the sorted list
alone: the priorities of a pass are read at different times. The invariant (`PrioritiesInv`) says
that the keys by which the list is sorted were each a priority the module had in the meantime.
That the sort puts a higher key first is proved from its definition as the choice of a bijection
onto ranks: the set of ranks is counted (a pigeonhole argument on finite sets), so that the choice
exists.

*HashMapRating.* The invariant of `NoStaleRules` says that a row to be read was
listed during this load as it applied (`RowTasks`), and that rows remembered under one id
share parent and kind (`HistoryOK`), so that what is read goes where it was listed.
That of `NoRuleMissed` is about the queries still to be made, in their order
(`Covered`): a row that was there all the time has a task that leads to it, with
nothing after it that could bring a rule for all tenants in its place, or it is loaded and no
such task is left. Each query passes this on to those it makes (`Passes`).
Queries find parents by id, so ids must not be reused: the parent of a steady row has had
its id all the time (`Anchored`), because its deletion takes the row along.

`PricesAreByTheBook` takes two invariants more (`PriceInv`): a field is loaded once and before its
rows, as at most one query leads to it (`FieldsOK`), or `process` would apply its rules twice; and
of one group and key there is one rule (`OneEach`). With nothing written meanwhile the entries
then are the rules of the rows that count, each once (`EntriesAreRules`), and the matches of a
point are those of the rows that concern it in some order, the rows of the service first
(`AllMatches`). The rest is about the folds. That of `UpdateResult` is taken as the sequence of
the results of the first k matches (`ResultsOfPrefixes`), and by induction over k the entry of a
group describes the rows matched so far (`DescribedOn`): its flat is their dearest, its rate the
product, its level that of the highest threshold. This is where the order of the code matters: of
two equal thresholds the first stays, so those of the service must come before those of fields
(`HighestOn`), and two field thresholds for one level of one group are what `Unambiguous` leaves
out. A product does not depend on the order in which a fold takes its factors (`ProductOfRest`),
and `GroupPrice` of such an entry is `BookPriceOfGroup` in each of the cases of the highest
threshold (`GroupPriced`).

*V1Storage.* `LostInv` says where the points of a period are while it is pushed: those
appended so far are in the driver's memory or, with SQLAlchemy, in rows under that
period; after the commit all are stored, as they are of each period that counts as rated, and of
each before the one that a driver keeps in memory (`NothingMissing`). The last of
these is needed after a reset: a SQLAlchemy driver that still remembers a later period than the
one pushed writes its points under that later one, and what saves the report of the period is
that its rows are there from before. `MemoryOK` says that nothing is in memory
but under a remembered period, so that a commit finds all measurements that were kept.
`OnceInv` adds that no period is in memory, in the table or under the hybrid driver's state
unless it was reached (`HistoryOK`). A period pushed for the first time
therefore finds neither rows nor measurements of its own (`PushOK`), and what a failed push
left behind, which a later one may store again, is of periods in `again` only; the rows of all
others are at most one for each point (`TableTidy`). Gnocchi gives up values, so that for the hybrid
driver *stored* means that the resource of the point has one (`Rowed`): a slot once filled stays
filled (`NothingDeleted`), and a period pushed for the first time fills the slots of its own
time (`Timely`).

`ReportsAgree` holds of whatever is in the table, as long as that is finite (`Finite`). What it
takes are facts on sums over finite sets, of which the folds of the community modules have none.
They are proved by induction over the size of a set, with the property given as a set of numbers
or of subsets (`Induction`, `FiniteInduction`), as lemmas with an operator parameter are of no use
to these provers: the recursive function in a fold exists (`SumsExist`), its choice of an order
does not matter (`SumOfRest`), and sums over two parts, images and groups follow (`SumOfParts`,
`SumOfImages`, `SumOfGroups`). Ranges that meet are then two parts (`RangesAddUp`), and a grouped
total is a sum over the groups (`GroupsAddUp`). The hypothesis is the default of `[collect]
scope_key`: under another the adapter drops the filter (section 6), and a scope without rows has
the total of all.

*RatingSystem.* Its two parts share the store and the rows of scopes, and each
changes what the other's theorems are about: a reset deletes what a schedule has
rated, a cleaning deletes what a processor has pushed. Neither theorem follows
from those of the parts; yet locks, types, windows and progress are local to a
part, so `LocalInv` takes over the invariants proved there (the proof
modules are instantiated, and their theorems and step lemmas cited, as a step of one part
either is a step of the other's clock or leaves its variables alone). On top of
it, `LostInv` restates what a process has in hand so that it stands the steps
of the other part: what a processor pushed before "save" is stored *or awaited by a
schedule* (`HeldBeforeSave`), as a cleaning may come in between; what a
reprocessor pushed is stored or was given up (`StoredBeforeProgress`), as a reset may. `CopyInv`
is where the windows matter: a schedule covers rated periods alone
(`WindowsRated`), unless a reset moved the row back; the next period of a
processor is thus in no window and empty (`FreshPeriods`), and the rest of a begun
window is empty but for its end (`RestIsClean`), although no lock is shared.

*Only model-checked*: liveness, which is out of the prover's reach (`EventuallyRated` of every
module, `ResetsComplete`, `SchedulesFinish`); and `ScopesFound` and `UsageCounted` of
`Collection`, and `NothingSkipped`, `ListedOnce` and `TotalsAddUp` of `StorageReads`, which have
no proof yet.

## 8. Not modelled

| Part | Why |
|---|---|
| `get_all`'s default limit of 100 rows (`storage_state/__init__.py:57`) | it changes which scopes a reset of *all* names (a reprocessing asks for all of them, `reprocess.py:71`); those left out stay as they were, and no promise of the code is about them |
| Expiry of a lock's lease under a slow owner (`orchestrator.py:728`) | tooz renews the lease from a thread of its own (`start_heart=True`), so this takes a process that stops as a whole and comes back; the code does not check for it, and the properties of section 3 that rest on a lock would fail |
| Reload messages of rating modules | `RatingEndpoint` keeps them in lists that nobody reads |
| GET of scopes, schedules, rules, modules, scripts | one query and formatting |
| `custom_fields` of InfluxDB totals | free text that goes into the query; the other drivers ignore it |
| Quantities and the filter by `started_at` of the hybrid frames | its frames fail to validate in any case |
| Time zones of version 1 | it stores naive UTC; its months (`NaiveRange`) are in `LocalTime` |
| Rest of API v1 (info, collector mappings) | reads configuration; no collector reads the mappings |
| What a script computes | the operator's Python has no specification |
| Text of queries, connections, authentication, index templates | formatting and settings of external services |
| Database migrations, CLI, configuration, policies | run once or declarative |
| Decimals and rounding | prices and quantities are integers; halves where a conversion rounds |

What a further step could add: a lock that expires, to say which properties
survive it.
