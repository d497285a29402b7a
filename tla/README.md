# Verification of cryo-lab-telemetry

TLA+ models of the telemetry pipeline of a cryogenic laboratory: an edge
collector that journals readings on disk and uploads them, a Go server that
stores them in TimescaleDB, raises alarms and hands configuration back to the
collector. The models are translated from the Python and Go sources; paths and
line numbers in the comments refer to the repository.

Run a model with `tlc -config X.cfg M`, check the proofs about it with
`tlapm MProofs.tla` (Ingest's take some minutes). `PROJECT.json` lists the
runs, the source lines each definition stands for, the hazards and the theorems.

## 1. The system

    instrument -> collector ---POST /ingest---> server -> readings table
                  (disk queue)                    |  \-> alerter -> email/Slack, alert_log
                     ^                            |
                     +------GET /api/config-------+<--- PUT /api/config --- admin panel
    InfluxDB -> forwarder --POST /ingest--> (same)         dashboard --- GET /api/series, /metrics

| component | state | operations | hard behaviour |
|---|---|---|---|
| disk buffer (`collector/buffer.py`) | files `000..N.json`, `_counter`, `dropped` | enqueue (evicts oldest at the bound), pending, load, remove | shared by two threads, the listing is not; the counter is rebuilt from the directory after a crash |
| collector (`collector/collector.py`) | stop event, `State.interval`, pcs of its threads | acquisition, sender (post, backoff, sweep), config poll | kill at any point, ambiguous timeouts, order kept under retries |
| ingest (`api/ingest.go`, `middleware.go`, `auth.go`, `store.go`) | readings table, tokens | authenticate, validate, insert in chunks, count, alert check | overlapping and repeated requests, a failure between chunks, shared and unknown tokens |
| metrics (`metricsx.go`, `api/ops.go`) | counters since start | RecordIngest, Snapshot, TotalRows, SourceLastSeen | counters and table read at different times |
| alert engine (`alert/alert.go`) | cached rules and cap, alarm per metric, daily counter | Check, Reload, allowNotify, InsertAlertLog | concurrent Checks, two Reloads at once, a lock held over a query, midnight, restart |
| configuration (`api/config.go`, `store.go`) | config and alert_threshold tables | GET, PUT (one statement per field) | partial PUTs, failed reads with a fallback |
| boot (`cmd/server/main.go`, `store/migrate.go`) | schema_migrations, the schema | connect with retries, migrate, serve | kill in a file without transaction, late commits of a killed process |
| series, channels (`api/series.go`, `store.go`, migrations 0002-0004) | two rollups: materialized buckets, watermark | refresh by policy, query by step and range | late readings below a watermark, refreshes while readings arrive, re-bucketed averages |
| forwarder, backfill (`forwarder/`) | none on disk | poll and post the last points; read a window day by day | a post that fails is not repeated, a backfill that fails ends |
| LS350 logger (`lab/`) | none on disk | post once | as the forwarder |
| load harness (`bench/`) | sequence, request counters, merged counts | runLoad, makeBatch, dbTotalRows | workers share counters, counts race with other sources |
| dashboard, admin panel (`web/src`) | display state; an edited configuration | poll, read-edit-save | lost updates, answers out of order |
| routing, settings, notifiers, other tools | none the others read | | |

What makes each correct, in a sentence: the **collector** loses no batch in
silence, uploads in chronological order, and keeps its bound; **ingest** stores
and checks all it acknowledges and nothing it refuses, writes no source but the
token's, and counts each row once;
the **alert engine** raises one event per transition, records it, and respects
the cap of the day; the **configuration loop** converges to what is stored;
the **boot** brings the schema up in file order and always reaches service;
the **rollups** show every reading within their policy's window and average like
the raw table; the **forwarder** misses no more than its failed polls explain,
and a **backfill** that ends leaves no gap; the **load harness** sends each
request once and never reports more than landed.

## 2. The modules

| module | models | abstract or composed |
|---|---|---|
| `DeliveryQueue` | what the collector promises: batches accepted in order are settled in order | abstract specification |
| `Collector` | buffer + acquisition + sender + network + process, composed | implements `DeliveryQueue` |
| `AlarmLog` | what the alert engine promises: one event per change of an alarm, each recorded once or lost | abstract specification |
| `Alerter`, `MCAlerter` | Check / transition / fire / allowNotify over concurrent requests, Reload under its lock | implements `AlarmLog`; rules arrive from anywhere |
| `ControlPlane`, `MCControlPlane` | PUT and GET /api/config, the tables, Reload, the ticker and the collector's poll, composed | the rules are opaque values |
| `Ingest`, `MCIngest` | clients, tokens, handlers, table, counters, alerts, GET /metrics, composed | an alarm is on or off |
| `SchemaUpgrade` | what the boot promises: the files take effect in order, each once, and requests are served on the whole schema | abstract specification |
| `Migrate`, `MCMigrate` | boot and migrations over a database that may commit late | implements `SchemaUpgrade` |
| `Series`, `MCSeries` | the two rollups, their policies, and the answers of GET /api/series | `RawAnswer` is the reference of `Answer` |
| `Forwarder` | the forwarder and the backfill over InfluxDB, side by side | the server is the set of points it has |
| `Bench` | the load harness: workers, global sequence, merge, counts | the server is the set of rows that landed |
| `MCClients` | instances of `Bench` and `Forwarder` | |
| `CollectorProofs`, `AlerterProofs`, `ControlPlaneProofs`, `IngestProofs`, `MigrateProofs`, `SeriesProofs`, `ForwarderProofs`, `BenchProofs` | theorems about the module each is named for | |

**Collector.** `disk` is the set of `*.json` files (index, batch); a batch is
the number of the `reader.read()` that made it, so chronological is `<`.
`AcqRead`, `AcqEvict`, `AcqName`, `AcqReplace` are the parts of one iteration of
`acquisition_loop` between which the sender can run: the listing `victims` is
taken once, each eviction, the naming and the rename are steps (the rename is
atomic, a `.tmp` file is invisible); `AcqDies` is the write or the rename on a
full disk, which ends the thread. The sender's listing is `todo`, its file
`cur`; `SndLoad` of a file that is gone ends the thread ("dead"), as in the code.
The code's listing has names only (`Listed`): the batches in `todo`, and in `cur`
when the load failed, are history, and say which batch the missing file held.
A POST ends in one of `PostOk`, `PostFailed` (known not stored), `PostAmbiguous`
(the copy stays in `copies` and may be applied by `LateApply` at any later time,
or be lost) or `PostRejected`. `Signal` sets the stop event; `Crash` and `Exit`
lose all but the directory. `journaled` and `evicted` are history variables.

**Alerter.** One action per lock section: `ReadRule` (RLock), `Transition`
(Lock), `Allow` (allowNotify under Lock), `Log` (InsertAlertLog, which may
fail). A worker is an ingest request; `Midnight` and `Restart` come in between.
Reload takes two steps, because it asks the database for the cap while it holds
the lock: between `ReloadLock` and `ReloadUnlock` no worker can take it
(`Unlocked`). A missing rule or bound is an empty set. `alertLog` and `unlogged`
count the rows inserted and the events whose insertion failed. As an `AlarmLog`,
the alarms are `state`, and what a worker carries between `Transition` and `Log`
is pending; `AlarmLog` lets an event arise only from a change of its alarm, and
a pending event be recorded once, be lost once, or be forgotten by a restart.

**ControlPlane.** A PUT runs `PutInterval`, `PutCap`, one `PutRule` per
threshold, then a Reload of two steps: `Read` without the lock, `Install` with
it (where the cap is read). The ticker's Reload has the same two steps. Each
statement may fail. The version counters are history variables: they say which
writes the cache reflects; `promised` holds the newest ones that a PUT which is
done has installed.

**Ingest.** A client sends its backlog in order; `Timeout` ends its wait but not
the handler's work. A handler goes through `Validate` (401 without a known
token, 400 for any bad reading, a source other than the token's among them),
`InsertChunk` (one statement each, ON CONFLICT DO NOTHING) or `InsertFails`
(before or after the statement committed), `RecordIngest`, `CheckReading`,
`Respond`. `SourceForToken` is what parseIngestTokens and TokenAuth make of the
pairs of INGEST_TOKENS: of two pairs with one token the later holds. `Snapshot`,
`TotalRows` and `SourceLastSeen` are the three reads of GET /metrics.

**Migrate.** `Command(f)` is what the boot sends next for file `f`: a
transaction, a statement or a record. A process that fails or is killed leaves
its command in `orphans`, from where it may take effect later, under the next
process too. `SchemaUpgrade` knows no process: there a file is upgraded in a
transaction, or statement by statement and then recorded, always the next file
in order; `serving` is `pc = "serve"`.

**Series.** One channel. Readings are never changed or deleted, so what a rollup
has materialized is the set `seen` of readings that a refresh has seen; below
`watermark` a SELECT on the rollup uses `seen`, from there on the table
(`Visible`, real-time aggregation). `Refresh` is one run of a policy over the
whole buckets between now - start_offset and now - end_offset. How far the
watermark moves depends on the other channels of the rollup and is left open
between the last bucket with a reading of this one and the end of the window.
`Answer` is the SQL of querySeriesRollup over `RollupRows`, the rollup's GROUP
BY; averages are fractions, so that equality is exact. What TimescaleDB does
(time_bucket, windows aligned inwards, union at the watermark) is external and
modelled from how the migrations use it.

**Forwarder.** The unit of time is one poll: `CollectTemperatures`,
`CollectPressures` and `PostFound` come between two `Tick`s, and the steps of a
backfill anywhere. `Points` is what InfluxDB ever records; a query sees a point
from its time until it expires. The forwarder's second query is skipped when the
first fails; a post that times out may be stored all the same. The backfill
appends a day of temperatures and one of pressures, flushes chunks of
`FillBatch`, and any failure ends it (`FillEnds`).

**Bench.** `Claim` and `Draw` are the two atomic additions, `Send` is the request
with its three outcomes (stored, not stored, timed out and possibly stored
later by `LateLands`), `MergeRead` and `MergeWrite` the unlocked `merged.ok +=`.
`sent` is a history variable.

Modules also hold definitions marked *faulty variant*: each is a definition of
the model with a plausible slip in it (a dropped guard, an off-by-one). They are
not part of any specification; replacing the correct definition by one of them
must violate a property, which shows that the property depends on that code.

## 3. What the runs check

| run | instance | shows |
|---|---|---|
| `collector` | bound 2, 3 batches, 2 attempts, 4xx possible, a full disk, 2 kills or stops | `NoSilentLoss`, `ChronologicalNames`, `DeliveredInOrder`, `CapacityRespected`, `SenderDiesOnlyByEviction`, `RemovedOnlyWhenAnswered`, refinement of `DeliveryQueue`, and `EventuallySettled` under fairness |
| `collector_sender_dies` | bound 2, 4 batches, 2 attempts, no kill and no 4xx | **violated** `FreshDataKeepsFlowing` (finding 1) |
| `alerter` | one metric, 2 workers, 2 requests, 2 rules, caps 1 and 2, 2 days, 2 reloads, 1 restart | refinement of `AlarmLog`, `CapRespected`, `SuppressedOnlyAtCap`, and `CheckEnds` under fairness |
| `alerter_restart` | one worker, cap 1, one day | **violated** `HardCeiling` (finding 2) |
| `control_plane` | 2 administrators, 5 bodies, 2 PUTs, 1 failed statement, 1 restart | `CacheWasStored`, `CapTakesEffect`, `CacheConverges`, `CollectorFollows` |
| `control_plane_stale` | one PUT, nothing fails | **violated** `BoundsTakeEffect` (finding 3) |
| `ingest` | a client that retries and one that does not, 4 batches, a token given twice and one unknown, 2 handlers, chunks of 2, 1 failure, 1 timeout, 1 restart | `AckedIsHandled`, `RefusedLeavesNothing`, `OwnSourceOnly`, `CountedOnce`, `MetricsConsistent`, `StoredIsChecked` |
| `ingest_stale` | two sources of one metric, nothing fails | **violated** `OneEventPerCrossing` (finding 4) |
| `series` | 2 rollups, 3 readings of 2 values at 10 times, queries by second, minute and two minutes, over two ranges | `ExactOnWholeSteps`, `LiveRowsShown`, `ShownStaysShown`, `LateRowsShown` |
| `series_coarser` | the same, with a step of one and a half minutes | **violated** `CoarserAverageExact` (finding 5) |
| `clients` | Bench: one producer with 2 requests of 2 readings, 2 producers with 2 requests of 1 or 1 of 2, two workers each, 1 other row, 1 failed count. Forwarder: 6 points of 2 series, lookback 2, retention 4, 2 days of 2, 7 polls, 2 failures, 2 backfills | `SentOnce`, `DeltaCoversOk`, `BackfillComplete`, `LastPointArrives` |
| `migrate` | the 5 files, 2 of them without transaction, 3 failures, 2 kills, 2 attempts | refinement of `SchemaUpgrade`, `NeverHalfRecorded`, `ServesMigrated`, and `EventuallyServes` under fairness |

**Bounds.** `MaxReads`, `MaxRestarts`, `MaxRequests`, `MaxReloads`, `MaxDays`,
`MaxPuts`, `MaxFailures`, `MaxTimeouts`, `MaxKills`, `MaxRuns`, `MaxOtherRows`,
`MaxCountFails` and `Horizon` stop counters that have no
bound in the program. Three batches are the least in which one is sent, one is
listed and one is written; two attempts are the least with a retry and a last
attempt; two workers or administrators are the least that overlap, and the code
has no step that involves three; a chunk of two rows makes a batch of three a
full and a partial chunk. The theorems of section 4 hold for every
value of the bounds. The indices of the files and the versions are integers
without width: Python's are unbounded, the Go counters count events. The names
of files have twelve digits, so that their order is the order of the indices
below 10^12. In MCSeries a second has two ticks and a minute two seconds, the least
in which a bucket holds several readings and a step straddles one; the offsets
keep the order end_offset > bucket and start_offset > end_offset + bucket, and ten
ticks of clock reach the window's start. Three readings are two in one bucket
and one in another, which is what tells a weighted average from an unweighted
one. Floating point rounding is left out. In
MCClients the points are such that a poll sees a series with a new point at
every poll, one that is quiet beyond the lookback, and a gauge switched off; seven
polls outlive the retention, so that points expire under a backfill; two failures
are the least that hit a poll and a backfill, or two polls in a row.
`LastPointArrives` is about failures up to the lookback, and two is all of it.
The harness with two workers and two producers has every pair of actors that
share a counter; that all of its readings are of one metric is so in the code.

**Fairness.** Collector: its threads run, a POST ends (every request has a
timeout), the supervisor starts the process again (`restart: unless-stopped` in
`deploy/docker-compose.yml`), and a server that is tried for ever answers in the
end (strong fairness of `PostOk`, needed only for `EventuallySettled`).
Alerter: a worker that can go on again and again does (a RWMutex lets a waiting
goroutine in after the holder: strong fairness, as a Reload may hold the lock
each time it looks), and Reload's query of the cap answers or fails, so that
it unlocks. ControlPlane: a handler and the ticker run to the end; the
collector polls for ever and an answer gets through in the end. Failures are
finitely many (`MaxFailures`), as no cache can follow a database that always
fails. Ingest: some handler goes on while one can, and some client that has a batch sends it; as requests are
finitely many, this is enough. Forwarder and Bench state no fairness: their
properties are safety. Series: the policies' jobs run on
their schedules; no reading need arrive. Migrate: the boot runs and is
repeated.

**Deadlock** is checked in the control plane runs: the system must always be able
to go on. It is off where the system really stops: a collector whose threads
have died, a backlog or a number of requests that is used up, a server that
serves (the boot is over), the end of the clock in Series and Forwarder. That an
alert engine does not come to a halt on its lock is `CheckEnds`.

## 4. What is proved

`CollectorProofs` proves, for every value of the constants (`CollectorAssumption`
only says that they are natural numbers and that there is an attempt):

| theorem | statement |
|---|---|
| `Invariance` | the inductive invariant `IInv` |
| `TypeCorrect` | `TypeOK` |
| `LossFree` | `NoSilentLoss`: a journaled batch is on disk, stored, refused or evicted |
| `NamesInOrder` | `ChronologicalNames` |
| `InOrder` | `DeliveredInOrder` |
| `DiesOnlyByEviction` | `SenderDiesOnlyByEviction`: the batch whose load ended the sender had been evicted |
| `UnboundedSenderSurvives` | with `MaxBatches = 0` the sender's load never misses its file |
| `Capacity` | `CapacityRespected` |
| `AnsweredOrCounted` | `RemovedOnlyWhenAnswered` (an action property) |
| `Refinement` | `ImplementsDeliveryQueue` |

None of the properties is inductive alone. `IInv` strengthens them by what the
two threads rely on about each other's stale listings:
`FilesInv` (every index on disk is below the counter and below the index being
written, and indices and batches are ordered alike), `AcqInv` and `SweepInv` (a
listing has no gap below its entries: a file older than a listed one is listed
too, or is the one being sent), `SendingInv` (the file being sent is the oldest
on disk, or it was evicted and its batch is settled), `EvictionInv` (each listed
file is still on disk or its batch was evicted) and `SettledInv` (what is
settled is a prefix of what is journaled, also for requests under way).
In-order delivery follows from the last; that it is kept needs the lemmas
`SendingPrefix` and `EvictedPrefix`: nothing older than the batch that is sent
or evicted is still owed. `Capacity` needs a second invariant, `CapInv`:
enqueue's listing covers the directory, which only shrinks behind it, so that
evicting down from the listing makes room. `Refinement` maps `accepted` to
`journaled`, `delivered` to `stored`, `abandoned` to what was refused or evicted
and not stored; each step then is `Accept`, `Deliver`, `Abandon`, `TurnUp` or a
stutter.

`AlerterProofs` proves, for every set of metrics, rules, caps and batches and
every finite set of workers (`AlerterAssumption`):

| theorem | statement |
|---|---|
| `AlerterTypeCorrect` | `TypeOK`: also, a worker carries an event exactly between `Transition` and `Log` |
| `CapHolds` | `CapRespected` |
| `SilencedOnlyAtCap` | `SuppressedOnlyAtCap` (an action property) |
| `AlarmRefinement` | `ImplementsAlarmLog` |
| `CeilingTimesLives` | `CeilingPerLife`: when no cap of the day is 0, a day's emails are at most (restarts + 1) times its highest cap |
| `HardWithoutRestart` | with `MaxRestarts = 0`, `HardCeiling` |

`CapRespected` follows from `CapInv`: the cap in the cache is one of those in force
today, the counter's day is not in the future, what the counter says of today is
under one of those caps, at most what was sent, and exactly that on a day without
a cap of 0 (which sends without counting). `SilencedOnlyAtCap` needs the same
bound from the other side. The refinement counts, for each event, the workers that carry it:
`TakesUp` and `PutsDown` say that a `Transition` adds one and a `Log` takes one away.

The last two measure finding 2. `LivesInv` counts the emails of earlier lives:
each has sent at most the highest cap of the day (`LifeAtMost`, from
`CapRespected`), and a restart moves what this life has sent to them.

`SeriesProofs` proves, for every width of bucket, policy, value and set of
queries (`SeriesAssumption`: natural numbers, a minute of at least two seconds):

| theorem | statement |
|---|---|
| `SeriesInvariant`, `SeriesTypeCorrect` | the inductive invariant, `TypeOK` |
| `LiveReadingsAreShown` | `LiveRowsShown` |
| `ReadingsStayShown` | `ShownStaysShown` (an action property) |
| `AutoStepReadable` | resolveStep: at most 744 points over 90 days, whole buckets |
| `CoarseAveragesExact` | `ExactOnWholeSteps` |
| `NoneLostOrRepeated` | `EachReadingOnce`: also when steps cut buckets (finding 5), over a range of whole buckets the answer accounts for each reading once |

The strengthening is `MaterializedInTime`: no watermark lies beyond now -
end_offset. It is kept because a window ends on a bucket boundary no later than
that (`WindowBounds`, from `BucketBelow` and `BucketOfBucket`), and the clock only
moves away. `ReadingsStayShown` is proved by cases on where a reading lies: above
the new watermark, between the two (then it is in the window) or below both.

`CoarseAveragesExact` compares two ways to group the same readings, and needs
facts about buckets and about sums. Buckets nest: when a step is made of whole
buckets, the step in which a reading lies is the step in which its bucket begins
(`NestedBuckets`), and the bucket of a reading in a range of whole buckets begins
in the range. Sums are the folds of the community modules, of which only the
definition is available. It determines a sum by its values on smaller sets, so
two sums that agree on how an element is taken away are equal: were they not, there
would be a smallest set on which they differ (`SmallestSubset`, from the
well-foundedness of strict subsets, in place of an induction; `SumsAgree`,
`SumExists`). From there: taking away any element (`SumRemove`), disjoint sets
(`SumDisjoint`), a sum over parts is the sum of the parts' sums (`SumOfParts`). A
rollup row carries the sum and the count of its bucket, so a mean weighted by
counts is the mean of the readings (`WeightedMeanOfParts`). For `EachReadingOnce`
the steps need not be made of buckets: each row goes into exactly one step
(`OverSteps`), so that what a reading is missing from one step it is in another, and finding 5
is about where it counts, never about whether.

`ControlPlaneProofs` proves, for any administrators, bodies, rules and bounds
(`ControlPlaneAssumption`; the ticker is no administrator):

| theorem | statement |
|---|---|
| `ControlPlaneInvariant`, `ControlPlaneTypeCorrect` | the inductive invariant, `TypeOK` |
| `CacheIsFromTable` | `CacheWasStored` |
| `CapIsInEffect` | `CapTakesEffect` |
| `OnlyOverlapsUndo` | `OnlyOverlapUndoes` (an action property): the rules of a PUT go out of effect only when a Reload installs that had read before, never by one that begins later |

What a Reload has read and not installed is part of the argument: its snapshot,
like the cache, holds rules that were in the table as a whole, of a version that
is no newer (`WasStored`). For the cap, `promised.cap <= cacheVersion.cap <=
dbVersion.cap` is kept because `Install` reads the cap while it holds the lock, so
that no installation goes back behind an earlier one. The corresponding chain for
the rules is not kept, which is finding 3; what is kept is `promised.rules <=
dbVersion.rules`, so that what a Reload reads is never older than what was promised
when it read, and `OnlyOverlapsUndo` says that nothing but an overlap does the harm.

`IngestProofs` proves, for any clients, backlogs, tokens, chunk size and finite set
of handlers (`IngestAssumption`; `RecordedOnce`: a source records one value under a
key, whatever batches carry it, which is the abstraction of section 6):

| theorem | statement |
|---|---|
| `IngestInvariant`, `IngestTypeCorrect` | the inductive invariant, `TypeOK` |
| `AckedAreHandled` | `AckedIsHandled` |
| `RefusedAreNotStored` | `RefusedLeavesNothing` |
| `TokensWriteTheirSource` | `OwnSourceOnly` |
| `RowsCountedOnce` | `CountedOnce` |
| `MetricsAreConsistent` | `MetricsConsistent` |
| `OneEventInOrder` | the part of `OneEventPerCrossing` that holds: as long as no request timed out, a metric that one client posts in the order of time (`InTimeOrder`) has no more events than crossings |

`HandlerOK` says of each step of a handler how much of its batch is in the table
and has been checked, and that a handler past `Validate` works for a batch with a
known token. A conflict is where `RecordedOnce` is used: a row that is already there
under the key is the reading itself, so a duplicate counts as stored. `RefusedInv` keeps that rows
come from accepted batches and that no refused batch is one. A client that
retries goes on only when it is answered (`AnsweredInv`), and 400 and 401 are never
for an accepted batch, so that what it leaves behind and passes validation was
acknowledged: `AckedIsHandled` then holds for it too, whatever failed, timed out or
was restarted in between. For
`CountedOnce`, `CountInv` follows, per source, the sum over the handlers; that one
step changes one summand is `PileStep`. `MetricsConsistent` needs more than the
counters: `ReportInv` keeps that the rows of a report are, source by source, at most
those in the table, and `SumBound` makes of it a bound on the sums, by an
injection of the counted rows into the table. That a non-empty set of times has a
last one is shown from the well-foundedness of strict subsets (`Highest`,
`FirstAndLast`).

`OneEventInOrder` bounds finding 4: failures and restarts do not make the alarm
flap, only readings out of order do. Its invariant `EventsUpTo` has a time t that
the alerter has reached: the events so far are at most the crossings of the stored
series up to t, the alarm is as the reading at t says, and every reading whose
check is still to come is later than t. A batch is stored as a whole before any of
it is checked, so a client that sends it again after a failure repeats no check;
only a client that stops waiting while its handler goes on does, which is why the
theorem speaks of runs without a timeout (`OneHandler`, `NotPendingAgain`). Rows
stored later do not change the crossings up to t (`CrossedStays`), and a check that
raises an event passes a crossing (`CrossesBetween`). A restart begins again at 0.

`MigrateProofs` proves, for any number of files, of statements in each and of files
without transaction (`MigrateAssumption`):

| theorem | statement |
|---|---|
| `MigrateInvariant`, `MigrateTypeCorrect` | the inductive invariant, `TypeOK` |
| `RecordedIsWhole` | `NeverHalfRecorded` |
| `FilesInOrder` | `InLexicalOrder`: no statement of a file takes effect before all earlier files are recorded |
| `ServedIsMigrated` | `ServesMigrated` |
| `UpgradeRefinement` | `ImplementsSchemaUpgrade` |

The point is the orphans. `Due` says of a command what had to be in the database
when it was sent: all lower files recorded, and before a record the whole file in
effect. As `effects` and `recorded` only grow, what was due stays due (`DueStays`), so
that an orphan may take effect at any time, under any later process. For the
refinement, a command that takes effect, sent by this process or left by another,
is an `Upgrade`, a `RunStatement` or a `RecordFile` of the next file
(`ExecuteIsPromised`), as an orphan of a file already recorded fails on the primary
key; every other step is a stutter, `Serve` or `Stop`.

`ForwarderProofs` and `BenchProofs` prove, for any points, days, lookback and chunk
size (`ForwarderAssumption`), and for any flags, producers and workers
(`BenchAssumption`):

| theorem | statement |
|---|---|
| `FeedInvariant` | the inductive invariant of the two readers of InfluxDB |
| `BackfillLeavesNoGap` | `BackfillComplete` |
| `LastPointsArrive` | `LastPointArrives` |
| `BenchInvariance` | the inductive invariant of the load harness |
| `EachRequestOnce` | `SentOnce` |
| `ReportClaimsNoMore` | `DeltaCoversOk` |

`FillInv` follows the backfill: the days it has swept (`Swept`) are stored or in
its batch, and the batch is emptied only by storing it. `PollInv` counts: a last
point that is missing has cost one failure for each poll in which it was the last,
except for the poll under way. In the harness a slot claimed and a number drawn
belong to one worker (`ClaimsInv`, `NumbersInv`), and `CountsInv` accounts for each
claim as ok, failed or under way. For `DeltaCoversOk` every request reported ok is a
credit (`Credits`): as many rows as their batches hold have landed, because a
number once drawn is new to the table, and what has been merged, or read for a
merge, are at most the credits of producers that are done (`Merged`), so that the
race can only lose some.

Only model-checked: liveness (`EventuallySettled`, `CheckEnds`, `CacheConverges`,
`CollectorFollows`, `StoredIsChecked`, `EventuallyServes`, and `LateRowsShown`),
which the provers do not support. Every other property of a passing run is a
theorem, and of each of the five findings a theorem says how far it goes:
`UnboundedSenderSurvives`, `CeilingTimesLives`, `OnlyOverlapsUndo`,
`OneEventInOrder` and `NoneLostOrRepeated`.

## 5. Findings

1. **The sender thread dies on an evicted file** (`collector.py:150`).
   `buf.load(path)` has no handler; with a bounded buffer, enqueue may evict a
   file of the sender's listing, `FileNotFoundError` ends the thread, and the
   process goes on journaling and evicting with no delivery until it is
   restarted. `buffer.py:31-33` wants the freshest data to flow.
   `FreshDataKeepsFlowing` asks for an answer of the server again and again while
   batches wait on disk and the acquisition thread lives; that old batches are
   evicted does not satisfy it. In the run's trace the sender dies on an evicted
   batch, acquisition goes on to batch 4, and batches 3 and 4 stay on disk for ever.
   By `UnboundedSenderSurvives` this needs `buffer_max_batches > 0`.
2. **The daily cap is not a hard ceiling** (`alert.go:44`): the counter lives in
   memory, so each restart allows the cap again; `0005_alert_email_cap.sql:3-5`
   says "hard ceiling". By `CeilingTimesLives` a day with n restarts sends at most
   n + 1 times its highest cap.
3. **New bounds can be undone** (`alert.go:81`): Reload reads outside the lock;
   a ticker's Reload that read before a PUT can install after the PUT's.
   `config.go:118-119` promises that they take effect at once. `CacheConverges`
   shows that the next tick repairs it, `OnlyOverlapsUndo` that no Reload which
   begins after the PUT does it, and `CapTakesEffect` that the cap, which is
   read under the lock, is not affected.
4. **Old points raise alarms** (`ingest.go:88`): duplicates and old readings go
   through Check, and the alarm is keyed by metric, so two sources of a metric,
   one of them posting an old point again, make it flap. By `OneEventInOrder` a
   metric of one client that posts in the order of time and waits for its answers
   has at most one event for each crossing, whatever fails or restarts.
5. **Coarser averages are exact only for whole minutes** (`store.go:161`): a step
   such as 90s, which `stepPattern` accepts, is answered from readings_1m, where a
   minute goes as a whole into the step in which it begins. `store.go:158-159` calls
   the coarser average exact. `ExactOnWholeSteps` shows that it is for steps and
   ranges of whole buckets, `AutoStepReadable` that the automatic steps are, and
   `NoneLostOrRepeated` that the other steps move readings between rows but lose none.

Observations without a promise to hold them against: readings that arrive later
than start_offset (2 days for readings_1s, as a backfill does) are not
materialized by the policy and do not show in charts with a step below a
minute; the raw path of QuerySeries is reached only by `step=0s`, which
time_bucket refuses; a range that does not begin on a bucket leaves its first,
partial bucket out; an alarm that goes on over a restart is raised and emailed again
(`alert.go:43`; `Store.LastAlertTime`, whose comment describes the lookup that would
prevent it, has no caller); a Check may wait for a Reload that asks the database
under the lock (`alert.go:91-98`), while `alert.go:123` says that it never blocks
its caller on network I/O; `alert_log.notified` is written before the email is
sent, and nothing corrects it when the sending fails; `db_rows_delta` of the load
harness is a lower bound, not a "true landed count" (`bench/main.go:157-160`),
when other sources write meanwhile or a request that timed out is stored, and
has no meaning when one of its counts failed (0 or -1); the harness adds
`merged.ok` and `merged.errs` without the lock and may lose counts, also errors
(`bench/commands.go:105-106`).

## 6. Abstractions and what is not modelled

- The process is killed, the machine is not: no loss of power, no fsync; the
  rename is atomic. A full disk raises in `write_text` and ends the acquisition
  thread (`AcqDies`).
- A listing of the directory is taken at one point in time.
- In Collector a batch is one value: Ingest shows what happens to its rows.
  Waits (`progressed`, backoff times) are only the possibility to wait.
- In Alerter a reading has no source, since the alarm has none either;
  notifiers' I/O follows the decision and changes nothing.
- In ControlPlane GET is reduced to the interval, and a PUT with an empty metric
  (400 half way) is the same as its upsert failing. LS350's `fetch_interval` has
  the shape of the collector's poll.
- In Ingest a key (source, metric, ts) always has one value: a source sends what
  it has recorded.
- Empty batches, which change nothing, are left out of Ingest, and so are the
  rates and the time of the last ingestion in GET /metrics.
- In Forwarder a point is visible in InfluxDB at its own time, and all sources of
  the harness differ (two producers with one source would share its rows).
- What some properties allow. `RemovedOnlyWhenAnswered` permits `dropped` to count
  a file that the sender had delivered meanwhile, as `enqueue` does; the number
  goes to a log line only. `AlarmLog` lets a restart forget the alarms, so an alarm
  raised again by the next process is within it. `DeltaCoversOk` says that the
  harness never claims too much: counts that its data race loses make it claim less,
  and reports with a failed count are left out.
- In Migrate a statement that runs again on its own effects succeeds, as
  `migrate.go:78-80` requires of the files; whether the SQL of each file meets that
  is not looked into, so `EventuallyServes` rests on it.
- Not modelled: the login and the JWT of administrators (a stateless check in
  front of PUT, whose failure changes nothing); the admin panel, whose bodies are
  among those of ControlPlane (that a panel opened earlier overwrites later
  changes is so by design: the last writer wins); the dashboard, which only
  displays; routing and settings; readers, notifiers and serial protocols (pure
  I/O); the reading load and the measuring scripts; deployment.

## 7. Plan

Done: Collector with DeliveryQueue (the most important promise: no data lost, in
order), the server side (Alerter with AlarmLog, ControlPlane, Ingest with tokens and
GET /metrics, Migrate), the read side (Series), the forwarder, the backfill and the
load harness; three refinements (`DeliveryQueue`, `AlarmLog`, `SchemaUpgrade`);
theorems about each module, of every property of a passing run but liveness. Left: the reading load and the restart measurement of the
harness, should their reports come to promise something.
