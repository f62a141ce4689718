# TLA+ models of mes-data-poller-service

The service copies driving examiners' data from a replicated TARS database
(Aurora MySQL) into DynamoDB tables that the examiner app's back end reads. It is
five AWS Lambda functions: four pollers, invoked on a schedule, and a reaper. No
function calls another; they meet in the tables they write, and an invocation
meets the next one in the memory of the container (the Lambda execution
environment) that runs both. This directory holds TLA+ models of them, the TLC
configurations that check the models, and TLAPS proofs about the four pollers.

## Inventory

| Component (under `src/src`) | State | Operations | Hard because |
|---|---|---|---|
| Journals poller, `functions/pollJournals` | the `journals` table; per invocation the query results, the journals built, the write batches | query examiners, query datasets, build, filter by hash, throttled batch save | failures at every await, unprocessed items, out of time, timeout, restart |
| Journal hashes cache, `.../journal-hashes-cache.ts` | `hashes`, `previousStartTime`, kept by a warm container | `isValid`, `get`, `clearAndPopulate`, `update` | trusted on elapsed time alone, while other containers and the reaper write the table |
| Journals reaper, `functions/reapJournals` | `journals` table | scan for rows three months old, delete one by one | the poller writes between scan and delete |
| Users poller, `functions/pollUsers` | `users` table | query, scan, batch puts, deletes | unprocessed items are ignored, `Promise.all` leaves requests behind, mapping errors become "no users" |
| Test centre poller, `functions/pollTestCentreExaminers` | test centre table | query, scan, deletes, puts | query errors, and one record that cannot be mapped, become "no rows"; puts rejected for one key; rows of an older format |
| Delegated bookings poller, `functions/pollDelegatedBookings` | delegated bookings table | query, scan, deletes past retention, puts | query errors become "no bookings"; two bookings with one reference |
| Configuration, `common/framework/config` | module-level `configuration`, kept by a warm container, with passwords that expire | bootstrap in every invocation | errors are swallowed and the old configuration stays, or half of the new one |
| MySQL access, `common/framework/mysql` | connections, pools | connect, query, end | pools that are never ended, or not after a failure, against the limits of databases that all pollers share |
| DynamoDB client, `common/framework/dynanmodb` | none | `fullScan` | a page fails half way |
| Journal datasets, `.../databases/mysql/*-repository.ts`, `journal-builder.ts` | per invocation: the rows loaded so far | six queries over different windows, five chunks of examiners, group by examiner | windows that meet at a day, queries on several connections while the databases change, a failing query taken for no bookings |
| Row mappers, compressor, S3 mocks, schemas | none | pure or pure I/O | not concurrent |

What makes each correct: the journals table comes to hold every listed
examiner's journal, and a cached hash is never trusted when the table says
otherwise; a journal holds each record of its window once, and no other
examiner's; the reaper removes leavers' rows and no others; the other three tables
come to equal what the queries return, nobody active is removed meanwhile, and
bookings stay for their retention period; what a warm container keeps (tokens,
connections) neither degrades a table nor stops a poller for good. `PROJECT.json` lists the hazards, with
their lines, that could break this.

## Modules

* `JournalPoller` models the journals poller with all its containers and their
  caches. One action per stretch of code between two awaits.
* `JournalSystem` EXTENDS it with the reaper: the composition of both writers of
  the table.
* `JournalQuery` looks inside the phases that `JournalPoller` has as
  `QueryExaminers` and `BuildJournals`: what becomes of each record. It stands by
  itself, since nothing before the filter depends on the table or the cache.
* `PolledTable` has what the other three pollers share: the query, `fullScan`, a
  phase of parallel requests behind `Promise.all`, and how an invocation ends.
  `UsersPoller`, `TestCentrePoller` and `DelegatedPoller` EXTEND it with their own
  reconcilers, phase order and properties.
* `TableFollower` is the abstract specification of those three: a table that follows
  a source. Each of them is shown to implement it.
* `WarmContainers` models what containers of all four pollers keep besides the
  hashes: the configuration with its tokens, and the connections that were not ended.
* `MC...` modules extend these with symmetry sets and values for the runs;
  `UsersPoller` needs none and is run itself.
* `JournalPollerProofs`, `JournalSystemProofs`, `JournalQueryProofs` and
  `WarmContainersProofs` hold the theorems about the modules of those names.
  `PolledTableProofs` has the lemmas about the steps of `PolledTable`;
  `UsersPollerProofs`, `TestCentrePollerProofs` and `DelegatedPollerProofs` hold the
  theorems about the pollers on it.

### JournalPoller and the code

| Model | Code |
|---|---|
| `Start`, `End` | `handler.ts`: `startTime` at the start; a response or a 500 at the end |
| `QueryExaminers` | `getJournalDetails` up to the examiners; with none, `reduce` of an empty array throws |
| `BuildJournals` | the datasets and `buildJournals`; "omitted" examiners are those with a non-numeric or duplicate staff number |
| `CacheHit`, `CacheMiss`, `ScanPage` | `getStaffNumbersWithHashes`, `isValid`, `clearAndPopulate`, then `filterChangedJournals` |
| `SaveJournals` | `saveJournals` up to its first await, with `update(startTime, [])` |
| `SubmitBatch`, `BatchWritten`, `BatchFails`, `Finish` | the loop of `submitSaveRequests`: `runOutOfTime`, the batch write, unprocessed items, `update(startTime, writtenHashes)` |
| `PhaseFails` | any query, the builder or a scan page throws |
| `Restart` | the platform kills the invocation or the container |

The code compares instants only with one another. The model keeps ages instead:
`runAge` since `startTime`, `prevAge` since `previousStartTime`, `rowAge` since
`lastUpdatedAt`, each capped where no comparison tells larger ages apart
(`Expired`, `RowAgeCap`). `previousStartTime = null` is an expired age, and so is
any difference above 1.2 times the frequency. `latest`, the container of the
latest start, is history. `lastUpdatedAt` is taken when the journal is built
(`builtAge`), not when the row is written.

`BuildJournals` may read contents that the source does not hold, as one of the
counted faults: a failed DSP query returns no slots instead of an error, and the
datasets are read one after the other while the replica changes.

### JournalQuery and the code

| Model | Code |
|---|---|
| `JournalEnd`, the windows | `getJournalEndDate() \|\| nextWorkingDay`; `windowStart`, `windowEnd` of each repository |
| `RowsOf`, `QueryExaminers` | `getExaminers`: one row per status of a listing, in any order |
| `PersonalCommitments`, `NonTestActivities`, `AdvanceTestSlots`, `DeploymentsTouched`, `TestSlots`, `DSPTestSlots` | the where clauses |
| `LoadDataset`, `DSPFails`, `LoadTestSlots` | one answer of a `Promise.all`, in any order; the catch of `getDSPTestSlots` |
| `BuildJournals`, `Kept`, `JournalOf` | `buildJournals` with `filterNullAndDuplicateJournals` and `enrichJournalWithDataset` |
| `QueryFails`, `Leave` | an exception, or on to the filter |

Days count from `startDate`; an instant is the beginning of a day or later on it,
which is all the comparison in the DSP query tells apart. A record has the
attributes the where clauses look at, and no id: a slot that is moved is another
record. A slot has at most one booking that is not cancelled; the rows of one
commitment (a row per affected slot) or deployment (a row per programme day) are
one entry. Slots are rows of the view `WORK_SCHEDULE_SLOTS`, and a listed examiner's
status has begun. `GET_DSP_BOOKINGS` is taken as set. `steady`, history, has the records
that were there from the start of the invocation until now, less the bookings if
the DSP query failed; `SteadyRecordsPresent` is about them.

### The other pollers and the code

| Model | Code |
|---|---|
| `Query`, `QueryReturnsNothing` | the MySQL query; the catch blocks that return `[]` |
| `ScanPage` | `fullScan` |
| `Send` | the `map` of `ddb.send(..)` and its `Promise.all`; per reconciler `CacheStaffDetails`, `UncacheStaffNumbers`, ... |
| `RequestLands` | one of them takes effect, in any order |
| `Unprocessed` | `cacheStaffDetails` ignoring `UnprocessedItems` |
| `Abandon`, `StrayLands`, `StrayIsLost` | an error or a timeout ends the invocation; what was sent lands later or never |

A batch of 25 users is 25 requests: DynamoDB does not apply a batch atomically.
A failing request is itself left as a stray, since a failure does not say whether
the item was written. Details are model values. In the users poller a key with
two or more details stands for duplicate staff numbers, identical records
included, whose details the code never looks at; in the other two it stands for
several records of one key, which the code does not notice. `left` and `clean` are history: the keys without a record at
some time of the invocation, and the invocations that had no other invocation, no
stray and no unprocessed item beside them. `SuccessMeansCurrent` is about the latter.
`DelegatedPoller` adds the history variable `overtaken`: the keys whose row a put has
replaced while a delete of it was under way, or might still follow from a scan. It
restricts no step (`Next == Steps /\ Overtake`) and is only read by
`RetainedUntilExpired`: the requests have no condition, so a delete that a put has
overtaken removes whatever it finds, and whatever a delete removes otherwise is past
the retention when it takes effect.

In the test centre poller one `Malformed` record makes the whole result empty
(`BuildTestCentreRows`: `JSON.parse` throws, and the error is caught with those of
the query), and a key in `NonNumeric` stands for the key `null` of every record
whose staff number is no number: its put takes no effect and makes `Promise.all`
reject (`PutRejected`), whatever has become of the others.

### TableFollower and the pollers

`TableFollower` has the source, the rows and `offers`, the writes that may still
happen. Reading offers what the records then give rise to: to remove rows without a
record, to put records (in the users table only if a key has one). A fault, or a
malformed record, makes the source look empty. Offers are carried out in any order,
more than once, late or never; nothing else changes a row. The refinement mapping
keeps `source`, `rows` and `faults` and defines `Offers`: the strays, the requests
under way, and what an invocation that has queried may still send, up to its last
phase. So a row never shows what the source did not hold at some time, and goes only
when the source had nothing for it at some time, or seemed to. The three runs check
`Follower!Spec` as a property.

### WarmContainers and the code

| Model | Code |
|---|---|
| `TokenFetched`, `DesTokenFetched`, `BootstrapFails` | `bootstrapConfig` replaces the configuration after the token of the replica has come, `bootstrapDESDatabaseConfig` adds the DSP's; an error leaves what there is at that point |
| `Connect`, `CannotConnect` | `getTARSConnection`, `getConnectionPool`: an expired password, no configuration, or a database at its limit |
| `QueryAnswered`, `QueryFails`, `QueryFailed` | `query` ends its connection in `finally`; `poolQuery` does not; test centre and delegated pollers catch the error and go on with no records |
| `BookingsConnect`, `BookingsAnswered`, `BookingsFail` | `getDSPTestSlots` over a pool of its own |
| `DatasetsAnswered` | `connectionPool.end()` for the replica's pool; the DSP's is left |
| `Reconcile`, `ReconcileFails` | the table phase, which reads the configuration as well (`getDynamoClient`) |
| `Recycle`, `Tick` | external: containers are discarded, their connections closed with them or held by the databases until their idle timeout; tokens and idle connections age |

A table is `current`, or what an invocation without records or bookings makes of it.
A failed write of the table is `ReconcileFails`; the other modules look inside. The
run has no container of the delegated bookings poller: it uses connections as the
users poller does, and what an empty result does to its table is in `DelegatedPoller`.

## Runs

Bounds: `MaxChanges` source changes and `MaxFaults` failures, throttled or
unprocessed writes, restarts and wrong reads, at any point: 1 or 2 of each, and 1 of
each where two containers or liveness make the state space large. `DelegatedPoller`
has two failures, so that a delete left behind by one invocation can meet the row a
later one has put. One fault that
ends an invocation leaves behind any number of stray requests, an older cache or a
half-done save, so one is enough for what the properties tell apart. Two containers
are enough for one to be passed over; two journals with `BatchSize` 1 make two
batches, of which one can fail after the other; two contents let a row be older,
equal or different and let a value come back; a page of the scan is any set of keys,
so two keys make one or two pages. Times are scaled: a frequency of 5 ticks has its
20% at whole ticks, 4 and 6; `LambdaTimeout` is below it and below `MinGap`. In
`WarmContainers` a token outlives one invocation and not two (`TokenLife` 3,
`MinGap` 2), so that a container goes on with the earlier token and with an expired
one; a connection left behind outlives the start of the next invocation
(`IdleTimeout` 2); `Limit` is the least that `AmpleConnections` allows (7), so that one
connection too many would be missed by a poller. `JournalQuery` has one record at a time (records do not
interact) on every side of every end of the windows, scaled to a journal from
yesterday to tomorrow; two groups and up to three rows make full and partial
chunks, and examiners with no number, with one number for two, and listed twice.

| Run | Shows |
|---|---|
| `JournalPollerSingle` | one container, two journals, a save that may run out of time: types; a hit uses the hashes of the table; a save accounts for every polled journal and writes no unchanged one |
| `JournalPollerFleet` | two containers: hits are coherent, and happen only in the container of the preceding invocation; the inductive invariant `CoherenceInv`; eventually every listed examiner's row is current, for good |
| `JournalSystemReaper` | what the reaper removes had been inactive when it began, or was rewritten within its own running time; eventually leavers' rows are gone, for good |
| `JournalSystemStale` | *violation*: a removed row stays in the poller's memory, and its journal is taken for written |
| `UsersPoller` | overlapping invocations and strays: only users inactive at some time of the invocation are removed; an invocation that succeeds undisturbed leaves exactly what its query returned, duplicates aside; eventually the table equals the source, for good, and the poller stops writing; it implements `TableFollower` |
| `TestCentrePoller` | from rows of the old system, with failing queries, records that cannot be mapped and staff numbers that are no number: the same, except that the poller never stops writing, that the table is empty while a record cannot be mapped, and that other rows need not become current while a staff number is no number |
| `TestCentreQueryError` | *violation*: a failed query deletes the rows of active examiners |
| `TestCentreRewrites` | *violation*: unchanged rows are rewritten by every poll |
| `DelegatedPoller` | days pass, and two days of slots lie one each side of the retention: what a delete removes when it takes effect, a stray one included, is past it unless a put overtook that delete, also when the query fails; success, convergence, quiescence and refinement as for users |
| `WarmContainers` | journals, users and test centre pollers on one replica: connections left behind are no more than those named in `PoolsAccountedFor`; the test centre table is emptied, or journals lose their bookings, only by an invocation in which something failed, and not when only the bootstrap failed and the earlier token is good; once failures have stopped, all tables become current for good |
| `JournalQuery` | no record is in two journals or twice in one (a slot that moves between two queries is two records, and is not excluded); a journal holds everything that concerns its examiner and was there throughout |
| `JournalQueryLastDay` | *violation*: bookings of the DSP on the last day of the journal are left out, since `getJournalEndDate` returns a `DATE`, midnight, and their start is later |

`DegradedOnlyByFault` and `Recovers` are claimed for databases that accept as many
connections as the pollers need and leave behind (`AmpleConnections`). With fewer
they do not hold: failing invocations of the journals poller leave pools behind
that keep the test centre poller, in another Lambda, from connecting, and it
then empties its table.

Each violation contradicts a comment of the code that `PROJECT.json` quotes under
"findings".

### The schedule

The repository does not fix the schedule. `MinGap` is the least time between two
starts, in any container. `SerialSchedule` says that invocations do not overlap
(`MinGap > LambdaTimeout`) and that two gaps exceed 1.2 frequencies. `CleanFailures`
is another assumption, about failures: a batch write that throws has written nothing,
which nothing in the code (`journal-repository.ts:119`) makes so. Under both the cache
is coherent. Without the schedule a container that was passed over by another can find its cache of the
right age and trust it (with starts 2 ticks apart and a frequency of 5,
`HitIsImmediatelySubsequent` does not hold). Without `CleanFailures` a batch may be applied
and its answer lost: the cache was stamped before (`journal-repository.ts:45`), so
the next invocation trusts hashes behind the table, and a journal that went back to
its earlier content is not rewritten until a scan.

`JournalPollerFleet` and `JournalSystemReaper` check liveness and therefore have
`Leniency` and `TotalSaveDuration` 0: in scaled ticks a save then never runs out of
time. If every save did, the table would not converge, and nothing in the code says
that one succeeds. A save that runs out of time is in `JournalPollerSingle`.

### Fairness

Weak fairness of time (`Tick`), of the schedule (`Start` of some container: the
platform chooses which), and of each container's fault-free steps (`Proceed`), since
the code awaits nothing that need not answer. Faults are never fair and are finite
in number: retrying is left to the next invocation, and a poller whose every write
fails does not converge. A stray request lands or is lost in the end. Days need
not pass. In `WarmContainers` every container is invoked again and again, and the
faults are the failures of tokens, queries and table; running out of connections and
expired tokens are no faults but consequences.

## Proofs

`JournalPollerProofs` proves, for any containers, staff, contents and timings that
satisfy the assumptions of `JournalPoller`:

* `TypeCorrect`: `Spec => []TypeOK`;
* under `SerialSchedule` and `CleanFailures`, `CoherenceHolds` (`CoherenceInv`), `CacheHitsAreCoherent`
  (`HitIsCoherent`), `SavesAreExact`
  (`SaveAccounts`), `SavesAreNeeded` (`NoRedundantWrite`) and
  `HitsAreSubsequent` (`HitIsImmediatelySubsequent`).

`HitIsCoherent` is not inductive. A hit is coherent because of what happened an
invocation ago, in another container perhaps. `CoherenceInv` says it of every state:
a running container is the latest (`RunningIsLatest`), so only one writes; every
container's memory equals the table or is stamped so long ago that no tolerance
accepts it (`MemoryCoherentOrAged`), which a start of another container makes true
because two gaps lie between its stamp and its next start; a partial scan equals the
table where it has been (`ScanIsCoherent`); and during a save memory, table and
remaining work move together (`SavingIsCoherent`, `SaveAccounts`,
`NoRedundantWrite`). One lemma treats each action that touches what these relate
(`CoherenceTick`, `CoherenceStart`, `CoherenceScanPage`, `CoherenceBatchWritten`,
`CoherenceEnd`, `CoherenceRestart`), `CoherenceMove` the others; `Ages` is the
arithmetic of the 20% tolerance.

About the three other pollers, for any keys, details and pollers, any number of
changes and failures (`PolledTableAssumption`), and without any assumption on the
schedule:

* `UsersTypeCorrect`, `DelegatedTypeCorrect` and `TestCentreTypeCorrect`: types.
* `UsersFollowSource`, `DelegatedFollowsSource` and `TestCentreFollowsSource`: the
  refinement of `TableFollower`. The mapping's `Offers` are the requests under way,
  awaited or not, and what the invocations between their query and their last writes
  may still ask for. Type correctness is the only invariant needed; the argument is
  that no step but a query (or, in the test centre poller, a page with old rows) adds
  an offer: sending turns offers into requests, since every reconciler selects from
  what the result of the query implies, abandoning an invocation makes its requests
  strays, and whatever lands was offered. `PolledTableProofs` proves this of each
  shared step, for any phases; the three modules add their reconcilers.
  `TestCentreFollowsSource` also needs `TestCentreAssumption`: an old row is told
  apart from no row.
* `OnlyLeaversRemoved` (`RemovesOnlyLeavers`). It is not inductive: that a delete is
  for a leaver depends on what was read and when. `LeaversKnown` adds that the staff
  numbers without a record now are in `left`, that those without one in what was read
  are, and that a delete is only for the latter.
* `OnlyExpiredRemoved` (`RetainedUntilExpired`), which also needs `DaysAssumption`.
  A step that removes a row knows nothing of its age, and the delete may be that of an
  invocation long gone (`RemovedWereUnderWay`). `RetainsInv` says of every row of a
  booking that it is `Settled`: overtaken, or past the retention if a delete of it is
  under way and as scanned if one may follow from a scan. A put that replaces the row
  makes it overtaken (`ReplacedSettled`); every other step leaves it settled, since
  days only add to its age (`SameSettled`).
* `UsersSuccessMeansCurrent`, `DelegatedSuccessMeansCurrent` and
  `TestCentreSuccessMeansCurrent` (`SuccessMeansCurrent`). What a response says of the
  table depends on a scan and a query long before it. An invocation is `clean` while
  nobody else can have written: `CleanInv` says that beside a clean invocation there is no
  other and no stray request, that nothing is asked before its scan is over, and so
  that what it has scanned is what the table holds. Each module adds an account of its phases, e.g. that a row differs from what
  the query returned only if its request is still to be sent or awaited.

About `JournalSystem`, for any schedule of the two writers: `SystemTypeCorrect`
(`SystemTypeOK`) and `OnlyInactiveRemoved` (`RemovedWereInactive`), which needs
`ReapAgeAssumption` (the ages of rows are counted beyond the age at which they are
deleted and an invocation).
The reaper may delete a row that was rewritten after it looked; `ReapInv` says that
such a row is too young to matter: a row it condemned was old when it began, or
carries a stamp taken within one Lambda timeout of the reaper's start, since a journal is
stamped by the invocation that writes it (`BuiltInInvocation`).

About `JournalQuery`, for any examiners, rows, holidays, windows and groups that
satisfy `QueryAssumption` (the dates of a row are in order, an examiner with a status
is not past his last day): `TypeCorrect` (`TypeOK`), `NothingTwice` (`NoEntryTwice`)
and `SteadyPresent` (`SteadyRecordsPresent`). `EntriesPlaced` says of everything
loaded whose it is and which query returned it; `SteadyArrived`, that a record in the
databases throughout has come with its query, once that is answered, and with its
chunk. That the chunks cover all examiners is arithmetic of a division rounded up
(`CeilDivBounds`, `ChunksFit`); that there is a next working day, and a first row for
each examiner, is the least number principle (`LeastExists`).

About `WarmContainers`, for any containers of the four pollers, token lifetimes,
timeouts, pool sizes and limits that satisfy `ContainersAssumption` (an invocation is
shorter than the life of a token, so that one which outlives its token is left out):

* `TypeCorrect`: types.
* `PoolsBounded` (`PoolsAccountedFor`). The number of connections is not inductive.
  `SpacedInv` says that for the pools each container left behind there are times at
  which their invocations started, `MinGap` apart, the one under way being the
  latest. So at most one falls into each slot of `MinGap` ticks before a database
  closes it, and the slot of the invocation under way is free until it leaves its own
  (`SlotsApart`, `OneToASlot`). Pools of the journals poller on the replica are
  injected into the failures (`FailedInv`). Connections are sets of numbered
  connections, so that the bound follows from injections into products, without
  an induction over sums. `UsingInv` and `PoolsInv` say who uses and leaves what.
* `DegradedNeedsFault` (`DegradedOnlyByFault`). What an invocation may still ask for
  counts into the bound (`Reserved`), so with ample connections a connection is refused
  only for its password (`RoomToConnect`, `CannotOnlyIfStale`); `TokensInv` says that
  a token fetched by the invocation itself is no older than it, hence good; and
  `ExcusedInv` carries the excuse from the refusal to the write, past the ticks
  between.

Every safety property of the passing runs is thus proved, the invariants in them
checked by TLC beforehand on the runs' instances. Only model-checked: liveness
(`Converges`, `Quiesces`, `Recovers`, `LeaversAreReaped`), which needs fairness and
`ENABLED`, out of the prover's reach; and the counterexamples of the runs that
expect a violation.

## Plan

1. Done: `JournalPoller` with its proofs, `JournalSystem`, `PolledTable` and the
   three pollers on it.
2. Done: `JournalQuery`; `WarmContainers`, the configuration and the connections
   that warm containers keep.
3. Done: `TableFollower`, implemented by the users, test centre and delegated
   bookings pollers.
4. Done: types of the three pollers on `PolledTable`, `RemovesOnlyLeavers`,
   `RetainedUntilExpired` and the refinement of `TableFollower`, proved.
5. Done: `SuccessMeansCurrent` of the three pollers, and the safety properties of
   `JournalSystem`, `JournalQuery` and `WarmContainers`, proved.
6. Proofs to come: how far the reaper disturbs the cache. `JournalSystemStale` shows
   that a hit need not be coherent next to it; what remains true, that memory and table
   differ only in rows the reaper removed since the stamp, is to be stated, checked and
   proved along the lines of `CoherenceInv`.

## Not modelled

The columns and joins of the SQL, row mapping, gzip, mock data, schemas and e2e tests (no state of their
own). `SKIP_DYNAMO_WRITE`, which turns every write into nothing in test
environments. The lower bound of the sleep between batches: a batch may follow at
once or any time later. That users' permissions and examiners are two queries: a
mixed result is replaced by the next poll. A cached booking that cannot be
unzipped, which fails each delegated poll before its writes: only this poller writes
those rows. The fields of a slot: `test-slot-row-mapper.ts` and the mapping in
`getDSPTestSlots` are functions of one row, whose results are entries here. The
fallback password of a local stack, the certificate, and the reaper's
configuration, which needs nothing that can fail.
