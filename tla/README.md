# KernelCI dashboard: a TLA+ verification project

The KernelCI dashboard receives test submissions as JSON files, loads them into
PostgreSQL, keeps aggregated listings of trees and hardware up to date in the
background, and serves them to a web client.  This project models the parts of
it that change state concurrently, checks them with TLC on small instances and
proves the most important results with TLAPS for instances of any size.

Paths below are relative to the repository; `commands/` stands for
`backend/kernelCI_app/management/commands/`.

## 1. The system

| Part | State it keeps | Operations | Talks to |
|---|---|---|---|
| `monitor_submissions` (`commands/monitor_submissions.py`) | cached scan of the spool directory, position in it, `running` | scan, take a slice, run a cycle, stop on a signal | spool directory, ingester |
| ingester (`commands/helpers/kcidbng_ingester.py`) | bounded multiprocessing queue; per worker: parsed rows per table, their files | fill queue, start workers and pills, join; get, prepare, buffer, flush, archive or reject | spool, `archive/`, `failed/`, database |
| pending upserts (`commands/helpers/aggregation_helpers.py`) | `pending_tests`, `pending_builds`, `latest_checkout`, new `tree_listing` rows | one upsert per table, in the flush's transaction | ingester, aggregator |
| generated insert queries (`commands/generated/`) | `issues`, `checkouts`, `builds`, `tests`, `incidents` | upsert that keeps the stored non-null value | ingester |
| aggregator (`commands/process_pending_aggregations.py`) | `tree_listing`, `hardware_status`, `processed_listing_items`, `tree_tests_rollup`; two keyset cursors in memory | batch: transaction 1 (lock tests, count in hardware_status and in the rollup, lock builds), transaction 2 (tree_listing, chunked, retried on deadlock), transaction 3 (delete the pending rows) | all of the above |
| rollup helpers (`commands/helpers/process_pending_helpers.py`), `populate_tree_tests_rollup` | `tree_tests_rollup` | increment and correct; rebuild for a checkout | aggregator |
| hardware maintenance (`backfill_hardware_aggregations`, `delete_unused_hardware_status`) | `hardware_status`, `processed_listing_items` | recount, delete old rows | aggregator |
| `prune_db`, `update_db` | ingestion tables | snapshot and delete in batches; copy date windows from KCIDB | ingester |
| notifications (`commands/notifications.py`, `kernelCI_cache/`) | sent marks per checkout and issue, in a second database | select, mail, mark | SMTP, cron |
| log excerpts (`commands/helpers/log_excerpt_utils.py`) | cache hash -> URL in each process | look up, upload, store, clear | object storage |
| tree pages (`queries/tree.py`, `helpers/treeDetails.py`, `views/treeDetails*`, `views/treeCommitsHistory.py`) | none | details, summary, tabs of builds, boots and tests, two histories | ingestion tables, rollup |
| hardware pages (`queries/hardware.py`, `helpers/hardwareDetails.py`, `views/hardwareDetails*`) | none | details, summary, trees, history | ingestion tables |
| listings (`views/treeView.py`, `views/hardwareView.py`, `views/hardwareByRevisionView.py`) | none (a query cache with a time-out) | list, count | `tree_listing`, `hardware_status` |
| filters (`helpers/filters.py`) | none | parse the parameters of a page, keep or drop a row | all pages |
| dashboard (`dashboard/src`) | URL and query cache of a browser | read | API |

How they interact: files flow spool -> queue -> worker -> one transaction that
writes both the ingestion tables and the pending tables -> `archive/`.  The
aggregator polls the pending tables, with `FOR UPDATE SKIP LOCKED`, in another
process.  The two sides share nothing but database rows, so every hazard
between them is a matter of which transaction saw which row when.  Containers
are restarted always (`docker-compose.yml`): a crash loses memory, never rows
or files.

What is hard: (a) the three transactions of a batch against flushes, crashes
and deadlocks; (b) items ingested again with a status they did not have;
(c) workers that die with rows in memory and files already moved; (d) a queue
that is filled before anything reads it; (e) paging cursors over a table that
changes.  `PROJECT.json` lists each hazard at its line.

What makes each part correct:

* aggregation: each counter equals the number of items recorded under it; no
  item is recorded twice or forgotten; what can be counted eventually is; a
  status that arrives late is counted; the two listings agree.
* ingestion: what is archived is stored; a submission is stored whole; no file
  is in two hands; every cycle ends; every file leaves the spool.
* rollup: a commit's sums are the tests recorded, though a correction may reach
  another row than the first count did.
* hardware maintenance: deleting an old row never makes an item count twice.
* prune_db: children go before parents, nothing protected goes.
* notifications: a report is sent once per interval, a failed mail again.
* update_db: a restore that dies leaves no row without what it refers to, and
  changes nothing that was there.
* pages: two pages that show the same commit or hardware show the same builds
  and tests of it, under the same filters.
* log excerpts: a cached value is a URL.

## 2. Modules

| Module | Models |
|---|---|
| `ListingStatus` | the status of a row as the tables hold it, the upsert rule of the pending tables, when an item still needs counting and what that adds to a counter |
| `ListingLedger` | abstract specification of a listing: items are recorded, each change of the record is a permitted one, every total is the census of the record |
| `PendingAggregation` | flushes of the ingester against the batches of one aggregator |
| `SpoolIngester` | `monitor_submissions`, the queue, the worker pool and the file moves |
| `TestsRollup` | the rollup batches of the aggregator, `populate_tree_tests_rollup`, and what the cleanup forgets |
| `ListingCleanup` | `delete_unused_hardware_status` and `backfill_hardware_aggregations` beside the ingester and the aggregator |
| `PruneDb` | `prune_db` beside the ingester, one run or several |
| `UpdateDb` | `update_db snapshot` and `restore` |
| `Maintenance` | one of the four above per behaviour |
| `SummaryReports` | the `summary` action of `notifications` |
| `IssueReports` | its `new_issues` and `issue_report` actions |
| `Notifications` | one of the two per behaviour |
| `Filters` | which rows a set of filter parameters keeps, per page |
| `DashboardTables` | the rows the pages read, as the ingester and the aggregator bring them |
| `TreeDetails` | details, summary and tabs of one commit |
| `CommitHistory` | the two history endpoints of a tree |
| `HardwareDetails` | details, summary, trees and history of a hardware |
| `Listings` | the listings, the page of a revision, and the counts in the mails |
| `MCPendingAggregation` `MCSpoolIngester` `MCMaintenance` `MCNotifications` `MCViews` `MCListings` | instances for TLC |
| `ListingStatusProofs` `PendingAggregationProofs` `SpoolIngesterProofs` `ListingCleanupProofs` `TestsRollupProofs` `MaintenanceProofs` `NotificationsProofs` `ViewsProofs` | lemmas and theorems |

The modules of the pages extend each other in the order of the table, because
each compares itself with those before it.  `Maintenance` and `Notifications`
put side by side models that share no table: an initial choice says which of
them a behaviour follows, so that one instance explores them all without
multiplying their states.

The two halves meet at a flush.  `SpoolIngester!Commit` is one step because its
properties are about files and rows; `PendingAggregation` opens that step up
into `FlushBegin`, `FlushUpsert` per row (with the row locks it takes) and
`FlushCommit`, because there the interleaving with the aggregator matters.

### PendingAggregation against the code

State: `checkouts`, `source` (the status in `tests`/`builds`), `pending` (the
status in a pending row, `NoRow` if there is none), `details` (what else the
pending row of a test says: `is_boot` and the platform, as the file that
inserted it had them, the platform completed by later files), `taken` (the same
of the rows the aggregator has read), `treeDone`/`hwTest`/
`hwBuild` (the entries of `processed_listing_items` for the two listings),
`treeCount`/`hwTestCount`/`hwBuildCount` (the counters of `tree_listing` and
`hardware_status`), `progress`/`upserted` (flushes and the rows they locked),
and the aggregator's program counter, cursors, page, batch and attempt.

| Action | Code |
|---|---|
| `FlushBegin` `FlushUpsert` `FlushCommit` `FlushAbort` | `flush_buffers`, `aggregate_tests`, `aggregate_builds` |
| `StartPass` `LockTests` `ReadBuilds` `LockBuilds` | `process_pending_batch`, `_get_ready_tests`, `_get_ready_builds`; each query is a step, `SKIP LOCKED` leaves out rows an open flush holds |
| `CommitHardware` | `_process_hardware_batch` and the commit of transaction 1, which unlocks the rows |
| `CommitTree` `TreeDeadlock` | `_process_tree_listing_batch`: commit, or roll back and retry up to the limit, then give the pass up |
| `DeletePending` | transaction 3: delete by id, move the cursors |
| `Restart` `Crash` | the loop of `handle` and its container |

What a file says of an item is a constant (`Reported`, `DetailIn`), and files
may differ: a test may come without its path or platform and get them later,
when its pending row is still there or after it was counted and deleted.  The
upsert completes the platform of a pending row and never its `is_boot`, and
nothing records which column a test was counted in; so a correction may come
off another column.  The ledgers are therefore stated by rows: of a
`tree_listing` row the builds apart and tests and boots together, of a
`hardware_status` row (one per platform) tests and boots together.

Left out: the chunks of transaction 2 (a batch is one chunk; a chunk that
commits before a deadlock is the replay case `NeedsCount` covers), the rollup
(`TestsRollup` has it), the timestamps of listing rows, replacement of the latest checkout (the listing
row of a checkout exists once the checkout does), a second aggregator.

### SpoolIngester against the code

State: `place` (the directory a file is in), `stored` (committed items), the
main process (`pc`, `running`, `cached_files`, `json_files`), `process_queue`,
and per worker `step`,
`batch`, `instances`, `buffer_files`, `flushing`, `moved`.  An item is a row of
one table; lists the code walks in an order nothing depends on are sets.

| Action | Code |
|---|---|
| `ScanSpool` `TakeSlice` `Signal` `StopLoop` | `_scan_spool_dir`, the loop of `handle`, `signal_handler` |
| `EnqueueBatch` `EnqueueEnds` `StartWorker` `PutPill` `JoinWorkers` | `ingest_submissions_parallel` |
| `GetBatch` `GetPill` `RemoveEmpty` `MoveToFailed` `ReportRaises` `BufferFile` `BatchEnds` | `process_batch`, `prepare_file_data`; `ReportRaises` is a file whose rejection raises in its turn (`_extract_origins_info`), which ends the worker and leaves the file |
| `Commit` `CommitFails` `ArchiveFile` `ArchiveFails` `RejectFile` `RejectFails` `FlushEnds` | `flush_buffers`: the transaction, the two rename loops, the `finally` |
| `WorkerDies` `ContainerDies` `Restart` `Vanish` | the environment |

The progress loop before `join` changes nothing, so `JoinWorkers` stands for
both.  The `except KeyboardInterrupt` branch is left out: `handle` installs its
own SIGINT handler, so the exception is not raised while a cycle runs.  `stat_ok`,
`stat_fail` and `processed` are only printed.  `os.path.getsize` of a whole
batch is read when the batch is put: nothing else reads those sizes in between.
The locks inside `multiprocessing.Queue` are not modelled: a worker killed while
it waits in `get` would keep the reader lock, and `join` has no timeout.

Two behaviours of the model that no property forbids are worth knowing.  A
`stat` fault makes a file with content look empty, and `RemoveEmpty` deletes it
unread (`kcidbng_ingester.py:514`).  And `EnqueueBatch` runs before any worker:
with more batches than `QueueMax` the main process blocks for ever, so the runs
keep `CycleSize / FilesBatch + Cardinality(Workers) <= QueueMax`, as the default
settings do (500 + 5 <= 5000).

### TestsRollup and ListingCleanup against the code

`TestsRollup` keeps per test its row in `tests` (status and hardware), its
first incident, its pending row and its record; the rollup as a function from
row keys (commit, hardware, issue) to columns; what the aggregator and the
rebuild have read.  The place of a test stands for all
dimensions of the key that a later report may complete (hardware, path group,
configuration, lab): it may become known after the test was counted.

| Action | Code |
|---|---|
| `IngestTest` `IngestIncident` | a flush, seen from the rollup |
| `ReadRollupBatch` `CountRollupBatch` `DeleteRollupBatch` `StopAggregator` | `_get_ready_tests`, `_process_tests_rollup_batch` with `process_pending_helpers.py`, the deletion, a stop between any two |
| `ReadSource` `ReadIssues` `PopulateWrites` `PopulateFails` | `populate_tree_tests_rollup` on one checkout: two reads, then one upsert of all rows |
| `ForgetStale` | the part of `delete_unused_hardware_status` that deletes records |

`ListingCleanup` keeps the rows of `hardware_status` per checkout (all platforms,
and tests and boots, together: a test reported on two platforms is two tests
here, and one that turns into a boot stays in its column), the records
under hardware keys, the pending rows and `latest_checkout`.

| Action | Code |
|---|---|
| `IngestCheckout` `IngestResult` | a flush, with the rule of `latest_checkout` |
| `AggregatorReads` `AggregatorWrites` `AggregatorDeletes` `AggregatorStops` | a batch of the aggregator; it waits for rows the cleanup has deleted and not committed |
| `CleanupStarts` `ReadDoomedRows` `ReadDoomedItems` `DeleteDoomed` `CleanupCommits` `CleanupAborts` | `delete_unused_hardware_status`: the latest checkouts, then batches of rows and of records to delete, in one transaction |
| `BackfillStarts` `BackfillTruncates` `BackfillCheckout` `BackfillTests` `BackfillStops` | `backfill_hardware_aggregations` |

### PruneDb and UpdateDb against the code

`PruneDb` keeps which rows are there and how old they are, the incidents, and
per run of the command its options, its program point and the ids it still has
to delete.  `PruneStarts`, `Materialize` (one statement per table, down from
checkouts to tests), `Answer` (the question before the deletion), `DeleteBatch`
(up from tests to checkouts; it may fail, and the run goes on to the next
table) and `PruneStops` are the command; `RowArrives` and `IncidentArrives` are
the ingester.

`UpdateDb` keeps the source's rows, the options of the snapshot, the tables it
has taken, the archive, the target and how far a restore has come.
`SnapshotTable` is one SELECT with everything it drops, `RestoreTable` one
table's insert through CSV; `RestoreCrashes` and `RestoreStarts` run it again.
Of a row's columns the model has those the code may change on the way: a null
text column goes through CSV as an empty text.

### SummaryReports and IssueReports against the code

`SummaryReports` keeps the clock, the time of each tree's last checkout, the
notes in `notifications_checkout`, and what the run is doing.  `SummaryStarts`
selects and discards, `ReportSkipped` and `ReportMailed` go over the reports,
`NoteStored` is the note in the second database, which may fail; `SummaryEnds`
is the end, an exit or a kill at any point.

`IssueReports` keeps the issues and incidents with their hours, the table
`notifications_issue`, and the rows the command has still to treat.
`NewIssuesStarts`, `StoreNewIssue`, `BuildsStored` and `MailNewIssues` are
`new_issues`, whose build issues and boot issues are two passes;
`IssueReportStarts`, `IgnoreIssue` and `ReportIssue` are `issue_report`, for one
issue or for all without a mark.  A store that fails is swallowed and the issue
listed all the same; `smtp_send_email` gives an id to a mail that went to nobody
(`sending = "nobody"`), and the caller marks the issue.  `listed`, `unstored`,
`reported` and `toNobody` count the mails and these mishaps, for the properties.

### The pages against the code

`DashboardTables` has three variables: the rows by identifier, the issues, and
for each test the aggregator has rolled up the issue it saw then.  `Flush` puts
a batch of rows there, `Aggregate` rolls a test up.  `Listings` adds `inTree` and
`onHardware`, what each of the two listing tables has counted and as what, with
actions of its own: `Complete` (a status comes late), `CountInTree` and
`CountOnHardware`, which count an item as it is at that moment, a build with the
first of its tests on a platform.  The pages keep nothing, so each is a
set of operators, and a property compares them in every reachable state, for
every request and filter of the instance: `DetailsRows` is the row set of the
details query, `DetailsTests` what the filters of `helpers/treeDetails.py` keep
of it, `SummaryTests` what the summary counts from the rollup or, where a
filter needs it, from the rows, `TabBuilds` and its like the tabs, `CommitRows`
and `HistoryTests` the history, and so on.  Rows are compared as sets of
identifiers: a count is the cardinality of such a set, and two pages that count
the same rows show the same number.

Three conversions are modelled by what they do.  A duration is a float: it is
counted in tenths of a second, SQL compares it as it is (`DurationAsked`),
Python compares its whole seconds (`DurationOut`, `Seconds`).  A test whose
`environment_misc` is NULL makes the details of its hardware raise
(`Answers`).  And `UNION ALL` gives the columns of its second query the names
of the first (`ListedKind`).  The order in which the trees of a hardware are
numbered is a constant, one for the database (`SqlOrder`) and one for Python's
`sorted` (`PageOrder`): collations and NULLs may make them differ.

## 3. What TLC checks

Every bound is a constant: `MaxFaults`, `MaxReplays`, `MaxRetries`, `MaxInputs`,
`MaxCleanups`, `MaxStops`, `MaxRuns`, `MaxNews`, `MaxArrivals`, `MaxCrashes`,
`MaxNow`, `MaxSummaries`, `MaxPushes`, `MaxHour`, `MaxIncidents`, `MaxCommands`,
`MaxVersion`, `MaxMishaps`, and the sizes of the sets.

| Run | Instance | Result |
|---|---|---|
| `pending_corrections` | one build with a test and a boot on one platform; three files, the later ones bring the statuses; one crash, one deadlock retry, one file ingested twice; one test gets its platform late, the other is reported again as a boot | both ledgers refined, `ListingsAgree`, `HwBuildsNotOvercounted` |
| `pending_pages` | pages of one row, two checkouts of one commit, a dummy build, a test without platform, one that moves to another platform, a late build; one fault | `TypeOK`, `NothingForgotten`, and `PendingDrains` under fairness |
| `spool_faults` | four files (two items, one, empty, one whose rejection raises), batches of one, two workers, any two faults | `TypeOK`, `OneHolder`, `PillsReachEveryWorker`, `ArchivedIsSafe`, `WholeSubmissions` |
| `spool_drain` | an early flush, an invalid file and one whose rejection raises, batches of two, any one fault | `CyclesEnd`, `SpoolDrains` under fairness |
| `maintenance` | rollup: a test in each of two checkouts, one of them stale. Cleanup: two tests of the older of two checkouts of one tree, batches of one. Pruning: two builds of two origins, one tested, every cascade of tables. Copy: two lines of rows through the nine tables, parents missing or outside the interval | `CommitSumsExact`, `RecordedIsSummed`, `RowsMatchItems`, `ProtectedStay`, `NoOrphans`, `ReferencesKept`, `RestoreAddsOnly`, `MaintenanceTypeOK` |
| `notifications` | two trees of two origins on one branch, three reports, one with paths, two runs; an issue of two versions, two incidents, three commands over overlapping hours | `NotMailedAgain`, `ListedOnce`, `MarkedHasId` |
| `views` | two checkouts, of one commit, of two, or of two trees, in every order; two trees or two origins at one commit, stored at once; builds and tests of several statuses, places and durations, some without `environment_misc`, two incidents; eleven sets of filters, three selections of the heads of one hardware | the eleven agreements about a tree and a hardware below |
| `listings` | two checkouts of one commit or of two, a build and a test each or two tests of one build, two of them without a status for now, counted in either listing at any time; two mail windows | the three about listings and mails |

Why these sizes are enough: a correction needs two ingestions of an item and
two items of one build (the decrement rules differ there); a third file lets
another flush come between any two transactions of a batch.  Pages of one row
make every row cross a cursor boundary.  Two workers and three batches give a
worker that dies, one that takes over and one entry behind; two faults are
needed for a failure inside the handling of another one (`except` in
`flush_buffers`).  Three files against batches of two give the tail.  In
`maintenance`, batches of one put a commit of another program between any two
deletions of the same checkout; two cleanups let a rolled back one be repeated;
one row that arrives is enough to be orphaned, and one crash to stop a restore
between any two tables.  In `notifications` the interval is one tick, so that
two runs are within it or not, and two versions of an issue give the newer one
that must be told from the older; one mishap is a failed store or a mail to
nobody.  In `views` and `listings` a disagreement of two pages is
about one row and what it joins, so two rows of each kind give the row and one
it may be confused with; each filter is one that some page treats by itself.

What the properties of these two runs say (each under the conditions its definition
names, which are where the sources differ on purpose or the data cannot agree):

| Property | Pages that agree |
|---|---|
| `SummaryMatchesDetails` `UnknownAgrees` | summary (rollup or rows) and details: tests, and failures no incident explains |
| `BuildListsAgree` `TabsMatchDetails` | details, summary and the tabs of builds, boots, tests |
| `HistoryMatchesDetails` `HistoryByType` `HistoriesAgree` | history's first line and details; history of one kind and whole history; the row-wise and the SQL history |
| `HardwareTestsAgree` `HardwareBuildsAgree` | summary and details of a hardware, under a selection of commits |
| `SelectionKeepsIndexes` | the numbers of the trees on the page and in the next request |
| `HistoriesNest` | the histories of a head and of an older commit |
| `TreeMailMatchesListing` `HardwareListingsAgree` `HardwareMailAgrees` | mails, listings and the page of a revision |

Their conditions are met in the instance: each property has a mutant of the
code's definition that TLC refutes in the same run.  Where the code makes two
pages differ on the same data, the property says on which rows, and that they
agree on all others:

* the pages that filter in Python show rows up to a second above an upper bound,
  those that filter in SQL do not (`OverByAFraction`);
* the history counted in SQL has no builds without a configuration, and with
  builds among the types it counts every test as a boot; boots and tests together
  are then still the right ones, if the same status is asked of both;
* the summary of a hardware selects by commit hash: at a hash of two trees or
  origins it counts the rows of the other one besides.  What it counts of the
  selected checkouts is right all the same, and without such a hash it counts
  nothing else (`Apart`);
* the numbers of the trees are the same if both orders agree on the trees shown;
* the mail of a tree is about the commit of the last checkout from 29 to 5 hours
  before it, which is the listing's commit only if its checkout is in that window;
* the counters of a row are compared once every item of it is counted as what it
  is now.  Items whose correction was lost, or whose path came late, never are:
  they are the subject of `PendingAggregation`.

Four further runs end in a violation, each a disagreement of the code with what
its documentation or comments say, quoted under `findings`:

| Run | What happens |
|---|---|
| `pending_correction_lost` | a status ingested between transactions 1 and 3 is deleted with its pending row and never counted |
| `pending_double_decrement` | two tests of one build in the batch that learns its status take two off `build_inc` |
| `spool_lost_rows` | after a flush of the full tables only, files are archived whose other rows a crash or a failed flush then loses |
| `notifications_resend` | a report that was mailed and noted is mailed again within `RESEND_INTERVAL`, with `--skip-sent-reports`, or if it names paths |

In the passing runs the properties that the code breaks, these and the ones
below, are replaced by what does hold: `HwBuildsNotOvercounted` instead of
exactness, the ledgers by tests and boots together instead of by columns,
`ArchivedIsSafe` without early flushes (with them it needs that nothing dies or
fails, and is proved: `EarlyFlushSafe` below), `SpoolDrains` for files with items
while no malformed file is in the spool, `NotMailedAgain` for reports without
paths and runs without the flag, `MarkedHasId` instead of a mark that means a
mail, and `ListedOnce` counts the failed stores.

### Stated, and not kept by the code

The modules also state the properties below.  No run has them, because TLC
refutes them; to see how, put the property in place of those of the named
configuration (as `PROPERTY` where it is an action property).

| Property | Configuration | What happens |
|---|---|---|
| `PendingAggregation!HwBuildsCorrected` | `PendingCorrections.cfg` | a build's status that arrives after its tests were deleted from the pending table never reaches `hardware_status` |
| `PendingAggregation!CorrectionsMatchColumns` | `PendingCorrections.cfg` | a test counted without a path and reported again as a boot with a status takes one off `boot_inc`, which never had it; `process_pending_aggregations.py:224` says the count is updated |
| `SpoolIngester!RejectedFilesLeave` | `SpoolDrain.cfg` with `Files = {pair, broken}`, `Items = {pairBuild}`, `Invalid = {broken}` and `FaultKinds = {}` | the rejection of a JSON file that is a list, or has a null section, raises: the worker ends, the file stays and meets another worker in every cycle, where `docs/ingester.md:74` moves it to `failed` |
| `SpoolIngester!EveryFileQueued` | `SpoolDrain.cfg` with `CycleSize = 3` and `SPECIFICATION Spec` | the last, incomplete group of a list is not queued; a later scan takes it |
| `SpoolIngester!ValidFilesLeave` | `SpoolDrain.cfg` with `Files = {pair, build, nothing}`, `Invalid = {}` and `Malformed = {}` | a valid submission without items never leaves the spool |
| `SpoolIngester!ValidFilesLeave` | `SpoolDrain.cfg` with `Files = {pair, build, broken}`, `Invalid = {broken}`, `FilesBatch = 3` and `FaultKinds = {}` | valid files wait for ever in a batch with a file whose rejection raises |
| `TestsRollup!CountsNotNegative` | `Maintenance.cfg` | a correction takes its null from a row that the test was not counted in |
| `TestsRollup!PopulateRecomputes` | `Maintenance.cfg` with both checkouts of commit `"m"` | the rebuild of one checkout overwrites what the other added to the shared rows |
| `ListingCleanup!LatestKept` | `Maintenance.cfg` | a checkout that becomes the latest after the cleanup read the latest ones is deleted |
| `UpdateDb!RelatedDataOnly` | `Maintenance.cfg` | `--related-data-only` looks at the interval at another moment per table |
| `IssueReports!OneNotification` | `Notifications.cfg` | a kill between the mail and its mark, or `issue_report --id`, mails an issue again |
| `IssueReports!SentWasMailed` | `Notifications.cfg` | a mail to no recipient gets an id, and its issue is marked as sent; `helpers/email.py:39` calls it the id of the sent email |
| `CommitHistory!TypesAskedOnly` | `Views.cfg` | a history asked for builds and tests counts the tests as boots, a type `typeModels/treeCommits.py:36` says was not asked for |
| `TreeDetails!SummaryUnderConstraints` | `Views.cfg` | the rollup answers although a duration is asked for |
| `HardwareDetails!StatusSummaryUnfiltered` | `Views.cfg` | the counts of a build change with a filter |

### Fairness

The aggregator's loop and its restart are weakly fair, and so is the end of an
open transaction; the deadlock and crash steps are bounded by `MaxFaults`.  In
`SpoolIngester` the main process and each worker are weakly fair, the operating
system being the scheduler; arrivals and faults are not, so liveness never
relies on one.  A worker's transaction ends one way or the other because the
database ends it.  The commands of `Maintenance` and `Notifications` are started
by hand or by cron and may die anywhere: nothing says they end, no fairness is
assumed, and only safety is checked.  Their runs and those of the pages may stop, once their
bounds are used up and every row is stored and counted, hence
`CHECK_DEADLOCK FALSE`.

## 4. What is proved

`PendingAggregationProofs` (with `ListingStatusProofs`) proves, for any sets of
tests, builds, checkouts, platforms and flushes, any page size and any number of
crashes, retries and repeated ingestions:

* `TypeCorrect`: `Spec => []TypeOK`.
* `TreeRefinement`, `HardwareRefinement`: `PendingAggregation` implements
  `ListingLedger` for `tree_listing` and for the tests and boots of
  `hardware_status`, whatever files say of a test's path and platform.  The
  totals are those of a row: a test that turns into a boot moves a count from
  one column to the other, or takes it off a column that never had it
  (`CorrectionsMatchColumns` is false), but the sum of the two columns changes as the record
  does (`TreeTotalsStep`, `HwTotalsStep`).  The invariant is that each total is
  the census of the record (`TreeCensus`, `HwTestCensus`); `CensusStep` shows
  that counting a set of new items changes a census by exactly what
  `CountChange` adds.
* `NeverForgotten`: `Spec => []NothingForgotten`.  What it says of
  `hardware_status`, and `ListingsAgree` too, is about the tests that every file
  reports on one platform (`Steady`): a platform that completes a pending row
  after the aggregator has read it is deleted with the row.  `SteadyRows` says
  that the rows of such a test name its platform.  It is not inductive:
  `DeletePending` removes rows because they are in the batch, so the
  strengthening `BatchIsCounted` says that a batch that has passed a transaction
  is recorded in its listing.
* `ListingsAgreement`: `Spec => []ListingsAgree`.  The invariant `Agreement`
  says, for each steady test, that a known status in the batch is that of its pending
  row, that where the listings differ `hardware_status` is ahead by the status
  still pending, and that a batch behind a transaction leaves its listing
  nothing to count.  It uses that a pending row keeps its first known status,
  and never that rows are locked: the locks could be dropped without breaking
  the agreement.
* `HwBuildsNotOvercountedAlways`: `Spec => []HwBuildsNotOvercounted`.  The build
  columns are no ledger, since each test of a build counts it anew, so the proof
  bounds them instead: a change adds exactly one to the column a build enters,
  and takes at least one off the inconclusive one it leaves.  `BatchHasBuilds`
  says that a test is in the batch only with the status its build was seen with,
  without which a build could be recorded under a status nobody read.

Assumptions: the sets are finite, tests and builds have disjoint natural ids, a
build belongs to a checkout and a test to a build, and pages, retries and bounds
are numbers (`IdsAssumption`, `RelationsAssumption`, `FlushesAssumption`,
`BoundsAssumption`).  TLC evaluates them in every run.

`SpoolIngesterProofs` proves, for any files, items, workers, sizes and faults:

* `TypeCorrect`: `Spec => []TypeOK`, with `FinalFlush`, which says that a worker
  that has taken its pill flushes everything it still has, because only then do
  its empty hands at the end follow.
* `OneHolderAlways`: `Spec => []OneHolder`.  The step that could break it is a
  scan, which takes every path in the spool directory whoever may still hold
  one; `AtRest` says that by then nobody does: between cycles no worker runs,
  the cycle's list and the queue are empty, and a worker has files to prepare
  only while it prepares.
* `ArchivedSafe` and `SubmissionsWhole`: `ArchivedIsSafe` and
  `WholeSubmissions`, assuming `NoEarlyFlush`, that the items are too few for a
  table to reach the flush size.  The invariant `Loading` says that each flush
  is given all rows of its worker, that an archiving worker's rows are stored,
  and that a buffered file has all its rows in the buffers.  The assumption
  cannot be dropped: the run `spool_lost_rows` shows what an early flush does
  to rows it leaves behind, and `SubmissionsWhole` is false with one.
* `EarlyFlushSafe`: `ArchivedIsSafe` with early flushes, assuming `NoDeaths`,
  that no worker dies and no transaction fails.
  `RowsAreKept` says that rows leave a memory only once they are stored, and
  that a file to be moved still has all its rows there; `TakenIsSpooled`, which
  rests on the holders above, that a path somebody holds is still in the spool,
  so that no worker dies removing an empty file another has moved.
* `PillsReachEveryWorkerAlways`: the queue is some batches and then pills
  (`PillsBehind`); none is there before the first worker starts, and from then
  on there are no fewer than workers that run and have taken none (`Owed`).
  `LastInFlush` says that a worker that took its pill takes no other entry.

A worker that a malformed file ends (`ReportRaises`) is one more that loses its
rows and files: the first three theorems hold of it as of any death, and
`EarlyFlushSafe` assumes that there is no such file (`NoDeaths`).

Assumptions there: the sets are finite, each item is in one file that is neither
empty nor invalid, a malformed file is invalid and not empty, there is a worker,
and the sizes are positive
(`SubmissionsAssumption`, `SizesAssumption`).

`ListingCleanupProofs` proves `CleanSpec => []RowsMatchItems` for any tests,
checkouts, batch size and number of crashes, cleanups and backfills.  The
invariant `CleanInvariant` follows the cleanup's transaction: `GoneTogether`
says that when it commits, the checkouts whose rows it deletes and the tests
whose records it deletes are the same, though each was read batch by batch and
at another moment; the step that needs it is the commit, which removes both.
`SeenOrGone` says what the aggregator may still know of a record the cleanup
has deleted since; with it, `CensusStep` (of `ListingStatusProofs`) carries over
to a batch that overlaps a cleanup, exactly for pass and fail and as a bound for
inconclusive.

`TestsRollupProofs` proves `CommitSumsExact` and `RecordedIsSummed` of
`RollupSpec`, for any tests, checkouts, places and issues.  Both are about sums
over the rows of a commit, which the model writes as a fold.  The proof of what
such a sum does when one row changes (`SumIs` and the lemmas after it) takes,
among the sets of rows where it would fail, one with no smaller one inside
(`MinimalMember`, from the library's well-founded minimum): so no step needs an
induction theorem with an operator for its parameter.  `RollupState` says how
the batch, the rebuild and the cleanup stand to each other: what a batch has
read is what it will record, a rebuild's fresh rows are computed from its
snapshot, and no row counts less than nothing outside the column of nulls.
`RecordedIsSummed` is not inductive.  The cleanup may forget a test after a
batch has read its record; the batch records it again and, taking it for an old
one, adds nothing to the total.  So `AddedUp` bounds the total by the tests that
are recorded *or were when the batch read them* (`Seen`).  TLC checked both
invariants, with one checkout of a commit and with two, before they were proved.

`MaintenanceProofs` has three parts.

* Pruning.  `ProtectedStayAlways` proves `PruneSpec => []ProtectedStay` for any
  rows, incidents, origins, tables and batches.  Incidents come and rows arrive
  while it runs, so what an incident protects *now* is not what it protected
  when the run began: `Protected` says instead that the rows protected at the
  start protect each other by themselves (`Anchored`), so that no statement of
  the run can take one down, and that none is on its list.  `NoOrphansAlways`
  proves `NoOrphans`: in `OrphanInvariant`, the list is exactly what the
  statements so far have put on it while the ids are taken down (`TakenDown`),
  and once complete it holds, with a row, every row below it that the run found
  (`ClosedBelow`), while the tables are emptied from below (`Orderly`).  Both
  assume that one run of the command is considered
  (`\A r, s \in Runs : r = s`; `atStart` describes one), as the instance does.
* Copying.  `ReferencesKeptAlways` and `RestoreAddsOnlyAlways` are about
  `UpdSpec`.  A restore that is run again starts from the first table with later
  ones already there, so its progress says too little; `Furthest` says that the
  database holds what it had and what the archive has of the first `n` tables,
  for some `n` no smaller than the progress, and `ParentsFirst` that those tables
  contain what their rows refer to.
* The programs together.  `MaintenanceTypeOKAlways` proves
  `MaintenanceSpec => []MaintenanceTypeOK` from the four invariants, for any
  number of runs.  `CommandsKeepTheirPromises` proves of `MaintenanceSpec` all
  the properties the run `maintenance` checks besides, for a single pruning: a
  step of it is a step of one program and leaves the tables of the others alone.

`NotificationsProofs` proves `NotMailedAgain` of `SummarySpec`, `ListedOnce` and
`MarkedHasId` of `IssueSpec`, and all three of `NotificationSpec`
(`NotificationsKeepTheirPromises`).  Between a mail and the next run's check lies
the note, in another database: `NotedIsStored` says that a noted mail has a row
no older than itself, and `TodoIsDue` that whatever a run that checks has still
to mail was not mailed and noted within the interval.  `ListedIsKnown` relates
what was listed, how often storing it failed, what is stored and what a run read
at its start: a version that was listed more often than its stores failed is
stored, and is among the keys of a run that could list it again.  `MarksHaveIds`
is `MarkedHasId` with the domain of the marks.  That a mark means a mail somebody
got is no theorem: `SentWasMailed` is false.

`ViewsProofs` proves eleven properties of the pages of `TablesSpec` and the three
of the listings and mails of `ListingsSpec`, for any rows, batches, filters and
requests.  A page is a function of the tables, so only the tables need an
induction: `SoundAlways` says that every row has the columns of its table, that
what it refers to is there, and that only tests that are there are rolled up;
`ListingsSoundAlways` adds that late statuses disturb none of this, that the two
listings count stored items only, and that a build (no dummy) is counted on a hardware if
and only if a test of it is (`CountsSound`).  Each property then follows from
these (`ReferencesHold` and one lemma per property), by showing that the two
pages keep the same set of rows.  `DurationRead` is the lemma the comparisons of
Python and SQL share: a row that passes the bounds in whole seconds passes them
exactly or exceeds the upper one by a fraction.  `SelectionHolds` counts the
trees before a tree in two orders, by a bijection of the two sets.  The
assumptions are those on the batches that arrive (`BatchesAssumption`), natural
bounds in filters (`BoundsAssumption`), statuses (`LateStatusesAssumption`) and a
positive number of commits in a history (`CommitLimitAssumption`).  The proofs
showed which conditions an agreement needs beyond those TLC's small tables had
asked for, and they are now part of the properties: every checkout of the commit
bears the name the request gives it (`NamedAlike`), an incident has one subject
(`OneSubject`), an issue a filter names is a known one (`KnownIssues`), and the
bounds on boots ask nothing more of a test without a path (`BootBoundsHold`).

Of the properties of the passing runs, no theorem states `PendingDrains`,
`CyclesEnd` and `SpoolDrains`: liveness needs fairness and ENABLED, which are
out of the prover's reach, and stays with TLC.  The properties of the four
runs that end in a violation are false.  Each other invariant and action
property is a theorem, under the assumptions named here; what the proofs cannot
say is whether the state that the model leaves out matters.

## 5. Not modelled

What could still be modelled, in this order:

1. Row locks of two flushes and of the aggregator's delete, in the order the
   code takes them (sorted ids per ingestion table, then `latest_checkout` and
   the pending tables): who may deadlock with whom.
2. Two aggregators, which the deployment does not run; the `tree_listing` row a
   checkout creates, and counts for a row that is not there.
3. The cache of uploaded log excerpts against failed uploads; the locks inside
   `multiprocessing.Queue`.
4. What a page adds up besides lists of rows: the summaries by architecture,
   lab and environment; test history categories.

Proofs to add: what the single pruning of `ProtectedStay` and `NoOrphans` becomes
when two overlap, and the build columns of `hardware_status` under the condition
that makes them exact.

Outside any model: pages that return the rows of a single query (issues, one
build, one test, selectors), HTML and mail wording, metrics, the query cache,
schema migrations, generated column lists, deployment files and the browser
client.  They keep no state of their own that another part relies on, and there
is nothing in the repository to compare what they show with.
