# Vaults API: a TLA+ model of the worker, the API and their start

The repository is a NestJS service of two processes over one Postgres database: a
**worker** (`src/src/worker-entry.ts`, `src/src/app-job`) that copies the state of Lido
staking vaults from the chain and from the oracle reports into tables, and an **API**
(`src/src/main.ts`, `src/src/http`) that answers from those tables, from IPFS and from
the chain. What is hard about it: event handlers that are never serialised, crons that
read an older block than the handlers and write later, two-statement upserts, promises
shared by overlapping callbacks, answers put together from several statements or kept in
caches, replicas that migrate one schema, and failures of RPC, IPFS and database in the
middle of it all. This project models those parts, checks them with TLC on small
instances and proves their main invariants with TLAPS for every value of the constants.

## 1. Inventory

| Part | State | Operations | Interacts with | Correct when |
|---|---|---|---|---|
| Vault ownership sync (`vault/vault.service.ts`) | none of its own | `VaultConnected`, `VaultOwnershipTransferred`, `VaultDisconnectCompleted` handlers; `fetchAllVaultsAndCalculateStates`, `fetchAllVaultsRoleMembers`, `syncDisconnectedVaultOwnersFromLogs`, `reconcileDisconnectedVaultOwners`, `backfillVaultOwnership` | chain (pinned reads, logs), vault tables | owner, flag and block of a row belong together; the row ends up true; previous owners' delegates see nothing |
| Vault tables (`db/vault-db`) | `vaults`, `vault_members`, `vault_states`, `vault_report_stats` | `connectVault`, `disconnectVault`, `updateVaultOwnership`, `setMembersForVault`, `getOrCreateVaultByAddress`, `addOrUpdateState`, `addOrUpdateReportStats`, queries | both syncs, API | an older read never replaces a newer one |
| Vault jobs (`jobs/vault-jobs`) | scheduler registry | four crons, the backfill with retry | ownership sync | runs of one kind do not overlap; a failed backfill is retried |
| Report sync (`report/report.service.ts`) | three LRU caches | `fetchAllReports`, `calculateVaultMetrics`, `VaultsReportDataUpdated` handler, `calculateForVaultsBasedPrevReport` | LazyOracle, IPFS, report tables, vault tables | latest report is stored; metrics only where both reports have the leaf; newest pair complete |
| Fee snapshots (`report/no-fee-snapshot.utils.ts`, Dashboard reader) | snapshot cache | read, detect a stopped accrual, neutralise the pair | report sync | a stopped accrual is never priced as growth |
| Report tables (`db/report-db`) | `reports`, `report_leaves` | `saveReport`, `saveLeaves`, paging queries | report sync, API | one row per CID |
| Report jobs (`jobs/report-jobs`) | scheduler registry | reports cron, cold start-up calculation | ownership sync, report sync | keeps going after a failure |
| Single-flight (`common/job`) | map of promises in flight | start, join, finish | all crons | one run per key; the key is freed |
| RPC retry (`common/utils`) | attempt number | attempt, back off, give up | handlers | the first answer that resolves is used |
| Chain access (`common/execution-provider`, `common/contracts`) | provider | safe block, pinned reads, log filter, address lookup | ownership sync, start-up | answers belong to the block asked for |
| LSV / IPFS (`lsv/lsv.service.ts`) | gateway list | `fetchIPFS`, verification, metric formulas | report sync, report endpoints | content is what the CID says, or there is none |
| Report proofs (`report/reports-merkle.service.ts`) | LRU of trees | get, build, evict | report endpoints | a tree belongs to its CID |
| HTTP API (`http/*`) | – | listings, overview, metrics, reports, proofs | tables, IPFS, chain | answers what the tables and the reports say |
| HTTP cache (`http/common/cache`) | kept responses | hit, miss, keep, expire, opt out | all endpoints | staleness is bounded; probes are live |
| Health and readiness (`common/health`) | – | database ping, heap check | orchestrator | says what the database does now |
| Migrations (`db/migrations`, `db/run-migrations.ts`) | schema | run under an advisory lock | tables | applied once and in order |
| Start-up and configuration (`main.ts`, `worker-entry.ts`, `common/config`, network validation) | environment | validate, resolve contracts, check chain, listen | everything | nobody serves without its schema or on a wrong chain |
| Secrets rotation (`common/shutdown`) | last content, `restarting` | poll, retry, close, forced exit | process | a rotation leads to one exit, wherever it falls, if the watcher can notice it |
| Logging, Prometheus, Sentry | no deciding state | – | – | – |

What is hard to test (each item is in `PROJECT.json` under `hazards`, at its line): writes
that arrive out of block order; check-then-insert races; state selected before an await
and written after it; zero answers that look like data; partial batches taken for
complete lists; offset paging over a table that changes; tail detection that trusts a row
another writer stored; crashes between `saveReport` and `saveLeaves`; null results cached
for the life of the process; a callback that joins a run which never settles; a rejection
nobody catches; answers from several statements without a snapshot; a window computed
twice, in TypeScript and in SQL; responses kept after their data has changed; gateways
that answer something else; a lock on one connection and migrations on another; a worker
that starts before its columns exist; a rotation nobody watches for yet.

## 2. Modules

| Module | What it is |
|---|---|
| `Addresses` | the address identities (`Owners`, `Hub`, `None`, `Zero`) and the assumption that they differ |
| `VaultChain` | one vault on chain (external): the hub's connection record and the two-step ownership of the `StakingVault`, blocks, logs |
| `VaultRow` | the `vaults` row with its members; one operator per statement or transaction of `VaultDbService` |
| `VaultOwnership`, `MCVaultOwnership` | composes the two: the jobs in flight and their steps, failures, crash |
| `OwnershipRegister` | abstract: an owner register whose values come from the history of the vault and whose blocks never go back; `VaultOwnership` implements it |
| `VaultOwnershipProofs` | its inductive invariant and theorems |
| `CronBatches`, `MCCronBatches` | the vaults and members crons over several vaults: batches, pages, minimal mode, partial failures, the retried read of role members |
| `CronBatchesProofs` | its inductive invariant and theorems |
| `ReportSync`, `MCReportSync` | oracle, report tables, fetch, calculation, handlers, cold start, failures, crash |
| `ReportSyncProofs` | its inductive invariant and theorems |
| `FeeSnapshots` | the fee of a pair of reports as operators |
| `MetricsReads`, `MCMetricsReads` | extends it: the calculation stores rows while latest-metrics, metrics-range and apr/sma read them |
| `MetricsReadsProofs` | its inductive invariant and theorems |
| `VaultListing`, `MCVaultListing` | the listing, a vault by its address and the overview while the worker writes |
| `VaultListingProofs` | its inductive invariant and theorems |
| `ReportsApi` | report endpoints, proof endpoint and probes over the response cache, the tree cache, gateways and the oracle |
| `ReportsApiProofs` | its inductive invariant and theorems |
| `JobRuntime` | callbacks, single-flight promises, unhandled rejections, the rescheduled backfill |
| `ExclusiveRuns` | abstract: at most one run per key; `JobRuntime` implements it |
| `JobRuntimeProofs` | its inductive invariant, theorems and the refinement |
| `Schema` | every migration by what it needs and adds, every entity by what it requires |
| `Startup` | extends it: replicas, lock, migrations, configuration, boot, worker, rollout |
| `SecretsRotation` | one container: sidecar, sourcing shell, watcher, listener, close and forced exit |
| `LifecycleProofs` | the inductive invariants and theorems of `Startup` and `SecretsRotation` |

`ReportsApi`, `JobRuntime`, `Startup` and `SecretsRotation` need no MC module: their
configurations give the constants plain values.

Operators whose comment begins with "Mutant" are deliberate faults used to test that the
properties can fail; no specification uses them.

### VaultOwnership

*State.* `height`, `hist`, `tip`, `logs` are the chain; `hist[b]` is what a read with
`blockTag: b` sees. `row` is the database row, `stateBlock` the block of its
`vault_states` row. `jobs` holds the asynchronous functions in flight: kind, block, next
step, the address it remembers and the log it is at. `handled`, `backfillDone`, `faults`
are the bookkeeping of the process; `moments`, `recovered` and the field `ownerSeen` are
history used by properties only.

*Grain.* One step of a job is one SQL statement or transaction together with the pinned
on-chain reads before it. That is sound because a pinned read does not depend on when it
happens (there are no reorganisations in the model); what does depend on it, the row, is
read and written inside the step. A selection (`MembersSelect`, `ReconcileSelect`,
`ScanSelect`, `BackfillMissing`, `BackfillStaleMembers`, `ListConnectedVaults`) is a step
of its own, so the row may change between the selection and the write.
`getOrCreateVaultByAddress` is two steps, and the unique index makes the second fail.

*Correspondence.* The handlers are `VaultConnectedRead` → `GetOrCreateFind` /
`GetOrCreateInsert` → `ConnectStep` → `StateStep` → `RefreshMembers`;
`VaultOwnershipTransferredWrite` → `RefreshMembers`; `DisconnectStep`. The vaults cron
shares these steps in its own order (`StateStep` before `ConnectStep`), then
`ListConnectedVaults` → `DisconnectStep` for a vault the list did not contain. Job kind
`metrics` is the report import's `getOrCreateVaultByAddress`, which creates rows flagged
disconnected. Crons carry the safe block, `ConfirmationBlocks` behind the head.

*Failures.* `JobFails` (a call throws, the rest of the job is lost),
`DisconnectOwnerReadFails` (the flag is written without an owner), `BatchReadFails`
(the batch is skipped), `ViewerAnswersZero`, `ScanWriteFails`, `WorkerDies` (jobs and
undelivered logs are lost; also what an unhandled rejection in the members cron does).

*Abstraction.* `ImplementsRegister` maps the row's `effectiveOwner`, `ownerSeen` and the
chain's `moments` to `OwnershipRegister`: whatever the jobs interleave, every change of the
recorded owner is a `Record` of an owner the vault really had, at a block not older than
the last, and a recorded owner is never forgotten.

### CronBatches

*State.* `lists[b]` is what VaultHub lists at block b, in its order (it moves its last
vault into the place of one that leaves); `events` and `transfers` are undelivered events;
`row` is, for each vault, the id, the flag, `ownership_block_number` (`block`), and the
blocks of its state and of its members; `vaults` and `members` are the two runs with their
offsets and items, `reading` the handler's retried read. `flag` (the block the flag was
written for), `sent`, `missed`, `unsaved`, `late` (the handler of an older event has
overwritten the state since the run wrote it), `stayed`, `visited` and `moves` are history.

*Correspondence.* `StartVaults` → `ReadBatch` / `BatchFails` → `SaveItem` / `ItemFails` →
`Detect` → `DisconnectUnlisted` / `DisconnectFails` is
`fetchAllVaultsAndCalculateStates`; `StartMembers` → `LoadPage` / `LoadPageFails` →
`SaveMembers` / `SaveMembersFails` is `fetchAllVaultsRoleMembers`. An event is one step
here (`Deliver` for `VaultConnected` and `VaultDisconnectCompleted`, `DeliverTransfer` for
`VaultOwnershipTransferred`), because its own steps are `VaultOwnership`'s subject, and so is
a write of the log scan or of the reconcile cron (`SyncOwner`). These last two move the
block of a row and leave its flag alone. `AttemptSucceeds` / `AttemptFails` are the attempts
of `rpcCallWithRetry`. A lost event is one that is never delivered.

*What a block does.* At most one vault comes or leaves, any of the listed ones may change
hands in the same block (`Mine`). A transfer may therefore be of a vault that leaves in its
block, or has just come, which is why `FlagsAreOfTheirBlock` says `ListedDuring`.

### ReportSync

*State.* `published`, `contents` are the oracle; `reports`, `leaves`, `stats` the tables;
`nullFees` the null entries of `noFeeSnapshotCache`; `fetch` and `metrics` the single
flights of `fetchAllReports` and `calculateVaultMetrics`; `handlers` the event handlers in
flight. A report is its number: the previous CID of report n is n-1 and block numbers and
timestamps grow with it.

*Correspondence.* `FetchExists` / `FetchSave` / `FetchInsert` / `FetchLeaf` / `FetchNext`
are the loop body of `fetchAllReports`; `FetchReturns` goes on to the calculation as the
cron does. `MetricsBatch` / `MetricsItem` / `MetricsExists` / `MetricsTask` /
`MetricsNext` / `MetricsNextBatch` are `calculateVaultMetrics` with its offset pages, kept
leaves and tail rule. `HandlerSave` … `HandlerDone` are the event handler, whose second
`try` block runs even after the first one failed (`HandlerFails` in "leaves"). The tasks
of a pair (`Promise.allSettled`) finish in any order and fail one by one; a failed fee
snapshot may leave a null in the cache. `ColdStart` shares the single-flight key of the
cron's calculation whatever its argument.

### FeeSnapshots and MetricsReads

`NOFeeSnapshot` is the read of a Dashboard through Multicall3 at the block of a report,
null when anything throws; `NeutralizeStoppedFeeAccrual` takes a pair out when either end
has the parked settled growth; `NodeOperatorRewards` is the difference that enters the
net APR, never below zero (`feeForPeriod` in no-fee-snapshot.utils.spec.ts). The arithmetic
of the external library is reduced to sums, products and a floor.

`rows` and `bad` are the statistics of one vault and their anomaly flags, a row being the
timestamp of its current report (several rows for one current report, which section 5
item 4 makes possible, are left out). A request is one record: `ReadExists`,
`ReadNewest`, then `ReadValidLatest` for latest-metrics or `ReadValidSma` and `ReadRange`
for apr/sma, one statement each; `GetRange` with the validator and
`GetVaultStatsRangeByAddress` is metrics-range. `AddOrUpdateReportStats` is the upsert
with the anomaly rule, which may also change a flag. `skewed` are the rows whose stored net
or carry APR is out of proportion: what the `UPDATE` of `MarkNetAndCarryAprAnomalies` looks
at. The rows up to `Rollout` may have been stored by the previous image, flagged or not,
skewed or not, in any combination: it priced the sentinel as growth and looked at the gross
APR only. `extreme` (the reports themselves, without the fee, make an extreme APR) and `old`
(still as the previous image stored it) are history, and the migration changes neither.
Rows that the previous image stores after the migration are `Startup`'s subject.
`ListingSma` is the SQL of the listing. `rows0`, `stable`, `tainted` and `quiet` are history.

### VaultListing

`table` is `vaults` joined with `vault_states`, reduced to whether the row exists and is
joined, the flag, the sort column and how the address of the request relates to the vault.
`ReadLastReportMeta`, `ReadCount` and `ReadPage` are the statements of
`getVaultsWithRoleAndSortingAndReportData`, `GetVaultByAddress` is the vault opened by its
address, `GetVaultsCount` and `GetTvl` the two statements of the overview, in either
order. Every statement sees what is committed when it starts (READ COMMITTED: no isolation
level is set). Rows that compare equal come in any order. `quiet` is history: no write
since the request began.

### ReportsApi

`trees` is the LRU of merkle trees, `cache` the kept responses with the ticks they have
left, `request` the handlers in progress, `since` the ticks since a report was superseded
(history). `Arrive` is the interceptor (`Hit` or `Miss`), `Respond` keeps a response,
also one that says null, `Fail` keeps nothing. `AssertVaultExists`, `ExistsByCid`,
`FetchIPFS`, `GetLatestReportData`, `GetVaultReport`, `GetReportProofByVault`,
`CreateProof` and `Check` are the awaits of the controllers; each has its failures.
`CheckHeapFails` is a probe that answers 503 because of the heap, with the database up. A
behaviour asks one group of URLs (`asked`): the groups share no cache key. `MaxHandling`, the
time a handler takes at most, is a parameter of the model and not a timeout of the code: only
a fetch from a gateway has one (`lsv.service.ts:113`).

### JobRuntime

`callback` are the cron callbacks under way (nobody awaits them, so one may fire while
another waits), `run` the runs they have started, `inFlight` the map of the decorator.
`Join` awaits the promise of another callback and never sees its rejection; `Cleanup` is
the `finally` that frees the key and settles everyone. A rejection that reaches an
unguarded callback is `UnhandledRejection` and takes the worker down; `RunHangs` is a run
that never settles. `Reschedule` deletes and registers the backfill job with a doubled
delay. What runs do is in the modules above: there `ReportSync` and `VaultOwnership` rely
on the exclusion that is shown here.

### Schema and Startup

A replica goes `TryLock` → `TakeLock` → `LoadExecuted` → `Up` … → `CommitMigrations` →
`Unlock` → `Boot` steps (configure, contracts, chain check, listen). Lock and migrations
use different connections (`LockConnectionLost` breaks one of them), all pending
migrations run in one transaction, and a concurrent one makes `Up` wait or fail
(`Blocked`). The worker starts without migrations (`WorkerStart`), stores metrics by the
rule of its image (`StoreMetrics`) and runs the backfill, which needs the new columns.
`Rollout` replaces an image, `CorrectEnv` is the operator repairing a wrong environment.

### SecretsRotation

`file` and `stamp` are the file and its identity; `env` is what the shell sourced,
`lastContent` and `restarting` are the variables of `registerSecretsRotationRestart`;
`watch`, `seen` and `due` are fs.watchFile: the first stat is only remembered (a missing
file calls the listener once), later ones call the listener when they differ. `Listener` is
the whole listener with `restart`; a failing read (`ListenerUnreadable`) leaves the call due,
which is what the retry timer does. `RegisterUnreadable` is a baseline read that fails, for
whatever reason: at the default path the process goes on without a watch, with
`SECRETS_FILE` set it exits. `CloseSettles` and `ForceExit` end the process; `Stop` is
a crash or a signal. The sidecar may change the file at any time, also between the sourcing
and the first stat. `restarts`, `written` and `rotations` are history over all processes of
the container.

`NoNeedlessRestart` counts: a rotation to another content costs one restart at most.
`StaleSecretsDropped` is about a process on stale secrets whose watcher has a change to
report (`Noticeable`): it ends, unless the file has come back to the content read last.

## 3. Runs

| Run | Checks | Shows | Bounds |
|---|---|---|---|
| `members_writers` | `RoleAccessSound`, `MembersNeverWiped` | roles of a previous owner never grant access and zero answers never replace members, with five kinds of writers and legacy rows | 2 owners, changes in 2 blocks, 2 logs, 1 failure |
| `disconnected_owner` | `ConnectedFlagFaithful`, `StateTakenWhileConnected`, `OlderNeverOverwrites`, `ImplementsRegister`, `EventuallyConverged` | owner, flag, state and block of a row stay together in any order of writes, and the crons repair the row after lost events, a failed batch or a crash | 2 owners, 1 block of changes, 3 logs, 1 failure |
| `connected_row` | `EventuallyDelegated` | whoever creates the row, the delegates of the owner find the vault in the end | 1 block of changes, 2 logs, 1 failure |
| `cron_batches` | `FlagsAreOfTheirBlock`, `RunReachesEveryVault`, `SkipsAreBoundedByMoves`, `RunsEnd`, `EventuallyListed` | a flag fits the block it was written for, whatever transfers did to the block beside it; a failure stays with its vault or batch; offset pages skip no more vaults than rows moved; runs end; the table converges to the list | 3 vaults (2 at first), batches of 2, pages of 1, the vaults cron with minimal mode off or at 2, or the members cron, 1 attempt, 4 blocks and transfers together, 1 fault |
| `report_sync` | `StatsBackedByLeaves`, `LatestEventuallyStored`, `NewestPairEventuallyCalculated` | metrics are never stored for a leaf that does not exist; the cron makes up for lost events, races, failed tasks and a crash | 2 vaults, 2 reports, 1 handler, pages of 2, 1 failure |
| `metrics_reads` | `SmaCoversItsDays`, `FreshSmaIsNewest`, `FreshLatestIsNewest`, `RangeIsWhatWasAsked`, `AnomaliesAreOfTheReports`, `SmaAgreesWithListing` | the window is the right calendar days; "not outdated" is true; a range is what was asked; a stopped accrual makes no anomaly, and the rows for which it did are flagged after the migration; endpoint and listing average the same rows | 3 reports around two day boundaries, the first two possibly stored by the previous image, days of 2 units, windows of 2 days, range ends below, at and above the largest number |
| `listing` | `DisconnectedGroupedAtEnd`, `ListedVaultsAreFound` | the place of a vault on any page is what the query's comments promise; a vault once shown is found by its address | 3 vaults, 2 values and NULL, pages of 2 at offset 0 or 1, 1 report |
| `reports_api` | `AnswersAreOfTheirReport`, `StalenessBounded`, `ProbesAreLive`, `EventuallyRight` | answers are verified content of the report asked for and not older than TTL and handling; probes are never answered from a cache; nulls, errors and old answers are temporary | 2 requests, 2 reports, 2 gateways, TTL of 2 ticks, 1 tree, 2 faults |
| `job_runtime` | `ImplementsExclusiveRuns`, `FailureReportedOnce`, `BackfillCompletes`, `EveryCallReturns` | single flight excludes runs of a key, loses no caller and reports a failure to one; the backfill is repeated until it succeeds | 4 crons, 3 callbacks, 2 failures, 1 hang, 1 death |
| `startup` | `TypeOK`, `AppliedInOrderOnce`, `PendingIsCurrent`, `ServesItsSchema`, `OnlyLateRowsStayUnflagged`, `EventuallyUp` | migrations are applied once and in order though replicas crash and the lock can be lost; nobody serves without its schema; everything is up in the end | 2 replicas and the worker, from the image before the last two migrations, 2 faults, 1 row |
| `secrets_rotation` | `NoNeedlessRestart`, `StaleSecretsDropped` | one restart at most for a rotation, wherever it falls; nobody stays on stale secrets its watcher can notice | 3 contents, 3 changes of the file, at any time |
| `batch_failure` | `DisconnectsOnlyUnlistedVaults` | violated, see section 5 | 1 log, 1 failure |

*Why the bounds are enough.* Two owners tell a right owner from a wrong one. Two blocks
of changes and a safe block one behind give an older and a newer read of the same row, in
either order of writing; three logs allow connect, transfer and disconnect within one
block. A lookback of 2 blocks makes a window that overlaps the previous one and that can
also miss a log. One failure at any point is the step every recovery starts from; the
theorems below have no such bound. Three vaults and batches of two give a second batch, a
failed one beside a good one, and a vault that moves from one to the other; pages of one
vault give two page boundaries for rows to move across; four blocks are needed for a late
event to overwrite a newer state, and leave room for a vault that leaves, comes back and
changes hands, with the event of its return delivered last. Two reports make a pair and two
vaults make it half calculated. Liveness runs of `VaultOwnership` stop the chain after one
block of changes because the properties speak of a vault that has stopped changing.
Reports at 4, 7 and 8 and days of two units give a window with rows before it, on its
first instant, later that day, and in the last day, and windows whose rounding matters; the
first two may be of the previous image, so that the migration has rows to flag beside rows
it must leave alone.
Three vaults with a page of two give a page that is cut in either group. Two concurrent
requests fill the same key in either order; two gateways make a failure before a success.
Three callbacks are a run, one that joins it, and one that comes after. Three changes of
the secrets file are a change, another one during the close, and a removal in between, or a
rotation during the start and one after it; three contents tell the sourced, the baseline
and the new one.
Symmetry (of owners, of vaults) is used in runs without liveness properties only.

Deadlock is checked in every run but `job_runtime`: there hung runs may occupy every
callback, so that nothing remains to be done, and no fairness revives them. In the
others clocks tick or crons keep firing.

*Fairness*, and why the code justifies it:

* `VaultOwnership`, `ReportSync` (`LiveSpec`): blocks are produced, every cron fires again
  (a `CronJob` with a fixed schedule) and the run it starts is carried on (RPC calls and
  queries time out, so every await settles). Event delivery, handlers, the oracle and the
  cold start have no fairness: events can be lost and handlers can stall.
* `CronBatches`: the two crons fire and their runs are carried on. Nothing is assumed of
  the chain, of event delivery or of the handlers' retried reads.
* `JobRuntime`: a promise settles unless it hangs (`RunStep` includes hanging), the
  continuation of a settled await is run, the timer of the backfill fires, the
  orchestrator restarts a dead worker. The other crons have none.
* `ReportsApi`: time passes, the calls of a handler settle (a fetch from a gateway by its own
  timeout, the others by those of the libraries), Postgres comes back, the worker imports
  vaults and reports. Clients have none. A heap over its limit counts as a fault, of which
  there are finitely many.
* `Startup`: processes go on and are restarted, a waiting replica is granted the lock
  (strong fairness: Postgres queues the waiters of an advisory lock), the rollout and the
  operator finish.
* `SecretsRotation` (`LiveSpec`): the poll, the retry timer and the force-exit timer fire
  while the process lives, and a read of an existing file succeeds in the end; nothing is
  assumed of `app.close()` or of the sidecar.

The number of failures is finite in every run, which is the usual reading of "eventually,
once failures stop".

## 4. Proofs

Eight modules hold proofs. Every invariant and every safety action property that a run
checks is proved, for every value of the constants; so are the type invariants of the
specifications and a few safety properties that no run names.

`VaultOwnershipProofs`, for every set of owners, number of blocks, logs, jobs and failures,
and every choice of enabled jobs:

* `TypeCorrect`, `OwnerIsFaithful`, `ConnectedFlagIsFaithful`, `RoleAccessIsSound`,
  `StateIsTakenWhileConnected` (invariants), `OlderWritesLose`, `MembersAreNeverWiped`
  (action properties) and `RowImplementsRegister` (the refinement).
* They rest on `Invariance` of `IInv`, which adds to `TypeOK`: `ChainInv` (every sealed or
  pending state of the chain is a recorded moment; a connected vault is owned by the hub
  with no pending owner; a `VaultOwnershipTransferred` or accepting log names the owner of
  a moment of its block), `JobInv` (the address a job carries is one its block justifies;
  no job is ahead of the chain), `RowOK` (the row against the moments) and
  `StateTakenWhileConnected`. None of the properties is inductive alone: a job that carries
  an address is as dangerous as a row that holds it, so the invariant has to speak about
  the jobs in flight, and what they carry is only right because of what the chain looked
  like at their block.
* The argument: one lemma per action shows that the step keeps `RowOK` and `JobInv`; the
  operators of `VaultRow` have lemmas of their own (an update either leaves the row alone
  or brings it to a block at least as new). For the refinement a step that changes the
  recorded owner is shown to be a `Record` of the moment `RowOK` names.

`ReportSyncProofs`, for any number of vaults, reports, handlers and failures, any page size
and block limit:

* `ReportTypeCorrect` and `StatsAreBacked`, from `ReportInvariance`: leaves are of stored
  reports and as published (`LeavesOK`); leaf lists that the fetch, the calculation or a
  handler keeps in memory are subsets of what is stored (`FetchOK`, `MetricsOK`,
  `HandlerOK`), because leaves are never deleted; so a task works on real leaves however
  old its list is (`StatsOK`).

`JobRuntimeProofs`, for any number of callbacks, failures, hangs and deaths:

* `JobTypeCorrect`, `KeysAreFreedAgain`, `FailuresAreReportedOnce` and the refinement
  `JobRuntimeImplementsExclusiveRuns`, from an `IInv` that ties the three maps together:
  a run's promise is in the map under its key and its starter waits for it (`RunOK`), a
  promise in the map is that of a run (`KeysAreFreed`), and a callback knows of a failure
  only after its await has settled (`CallbackOK`). Exclusion follows because two runs of a
  key would both be the one entry of the map.

`CronBatchesProofs`, for any finite set of vaults, any list without repetitions to begin
with, any positive batch sizes, any number of blocks, attempts and failures, in and out of
minimal mode, and with both crons firing side by side (the run has one or the other):

* `FlagsTellTheirBlock`, `RunsReachTheirVaults`, `SkipsAreBounded`, `CronBatchesTypeCorrect`
  and `StoredMembersAreResolved` (role members are only stored from a block at which the
  vault was connected), from `CronBatchesInvariance`.
* `RowOK` ties a row to the chain: the flag says what the hub listed at the block it was
  written for, and if `ownership_block_number` is newer, the row says disconnected or the
  vault was listed in the course of that block. An ownership transfer keeps it because
  `ChainOK` knows that only a listed vault changes hands, a followed owner because those jobs
  write disconnected rows only (`OwnerRow`).
* `VaultsOK` says where a run stands: `Covered(run, k)`, the first k vaults of its list were
  seen or their batch was missed. Batches cut the list without a gap, so `Covered` reaches
  the limit when the run ends; and a detection only follows a run whose limit was the
  length of the list. `SeenOK` keeps every seen vault as new as the run until it ends, with
  the one exception of section 5 item 13. The lists are injective (`ChainOK`), also after
  the hub moved its last vault into a gap.
* For the pages, `MembersOK` bounds the vaults `Skipped` so far: those that were in the
  filter all along, have not been loaded, and whose place is behind the offset or beyond
  the limit. A place is the rank of a vault, the number of filtered rows with an id that is
  not larger (`Rank`); ids are distinct (`IdsOK`), so a row that enters or leaves shifts the
  ranks of the others by at most one and carries at most one more vault over the offset or
  the limit, each time `moves` counts one.

`MetricsReadsProofs`, for any timestamps, length of a day and of the window, any owners and
leaves that satisfy the assumption:

* `MetricsTypeCorrect`, `SmaCoversAllItsDays`, `FreshSmaIsTheNewest`,
  `FreshLatestIsTheNewest`, `RangeIsAsAsked`, `AnomaliesComeFromReports` and
  `SmaAgreesWithTheListing`, from `MetricsInvariance`. `Control` says what a request knows
  between two statements: its rows are still there, what it read as the newest row is not
  older than the rows it began with (`NewestOK`), the window ends at a stored row
  (`RangeOK`), only valid ranges reach the query (`QueryOK`). A set of rows has a newest
  one because it is not empty and bounded, which is proved by well-founded descent, not
  assumed. `AnomaliesComeFromReports` is arithmetic for the rows of this image (both ends of
  a pair are either neutralised or within half of the limit), and for the others `SkewedOK`:
  what is out of proportion and not flagged was stored by the previous image, so that the
  `UPDATE`, which looks at the stored APRs and not at their cause, leaves none.
* Assumed: real earnings of a Dashboard are less than half of `MaxFee` and its settled
  growth is either real or the sentinel. It is the least the code relies on when it
  compares with the sentinel; TLC evaluates it for the instance.

`VaultListingProofs`, for any finite set of vaults, values, limits and offsets:

* `ListingTypeCorrect`, `ListedVaultsStayFound`, `OverviewIsOfTheList` and
  `CountAndPageAgree`, from `ListingInvariance`: only existing vaults have a state
  (`TableOK`), a vault on a page keeps it (`PageOK`), and the first of two statements is
  still right as long as nothing is written (`CountOK`, `OverviewOK`).
* `PagesAreGrouped` (`DisconnectedGroupedAtEnd`). No induction over the sorted list is
  needed: an order of the rows is a bijection between places and rows (`OrderIsOnto`), so a
  place is the number of rows that stand before it (`PlaceCounts`), and all of one group,
  or none, do (`GroupsBefore`, `ValuesBefore`, `SortedPlaces`).

`ReportsApiProofs`, for any number of requests, reports, gateways, trees and failures, any
time to live and any handling time:

* `AnswersMatchTheirReport`, `AnswersAreFresh`, `PositiveProbesAreLive` and
  `ReportsApiTypeCorrect`, from `ReportsApiInvariance`. `CacheOK`: the kept response and its
  report age together, so with `left` ticks to go its report was superseded at most `Ttl` +
  `MaxHandling` - `left` ticks ago; probes are never kept. `RequestsOK`: what a request has
  learnt before an await (which report was the latest, which is stored) is still as true of
  its report after it as the request's age allows. `SinceOK` and `SeenOK` tie the two
  histories to the oracle and the database. The bound is not inductive without `CacheOK`:
  a miss that began before the report changed may fill the key after it.

`LifecycleProofs`, of `Startup`, for any set of replicas, any number of faults and of rows,
and any image to begin with:

* `StartupTypeCorrect`, `MigrationsAreInOrder`, `LockKeepsPendingCurrent`,
  `ServersHaveTheirSchema` and `MissedRowsAreLate`, from `StartupInvariance`. `ProgressOK`
  says how far a migrating replica has got against the table: its first statement has shown
  that nobody was ahead of it, because every migration that changes the schema fails when
  its change is already there; only the last one, the `UPDATE`, succeeds again. `OpenOK`: no
  two open transactions alter the same tables. Together they make `AppliedInOrderOnce`
  independent of the advisory lock, which is needed for `PendingIsCurrent` only
  (`LockOK`). `BootOK` says what a replica has passed on its way to serving, `FlagsOK` that
  a row the `UPDATE` has missed was stored after it.

`LifecycleProofs`, of `SecretsRotation`, for any set of contents and any number of
rotations:

* `SecretsTypeCorrect`, `ClosesOnce` and `RestartsAreNeeded`, from `SecretsInvariance`: the
  latch counts the closes (`LatchOK`), a call of the listener is only due in a process whose
  watch is on (`WatchOK`), and a process that has not read the content written last has a
  rotation left that no restart stands for (`RotationsOK`). Nothing is assumed of when the
  file changes: a process that starts in the middle of a rotation takes the new content for
  its baseline and has no restart left for it, one that starts before it has exactly one.

Assumptions: the named `ASSUME`s of the modules (constants are of the right kind,
addresses differ). TLC evaluates them in the runs.

Only model-checked: the liveness properties (`EventuallyConverged`, `EventuallyDelegated`,
`RunsEnd`, `EventuallyListed`, `LatestEventuallyStored`, `NewestPairEventuallyCalculated`,
`EventuallyRight`, `BackfillCompletes`, `EveryCallReturns`, `EventuallyUp`,
`StaleSecretsDropped`), because liveness under fairness is out of this prover's reach, and
the violated claim of `batch_failure`. `NoNeedlessRestart` is proved as `RestartsAreNeeded`,
through an instance of `SecretsRotation`.

## 5. Where comments and code disagree

1. *"We do this only if we fetched a full list"* (vault.service.ts:161): a failed batch is
   skipped and the list still counts as full, so connected vaults are marked
   disconnected until the next run (`batch_failure`; `EventuallyConverged` and
   `EventuallyListed` show the repair).

The following were met while modelling. No run claims them; the properties above are
stated so that they hold beside them.

2. *"Their state ... is never refreshed again"* (vaults-http.controller.ts:159): the state
   upsert has no block guard, so a job that started before the disconnect writes after it.
   What holds is `StateTakenWhileConnected`: the state is of a block at which the vault was
   connected.
3. *"tail reached"* (report.service.ts:131): a report stored by the handler hides a gap
   below it, so `LatestEventuallyStored` is about the newest report only. The calculation's
   *"Tail sync: pair already calculated"* (report.service.ts:215) has the same weakness one
   table later.
4. *"current (newer one)"* (report.service.ts:182): a report stored between two offset
   pages (report.service.ts:244) makes the calculation pair a report with itself.
5. *"the app must detect rotation itself"* (secrets-rotation.ts:25): the baseline is read
   (line 49) long after the shell has sourced the file, so a rotation in between is compared
   with itself and not noticed, and one before the watcher's first stat is not reported.
   Comparing with what was sourced would close the gap. *"File absent at the default path"*
   (line 31) is the case the comment names for doing nothing, but the `catch` at lines 50-53
   takes every failing read for it: a file that is there and cannot be read at that moment
   leaves the process without a watch for good. `StaleSecretsDropped` is about what the
   watcher can notice.
6. *"re-applying an already-applied log is a no-op"* (vault.service.ts:469): two transfers
   in one block make an overlapping scan move the owner back and forward again;
   `OwnershipRegister` allows an equal block for that reason.
7. The listing's comment promises one snapshot for count and page (vault-db.service.ts:243);
   the transaction has the default isolation level. `QuietCountAndPageAgree` says what is left.
8. The fee of a pair (no-fee-snapshot.utils.ts:10) compares two Dashboards when the vault
   was transferred between its reports: the settled growth of one is subtracted from that
   of the other.
9. Comments call the reconciliation a 10-minute cron (vault.service.ts:433), its default
   schedule is daily.
10. The worker never checks the chain id; the API does (`OnModuleInit` in `Startup`).
11. A callback that joins another's run is counted as a completed job by `TrackJob`, also
    when the run failed.
12. `isVaultDisconnected` compares `vaultIndex` with `0n`, which a `BigNumber` never equals;
    the zero answer is recognised by the addresses instead.
13. Met while proving: the upsert of `vault_states` has no guard on the block
    (vault-db.service.ts:203), so the handler of a `VaultConnected` event that arrives late
    puts an older state back after a cron run has stored a newer one; flag and owner are
    guarded and stay. The invariant behind `RunReachesEveryVault` was not inductive until
    it said so (`late`); three blocks had been too few for TLC to meet it.
14. `VaultOwnershipTransferred` moves `ownership_block_number` and leaves the flag alone
   (vault-db.service.ts:189). Disconnected at block 3 and handled, connected again at 5 with
   the event late or lost, transferred at 6 and handled: the row says disconnected beside
   block 6, at which the hub lists the vault, and `VaultConnected` of block 5 is refused when
   it comes. The vaults cron sets the flag right at the first safe block that is not older
   (`EventuallyListed`). `FlagsAreOfTheirBlock` therefore speaks of the block a flag was
   written for, and of the newer one only where the flag says connected.

## 6. Not modelled

Reorganisations (handlers read the head block, so an orphaned owner can stay until the
next cron); column values other than the ones named above, and the APR and health
formulas, which are arithmetic of an external library; switching between RPC URLs inside
the provider library; caches of clients and proxies; throttling, Swagger, logging, metrics
and Sentry; the ABI files, which are generated and have no control flow; `down()` of the
migrations, which nothing calls; `limit = 0` and batch sizes of 0, which validation lets
through and whose effect is up to libraries; the spelling of addresses.

## 7. What is left

1. Reorganisations in `VaultChain`, to bound what a head-block handler can leave behind.
2. Liveness of `CronBatches` with both crons in one behaviour: the run has one or the other
   beside the handlers, because together they exceed what TLC explores in minutes. Their
   safety is proved for both.
3. The refinement of `CronBatches` by `VaultOwnership` for one vault: that the one step an
   event is there stands for the steps of its handlers here.
