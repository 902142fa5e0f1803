------------------------------ MODULE Startup ------------------------------
(***************************************************************************)
(* The start of the processes and the rollout of an image: every API       *)
(* replica runs the migrations under an advisory lock and only then the    *)
(* server; the worker starts without them.  The lock is held by a          *)
(* transaction on one connection, the migrations run in a transaction on   *)
(* another, so either can be lost alone.                                   *)
(***************************************************************************)
EXTENDS Schema, FiniteSets

CONSTANTS
  Replicas,   \* API replicas
  OldImage,   \* the image before the rollout: how many migrations it ships
  None,       \* nobody
  MaxFaults,  \* bound: crashes, failed statements, failed reads, lost lock connections
  Rows        \* rows whose anomaly only the new rule notices

ASSUME StartupAssumption ==
  /\ None \notin Replicas /\ "worker" \notin Replicas
  /\ OldImage \in 1..(Newest - 1)
  /\ MaxFaults \in Nat

VARIABLES
  applied,   \* the rows of the table "migrations"
  schema,    \* the committed tables, columns and indexes
  unflagged, \* stored rows with an anomaly that is not flagged
  late,      \* the rows stored by an old worker after the UPDATE had run
  lock,      \* the replica whose connection holds the advisory lock
  pc,        \* where a replica stands
  image,     \* the image a replica or the worker runs
  pending,   \* the migrations a replica found missing
  done,      \* the migrations in a replica's open transaction
  flagged,   \* the rows its UPDATE has flagged
  lost,      \* whether a replica's lock connection has broken: never, before, now
  worker,    \* where the worker stands
  backfill,  \* the ownership backfill of this worker process has completed
  env,       \* the environment the processes are started with
  faults     \* how many faults so far

vars == <<applied, schema, unflagged, late, lock, pc, image, pending, done, flagged, lost,
          worker, backfill, env, faults>>
database == <<applied, schema, unflagged, late>>
migrator == <<pending, done, flagged, lost>>
workers == <<worker, backfill>>

Worker == "worker"

Env == [
  urls    : {"unset", "blank", "given"},    \* EL_RPC_URLS
  minimal : BOOLEAN,                        \* the numbers with a lower bound respect it
  network : {"none", "missing", "file"},    \* CUSTOM_NETWORK_FILE_NAME
  chain   : {"expected", "other"}]          \* whether the RPC answers with CHAIN_ID

RightEnv == [urls |-> "given", minimal |-> TRUE, network |-> "file", chain |-> "expected"]

\* The right environment, or one mistake in it.
MistakenEnvs ==
  {e \in Env : Cardinality({f \in DOMAIN e : e[f] # RightEnv[f]}) <= 1}

Phases == {"down", "lock", "check", "migrate", "unlock",
           "configure", "contracts", "init", "listen", "serving"}

Init ==
  /\ applied \in {<< >>, [i \in 1..OldImage |-> i]}
  /\ schema = AddedBy(applied)
  /\ unflagged = {} /\ late = {}
  /\ lock = None
  /\ pc = [r \in Replicas |-> "down"]
  /\ image = [p \in Replicas \cup {Worker} |-> OldImage]
  /\ pending = [r \in Replicas |-> << >>]
  /\ done = [r \in Replicas |-> << >>]
  /\ flagged = [r \in Replicas |-> {}]
  /\ lost = [r \in Replicas |-> "never"]
  /\ worker = "down" /\ backfill = FALSE
  /\ env \in MistakenEnvs
  /\ faults = 0

Fault == faults < MaxFaults /\ faults' = faults + 1
Goto(r, phase) == pc' = [pc EXCEPT ![r] = phase]

\* A replica's process ends: its transactions are rolled back, the lock with them.
Exit(r) ==
  /\ Goto(r, "down")
  /\ lock' = IF lock = r THEN None ELSE lock
  /\ pending' = [pending EXCEPT ![r] = << >>]
  /\ done' = [done EXCEPT ![r] = << >>]
  /\ flagged' = [flagged EXCEPT ![r] = {}]
  /\ lost' = [lost EXCEPT ![r] = IF @ = "now" THEN "before" ELSE @]

(***************************************************************************)
(* run-migrations.                                                         *)
(***************************************************************************)
\* The container starts; the data source connects and opens the transaction.
Start(r) ==
  /\ pc[r] = "down"
  /\ Goto(r, "lock")
  /\ UNCHANGED <<database, lock, image, migrator, workers, env, faults>>

\* Mutant: the lock is only tried for.
TryLock(r) ==
  /\ pc[r] = "lock"
  /\ lock' = IF lock = None THEN r ELSE lock
  /\ Goto(r, "check")
  /\ UNCHANGED <<database, image, migrator, workers, env, faults>>

\* pg_advisory_xact_lock waits until the holder's transaction ends.
TakeLock(r) ==
  /\ pc[r] = "lock" /\ lock = None
  /\ lock' = r
  /\ Goto(r, "check")
  /\ UNCHANGED <<database, image, migrator, workers, env, faults>>

\* Migrations of the image that the table does not name, in their order.
Missing(r) == {m \in 1..image[r] : \A i \in DOMAIN applied : applied[i] # m}
PendingOf(r) ==
  [i \in 1..Cardinality(Missing(r)) |->
    CHOOSE m \in Missing(r) : Cardinality({k \in Missing(r) : k <= m}) = i]

LoadExecuted(r) ==
  /\ pc[r] = "check"
  /\ pending' = [pending EXCEPT ![r] = PendingOf(r)]
  /\ Goto(r, "migrate")
  /\ UNCHANGED <<database, lock, image, done, flagged, lost, workers, env, faults>>

\* What an open transaction sees of the schema.
Sees(r) == schema \cup AddedBy(done[r])

\* Two transactions wait for each other's tables, and for the rows both update.
Blocked(r, m) ==
  \E q \in Replicas \ {r} :
    \E i \in DOMAIN done[q] : done[q][i] = m /\ (Migrations[m].data => flagged[q] # {})

\* Mutant: CREATE ... IF NOT EXISTS.
UpIfNotExists(r) ==
  LET m == Head(pending[r])
  IN /\ pc[r] = "migrate" /\ pending[r] # << >> /\ ~Blocked(r, m)
     /\ pending' = [pending EXCEPT ![r] = Tail(@)]
     /\ done' = [done EXCEPT ![r] = Append(@, m)]
     /\ flagged' = [flagged EXCEPT ![r] = IF Migrations[m].data THEN unflagged ELSE @]
     /\ UNCHANGED <<database, lock, pc, image, lost, workers, env, faults>>

\* One migration.  Its statements fail on what exists already.
Up(r) ==
  LET m == Head(pending[r])
  IN /\ pc[r] = "migrate" /\ pending[r] # << >> /\ ~Blocked(r, m)
     /\ Migrations[m].needs \subseteq Sees(r) /\ Migrations[m].adds \cap Sees(r) = {}
     /\ pending' = [pending EXCEPT ![r] = Tail(@)]
     /\ done' = [done EXCEPT ![r] = Append(@, m)]
     /\ flagged' = [flagged EXCEPT ![r] = IF Migrations[m].data THEN unflagged ELSE @]
     /\ UNCHANGED <<database, lock, pc, image, lost, workers, env, faults>>

\* Mutant: the shell starts the server although the migrations failed.
UpFailsAndServes(r) ==
  LET m == Head(pending[r])
  IN /\ pc[r] = "migrate" /\ pending[r] # << >> /\ ~Blocked(r, m)
     /\ \/ ~(Migrations[m].needs \subseteq Sees(r) /\ Migrations[m].adds \cap Sees(r) = {})
           /\ UNCHANGED faults
        \/ Fault
     /\ Goto(r, "configure")
     /\ lock' = IF lock = r THEN None ELSE lock
     /\ pending' = [pending EXCEPT ![r] = << >>]
     /\ done' = [done EXCEPT ![r] = << >>]
     /\ flagged' = [flagged EXCEPT ![r] = {}]
     /\ lost' = [lost EXCEPT ![r] = IF @ = "now" THEN "before" ELSE @]
     /\ UNCHANGED <<database, image, workers, env>>

\* ... or for any other reason: everything is rolled back and the process exits with 1,
\* which keeps the shell from starting the server.
UpFails(r) ==
  LET m == Head(pending[r])
  IN /\ pc[r] = "migrate" /\ pending[r] # << >> /\ ~Blocked(r, m)
     /\ \/ ~(Migrations[m].needs \subseteq Sees(r) /\ Migrations[m].adds \cap Sees(r) = {})
           /\ UNCHANGED faults
        \/ Fault
     /\ Exit(r)
     /\ UNCHANGED <<database, image, workers, env>>

\* Mutant: the executed migrations are not recorded.
CommitUnrecorded(r) ==
  /\ pc[r] = "migrate" /\ pending[r] = << >>
  /\ schema' = Sees(r)
  /\ unflagged' = unflagged \ flagged[r]
  /\ done' = [done EXCEPT ![r] = << >>]
  /\ flagged' = [flagged EXCEPT ![r] = {}]
  /\ Goto(r, "unlock")
  /\ UNCHANGED <<applied, late, lock, image, pending, lost, workers, env, faults>>

\* All pending migrations are committed together.
CommitMigrations(r) ==
  /\ pc[r] = "migrate" /\ pending[r] = << >>
  /\ applied' = applied \o done[r]
  /\ schema' = Sees(r)
  /\ unflagged' = unflagged \ flagged[r]
  /\ done' = [done EXCEPT ![r] = << >>]
  /\ flagged' = [flagged EXCEPT ![r] = {}]
  /\ Goto(r, "unlock")
  /\ UNCHANGED <<late, lock, image, pending, lost, workers, env, faults>>

\* Mutant: a lock of the session outlives the transaction.
UnlockForgotten(r) ==
  /\ pc[r] = "unlock" /\ lost[r] # "now"
  /\ Goto(r, "configure")
  /\ UNCHANGED <<database, lock, image, migrator, workers, env, faults>>

\* The lock's transaction is committed and the server started.  On a broken connection
\* the commit fails, and with it the process.
Unlock(r) ==
  /\ pc[r] = "unlock" /\ lost[r] # "now"
  /\ lock' = None
  /\ Goto(r, "configure")
  /\ UNCHANGED <<database, image, migrator, workers, env, faults>>

UnlockFails(r) ==
  /\ pc[r] = "unlock" /\ lost[r] = "now"
  /\ Exit(r)
  /\ UNCHANGED <<database, image, workers, env, faults>>

\* The idle transaction that holds the lock is cut off; the migrations go on.
LockConnectionLost(r) ==
  /\ lock = r
  /\ Fault
  /\ lock' = None
  /\ lost' = [lost EXCEPT ![r] = "now"]
  /\ UNCHANGED <<database, pc, image, pending, done, flagged, workers, env>>

(***************************************************************************)
(* The server.                                                             *)
(***************************************************************************)
\* class-validator: ''.split(',') is a list of one.
Validate == env.urls # "unset" /\ env.minimal

NetworkConfigFound == env.network # "missing"

\* Its constructor throws; the lists it looks at are never empty after Validate.
ConfigService == NetworkConfigFound

Configures == Validate /\ ConfigService

\* getCustomConfigContractsAddressMap: the contracts that the network file names.
AddressMap ==
  IF env.network = "file" THEN {"lido", "lidoLocator", "vaultViewer", "multicall3"} ELSE {}

\* What the locator answers for.  The address the library knows without a network file is
\* of a locator without the contracts of the vaults (so the modules' comments).
LocatorKnows ==
  IF "lidoLocator" \in AddressMap THEN {"vaultHub", "lazyOracle", "lido"} ELSE {"lido"}

\* The provider takes the list as it is: a blank URL is tried like any other.
RpcAnswers == env.urls = "given"

\* The factories read the addresses from the locator through the RPC, VaultViewer's from
\* the network file; an address that is not defined throws.
ReadsLocator(name) == RpcAnswers /\ name \in LocatorKnows
VaultHubResolves == ReadsLocator("vaultHub")
LazyOracleResolves == ReadsLocator("lazyOracle")
LidoResolves == ReadsLocator("lido")
VaultViewerResolves == "vaultViewer" \in AddressMap

ContractsResolve ==
  VaultHubResolves /\ VaultViewerResolves /\ LidoResolves /\ LazyOracleResolves

ValidateNetwork == env.chain = "expected"

\* onModuleInit of AppService: TypeORM has connected by then, or thrown.
OnModuleInit == ValidateNetwork

\* What the API and the worker create, and what each step needs.  The worker has no
\* AppService, so that it does not compare the chain id.
AppModule ==
  [configure |-> Configures, contracts |-> ContractsResolve, init |-> OnModuleInit, listen |-> TRUE]
AppJobModule == [configure |-> Configures, contracts |-> ContractsResolve]

After(step) ==
  [configure |-> "contracts", contracts |-> "init", init |-> "listen", listen |-> "serving"][step]

\* The server starts after the migrations, step by step.
Boot(r) ==
  /\ pc[r] \in DOMAIN AppModule /\ AppModule[pc[r]]
  /\ Goto(r, After(pc[r]))
  /\ UNCHANGED <<database, lock, image, migrator, workers, env, faults>>

\* A failed step ends the process; what asks the RPC may fail at any time.
BootFails(r) ==
  /\ pc[r] \in DOMAIN AppModule
  /\ \/ ~AppModule[pc[r]] /\ UNCHANGED faults
     \/ pc[r] \in {"contracts", "init"} /\ Fault
  /\ Exit(r)
  /\ UNCHANGED <<database, image, workers, env>>

(***************************************************************************)
(* The worker.                                                             *)
(***************************************************************************)
\* It runs no migrations.
WorkerStart ==
  /\ worker = "down" /\ \A step \in DOMAIN AppJobModule : AppJobModule[step]
  /\ worker' = "running" /\ backfill' = FALSE
  /\ UNCHANGED <<database, lock, pc, image, migrator, env, faults>>

\* Its statements wait for the tables that an open transaction alters.
Alters(table) ==
  \E r \in Replicas : \E i \in DOMAIN done[r] :
    ~Migrations[done[r][i]].data /\ table \in Migrations[done[r][i]].needs \cup Migrations[done[r][i]].adds

\* Mutant: the new image keeps looking at the gross APR only.
GrossOnly == TRUE

\* Before MarkNetAndCarryAprAnomalies the anomaly guard looked at the gross APR only.
MissesAnomaly == image[Worker] < Newest

\* The UPDATE has run, committed or not, and will not see this row.
UpdateHasRun ==
  \/ \E i \in DOMAIN applied : Migrations[applied[i]].data
  \/ \E r \in Replicas : \E i \in DOMAIN done[r] : Migrations[done[r][i]].data

\* A row with an extreme net APR is stored.
StoreMetrics ==
  /\ worker = "running"
  /\ Requires(image[Worker]) \subseteq schema
  /\ ~Alters("vault_report_stats")
  /\ IF MissesAnomaly
     THEN \E row \in Rows \ (unflagged \cup late) :
            /\ unflagged' = unflagged \cup {row}
            /\ late' = IF UpdateHasRun /\ image[Worker] = OldImage THEN late \cup {row} ELSE late
     ELSE UNCHANGED <<unflagged, late>>
  /\ UNCHANGED <<applied, schema, lock, pc, image, migrator, workers, env, faults>>

\* The backfill of the new image throws as long as its columns are missing, and is
\* scheduled again.
BackfillVaultOwnership ==
  /\ worker = "running" /\ image[Worker] = Newest
  /\ backfill' = (backfill \/ VaultEntity \subseteq schema)
  /\ UNCHANGED <<database, lock, pc, image, migrator, worker, env, faults>>

WorkerDies ==
  /\ worker = "running" /\ Fault
  /\ worker' = "down" /\ backfill' = FALSE
  /\ UNCHANGED <<database, lock, pc, image, migrator, env>>

(***************************************************************************)
(* The orchestrator, external.                                             *)
(***************************************************************************)
Crash(r) ==
  /\ pc[r] # "down" /\ Fault
  /\ Exit(r)
  /\ UNCHANGED <<database, image, workers, env>>

\* The rollout replaces the processes one by one, in any order.
Rollout(p) ==
  /\ image[p] = OldImage
  /\ image' = [image EXCEPT ![p] = Newest]
  /\ IF p = Worker
     THEN worker' = "down" /\ backfill' = FALSE /\ UNCHANGED <<lock, pc, migrator>>
     ELSE Exit(p) /\ UNCHANGED workers
  /\ UNCHANGED <<database, env, faults>>

\* The operator corrects the environment and starts everything again.
CorrectEnv ==
  /\ env # RightEnv
  /\ env' = RightEnv
  /\ lock' = None
  /\ pc' = [r \in Replicas |-> "down"]
  /\ pending' = [r \in Replicas |-> << >>]
  /\ done' = [r \in Replicas |-> << >>]
  /\ flagged' = [r \in Replicas |-> {}]
  /\ lost' = [r \in Replicas |-> IF lost[r] = "now" THEN "before" ELSE lost[r]]
  /\ worker' = "down" /\ backfill' = FALSE
  /\ UNCHANGED <<database, image, faults>>

RunMigrations(r) ==
  \/ Start(r) \/ TakeLock(r) \/ LoadExecuted(r) \/ Up(r) \/ UpFails(r)
  \/ CommitMigrations(r) \/ Unlock(r) \/ UnlockFails(r)

Next ==
  \/ \E r \in Replicas :
       RunMigrations(r) \/ LockConnectionLost(r) \/ Boot(r) \/ BootFails(r) \/ Crash(r)
  \/ WorkerStart \/ StoreMetrics \/ BackfillVaultOwnership \/ WorkerDies
  \/ \E p \in Replicas \cup {Worker} : Rollout(p)
  \/ CorrectEnv

\* Started processes go on and are started again when they end (restart: always), the
\* scheduler calls the backfill again, the rollout and the operator finish.  The lock is
\* granted in the order of the waiting: whoever waits gets it.
Fairness ==
  /\ \A r \in Replicas :
       /\ WF_vars(RunMigrations(r)) /\ SF_vars(TakeLock(r))
       /\ WF_vars(Boot(r)) /\ WF_vars(BootFails(r))
  /\ WF_vars(WorkerStart) /\ WF_vars(BackfillVaultOwnership)
  /\ \A p \in Replicas \cup {Worker} : WF_vars(Rollout(p))
  /\ WF_vars(CorrectEnv)

Spec == Init /\ [][Next]_vars /\ Fairness

(***************************************************************************)
(* Properties.                                                             *)
(***************************************************************************)
\* Types; the migrations table and the schema say the same.
TypeOK ==
  /\ applied \in Seq(1..Newest) /\ schema = AddedBy(applied)
  /\ unflagged \subseteq Rows /\ late \subseteq Rows
  /\ lock \in Replicas \cup {None}
  /\ pc \in [Replicas -> Phases]
  /\ image \in [Replicas \cup {Worker} -> {OldImage, Newest}]
  /\ pending \in [Replicas -> Seq(1..Newest)] /\ done \in [Replicas -> Seq(1..Newest)]
  /\ flagged \in [Replicas -> SUBSET Rows] /\ lost \in [Replicas -> {"never", "before", "now"}]
  /\ worker \in {"down", "running"} /\ backfill \in BOOLEAN
  /\ env \in Env /\ faults \in 0..MaxFaults

\* Whatever crashes, and even when the lock is lost and two replicas migrate at once,
\* the migrations are applied in their order without a gap, and the ones that change
\* tables once.
AppliedInOrderOnce ==
  \A i \in DOMAIN applied :
    applied[i] = IF i = 1 THEN 1
                 ELSE IF Migrations[applied[i]].data /\ applied[i - 1] = applied[i] THEN applied[i]
                 ELSE applied[i - 1] + 1

\* "so other replicas wait": as long as no lock connection breaks, what a replica found
\* missing is still missing when it migrates, although another may have waited with it.
PendingIsCurrent ==
  (\A r \in Replicas : lost[r] = "never") =>
    \A r \in Replicas : pc[r] = "migrate" => done[r] \o pending[r] = PendingOf(r)

\* A replica that answers requests has every table and column its entities name and is
\* connected to the chain it is configured for, whichever replica ran the migrations and
\* however far the rollout is.
ServesItsSchema ==
  \A r \in Replicas : pc[r] = "serving" =>
    Requires(image[r]) \subseteq schema /\ env = RightEnv

\* After MarkNetAndCarryAprAnomalies the only rows that stay unflagged for good are those
\* an old worker stored after the UPDATE had run.
OnlyLateRowsStayUnflagged ==
  (\E i \in DOMAIN applied : Migrations[applied[i]].data) => unflagged \subseteq late

\* In the end every replica of the new image serves and the worker has backfilled the
\* owners, whatever order the processes were started and replaced in.
EventuallyUp ==
  <>[](/\ \A r \in Replicas : pc[r] = "serving" /\ image[r] = Newest
       /\ worker = "running" /\ backfill)
=============================================================================
