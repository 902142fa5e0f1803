--------------------------- MODULE VaultOwnership ---------------------------
(***************************************************************************)
(* How the worker keeps one vaults row true to the chain: the three        *)
(* VaultHub event handlers, the vaults, members, log-scan and reconcile    *)
(* crons, the start-up ownership backfill and the report import, all       *)
(* running concurrently against the same row (src/src/vault/               *)
(* vault.service.ts, src/src/jobs/vault-jobs/vault-jobs.service.ts).       *)
(*                                                                         *)
(* A job is an asynchronous function in flight.  One step of a job is one  *)
(* database statement together with the pinned on-chain reads before it;   *)
(* between two steps any other job may run.  Crons are single-flight.      *)
(* Every failure (RPC, database, crash) counts against MaxFaults.          *)
(***************************************************************************)
EXTENDS VaultChain, VaultRow

CONSTANTS
  ConfirmationBlocks, \* lag of the safe block the crons read (8 in the code)
  LookbackBlocks,     \* OWNERSHIP_LOGS_LOOKBACK_BLOCKS (300 in the code)
  EnabledJobs,        \* the kinds of jobs that run in this instance
  LegacyRows,         \* may the row predate the ownership columns?
  BatchReadsFail,     \* may a batch read of the vaults cron fail?
  MaxFaults           \* bound: number of failures in a run

CronKinds == {"vaults", "members", "scan", "reconcile", "backfill", "metrics"}
JobKinds == CronKinds \cup HubEvents

ASSUME JobsAssumption ==
  /\ ConfirmationBlocks \in Nat /\ LookbackBlocks \in Nat \ {0} /\ MaxFaults \in Nat
  /\ EnabledJobs \subseteq JobKinds
  /\ LegacyRows \in BOOLEAN /\ BatchReadsFail \in BOOLEAN

VARIABLES
  row,          \* the vaults row and its vault_members rows
  stateBlock,   \* vault_states.block_number, 0 while there is no state row
  jobs,         \* jobs in flight
  handled,      \* logs whose handler was started, or that no handler will ever see
  backfillDone, \* has the start-up backfill of this process succeeded?
  recovered,    \* history: no members provenance of a legacy row is left to recover
  faults        \* failures so far

workerVars == <<row, stateBlock, jobs, handled, backfillDone, recovered, faults>>
vars == <<chainVars, workerVars>>

PCs == {"read", "find", "insert", "connect", "state", "members", "own", "disconnect",
        "fetch", "list", "select", "apply", "write",
        "recover", "missing", "resolveDisconnected", "resolveConnected", "stale", "repair"}

\* val: an address read earlier in the job; pos: the log the handler is about, or
\* the last log the scan has dealt with.
Job == [kind : JobKinds, block : Nat, pc : PCs, val : Owners \cup {None}, pos : Nat]

FirstStep == [k \in JobKinds |->
  CASE k = "VaultConnected" -> "read"
    [] k = "VaultOwnershipTransferred" -> "own"
    [] k = "VaultDisconnectCompleted" -> "disconnect"
    [] k = "vaults" -> "fetch"
    [] k = "backfill" -> "recover"
    [] k = "metrics" -> "find"
    [] OTHER -> "select"]

TypeOK ==
  /\ height \in Blocks
  /\ hist \in [Blocks -> VaultOnChain]
  /\ tip \in VaultOnChain
  /\ logs \in Seq(Log)
  /\ moments \subseteq Moment
  /\ row \in Row
  /\ stateBlock \in Nat
  /\ jobs \subseteq Job
  /\ handled \subseteq 1..Len(logs)
  /\ backfillDone \in BOOLEAN /\ recovered \in BOOLEAN
  /\ faults \in 0..MaxFaults

Init ==
  /\ ChainInit
  /\ \/ row = NoRow
     \/ /\ LegacyRows
        /\ \E disconnected \in BOOLEAN, m \in Owners \cup {None, Zero} :
             row = LegacyRow(disconnected, m)
  /\ stateBlock = 0
  /\ jobs = {}
  /\ handled = {}
  /\ backfillDone = FALSE
  /\ recovered = ~row.exists
  /\ faults = 0

-----------------------------------------------------------------------------
\* Starting jobs.

SafeBlock == IF height > ConfirmationBlocks THEN height - ConfirmationBlocks ELSE 0

Start(kind, block, pos) ==
  jobs' = jobs \cup {[kind |-> kind, block |-> block, pc |-> FirstStep[kind],
                      val |-> None, pos |-> pos]}

\* The provider hands a log of a sealed block to its listener.  Handlers are not
\* serialised, and a log may never be delivered.
DeliverEvent(i) ==
  /\ i \in DOMAIN logs \ handled
  /\ logs[i].block <= height
  /\ logs[i].event \in EnabledJobs
  /\ Start(logs[i].event, logs[i].block, i)
  /\ handled' = handled \cup {i}
  /\ UNCHANGED <<chainVars, row, stateBlock, backfillDone, recovered, faults>>

\* A cron fires.  While a run of the same kind is in flight SingleFlight makes the
\* new call join it, which changes nothing.
CronTick(kind) ==
  /\ kind \in EnabledJobs \cap CronKinds
  /\ \A j \in jobs : j.kind # kind
  /\ kind = "backfill" => ~backfillDone
  /\ Start(kind, SafeBlock, 0)
  /\ UNCHANGED <<chainVars, row, stateBlock, handled, backfillDone, recovered, faults>>

-----------------------------------------------------------------------------
\* Moving a job on.

Goto(j, pc, val) == jobs' = (jobs \ {j}) \cup {[j EXCEPT !.pc = pc, !.val = val]}
Finish(j) == jobs' = jobs \ {j}
At(j, kinds, pc) == j \in jobs /\ j.kind \in kinds /\ j.pc = pc

\* A step that writes nothing but the vaults row.
WritesRow(newRow) ==
  row' = newRow /\ UNCHANGED <<chainVars, stateBlock, handled, backfillDone, recovered, faults>>
WritesNothing ==
  UNCHANGED <<chainVars, row, stateBlock, handled, backfillDone, recovered, faults>>

\* resolveDisconnectedEffectiveOwner; None: hub-owned, nothing to record.
ResolveDisconnectedEffectiveOwner(s) == IF s.owner = Hub THEN s.pending ELSE s.owner

\* The owner VaultViewer reports for the vault and its roles.
ViewerOwner(s) == IF Connected(s) THEN s.conn ELSE Zero

\* Mutant: the zero-address response counts as resolved.
AlwaysResolved(answer) == TRUE

IsResolvedRoleMembers(answer) == answer # Zero

-----------------------------------------------------------------------------
\* getOrCreateVaultByAddress: findOne, then an INSERT that another job may win.

AfterCreate(j) ==
  CASE j.kind = "VaultConnected" -> Goto(j, "connect", j.val)
    [] j.kind = "vaults" -> Goto(j, "state", j.val)
    [] j.kind = "metrics" -> Finish(j)

GetOrCreateFind(j) ==
  /\ At(j, {"VaultConnected", "vaults", "metrics"}, "find")
  /\ IF row.exists THEN AfterCreate(j) ELSE Goto(j, "insert", j.val)
  /\ WritesNothing

\* The address is unique: the loser's INSERT throws.  The handler gives up, the
\* vaults cron skips the vault (it still counts as seen on chain), and the report
\* import drops that vault's metrics.
GetOrCreateInsert(j) ==
  /\ At(j, {"VaultConnected", "vaults", "metrics"}, "insert")
  /\ IF row.exists THEN Finish(j) /\ WritesNothing
     ELSE AfterCreate(j) /\ WritesRow(CreatedRow(j.kind = "metrics"))

-----------------------------------------------------------------------------
\* Writes shared by the VaultConnected handler and the vaults cron, which perform
\* them in opposite orders.

ConnectStep(j) ==
  /\ At(j, {"VaultConnected", "vaults"}, "connect")
  /\ IF j.kind = "VaultConnected" THEN Goto(j, "state", j.val) ELSE Finish(j)
  /\ WritesRow(ConnectVault(row, j.block, j.val))

\* Mutant: the state is read at the head of the chain instead of the block of the job.
StateStepAtHead(j) ==
  /\ At(j, {"VaultConnected", "vaults"}, "state")
  /\ IF j.kind = "VaultConnected" THEN Goto(j, "members", j.val) ELSE Goto(j, "connect", j.val)
  /\ stateBlock' = height
  /\ UNCHANGED <<chainVars, row, handled, backfillDone, recovered, faults>>

\* addOrUpdateState: an upsert with no guard on the block.
StateStep(j) ==
  /\ At(j, {"VaultConnected", "vaults"}, "state")
  /\ IF j.kind = "VaultConnected" THEN Goto(j, "members", j.val) ELSE Goto(j, "connect", j.val)
  /\ stateBlock' = j.block
  /\ UNCHANGED <<chainVars, row, handled, backfillDone, recovered, faults>>

-----------------------------------------------------------------------------
\* The VaultHub event handlers.

VaultConnectedRead(j) ==
  /\ At(j, {"VaultConnected"}, "read")
  /\ LET answer == ViewerOwner(hist[j.block])
     IN  IF answer # Zero THEN Goto(j, "find", answer) ELSE Finish(j)
  /\ WritesNothing

VaultOwnershipTransferredWrite(j) ==
  /\ At(j, {"VaultOwnershipTransferred"}, "own")
  /\ Goto(j, "members", None)
  /\ WritesRow(UpdateVaultOwnership(row, j.block, logs[j.pos].newOwner, FALSE))

\* The resolved owner may be None: the vault is hub-owned again in the same block.
DisconnectStep(j) ==
  /\ At(j, {"VaultDisconnectCompleted", "vaults"}, "disconnect")
  /\ Finish(j)
  /\ WritesRow(DisconnectVault(row, j.block, ResolveDisconnectedEffectiveOwner(hist[j.block])))

-----------------------------------------------------------------------------
\* Role members: the last step of two handlers and of the members cron.

StoredMembers(j, answer) ==
  IF IsResolvedRoleMembers(answer) THEN SetMembersForVault(row, j.block, answer) ELSE row

RefreshMembers(j) ==
  /\ At(j, {"VaultConnected", "VaultOwnershipTransferred", "members"}, "members")
  /\ Finish(j)
  /\ WritesRow(StoredMembers(j, ViewerOwner(hist[j.block])))

\* Mutant: the filter on is_disconnected is inverted.
MembersSelectDisconnected(j) ==
  /\ At(j, {"members"}, "select")
  /\ IF IsListedDisconnected(row) THEN Goto(j, "members", None) ELSE Finish(j)
  /\ WritesNothing

MembersSelect(j) ==
  /\ At(j, {"members"}, "select")
  /\ IF IsListedConnected(row) THEN Goto(j, "members", None) ELSE Finish(j)
  /\ WritesNothing

-----------------------------------------------------------------------------
\* The vaults cron: fetchAllVaultsAndCalculateStates, as it treats this vault.

FetchVaultsDataBatch(j) ==
  /\ At(j, {"vaults"}, "fetch")
  /\ LET s == hist[j.block]
     IN  IF Connected(s) THEN Goto(j, "find", s.conn) ELSE Goto(j, "list", None)
  /\ WritesNothing

\* Mutant: the cron never looks for disconnected vaults.
ListNoVaults(j) ==
  /\ At(j, {"vaults"}, "list")
  /\ Finish(j) /\ WritesNothing

\* Disconnect detection: the vault was not returned, is it listed as connected?
ListConnectedVaults(j) ==
  /\ At(j, {"vaults"}, "list")
  /\ IF IsListedConnected(row) THEN Goto(j, "disconnect", None) ELSE Finish(j)
  /\ WritesNothing

-----------------------------------------------------------------------------
\* The log scan: syncDisconnectedVaultOwnersFromLogs.

\* Logs in blocks block - LookbackBlocks + 1 .. block that are still to be applied.
ScanWindow(j) ==
  {i \in DOMAIN logs : /\ logs[i].event = "OwnershipTransferred"
                       /\ j.block < logs[i].block + LookbackBlocks
                       /\ logs[i].block <= j.block
                       /\ j.pos < i}

\* The sort by block and logIndex makes the next log the earliest one.
IsNextLog(j, i) == i \in ScanWindow(j) /\ \A k \in ScanWindow(j) : i <= k

ScanSelect(j) ==
  /\ At(j, {"scan"}, "select")
  /\ IF IsListedDisconnected(row) THEN Goto(j, "apply", None) ELSE Finish(j)
  /\ WritesNothing

ScanAdvance(j, i) == jobs' = (jobs \ {j}) \cup {[j EXCEPT !.pos = i]}

ScanApply(j, i) ==
  /\ At(j, {"scan"}, "apply") /\ IsNextLog(j, i)
  /\ ScanAdvance(j, i)
  /\ WritesRow(IF logs[i].newOwner = Hub THEN row
               ELSE UpdateVaultOwnership(row, logs[i].block, logs[i].newOwner, TRUE))

ScanEnd(j) ==
  /\ At(j, {"scan"}, "apply") /\ ScanWindow(j) = {}
  /\ Finish(j) /\ WritesNothing

-----------------------------------------------------------------------------
\* The reconcile cron: reconcileDisconnectedVaultOwners.

ReconcileSelect(j) ==
  /\ At(j, {"reconcile"}, "select")
  /\ IF IsListedDisconnected(row) THEN Goto(j, "write", None) ELSE Finish(j)
  /\ WritesNothing

ReconcileWrite(j) ==
  /\ At(j, {"reconcile"}, "write")
  /\ Finish(j)
  /\ LET owner == ResolveDisconnectedEffectiveOwner(hist[j.block])
     IN  WritesRow(IF owner = None THEN row ELSE UpdateVaultOwnership(row, j.block, owner, TRUE))

-----------------------------------------------------------------------------
\* The start-up backfill: backfillVaultOwnership.

BackfillRecover(j) ==
  /\ At(j, {"backfill"}, "recover")
  /\ Goto(j, "missing", None)
  /\ row' = BackfillMembersOwnerFromRoleMembers(row)
  /\ recovered' = TRUE
  /\ UNCHANGED <<chainVars, stateBlock, handled, backfillDone, faults>>

\* getVaultsWithoutOwnership also reads the flag the next step decides by.
BackfillMissing(j) ==
  /\ At(j, {"backfill"}, "missing")
  /\ Goto(j, IF ~LacksOwnership(row) THEN "stale"
             ELSE IF row.isDisconnected THEN "resolveDisconnected" ELSE "resolveConnected", None)
  /\ WritesNothing

BackfillSingleVaultOwnership(j) ==
  /\ At(j, {"backfill"}, "resolveDisconnected") \/ At(j, {"backfill"}, "resolveConnected")
  /\ Goto(j, "stale", None)
  /\ LET s == hist[j.block]
         owner == ResolveDisconnectedEffectiveOwner(s)
     IN  WritesRow(
           IF j.pc = "resolveDisconnected" /\ owner # None THEN DisconnectVault(row, j.block, owner)
           ELSE IF Connected(s) THEN ConnectVault(row, j.block, s.conn)
           ELSE row)

BackfillStaleMembers(j) ==
  /\ At(j, {"backfill"}, "stale")
  /\ IF HasStaleMembers(row)
     THEN Goto(j, "repair", row.effectiveOwner) /\ UNCHANGED backfillDone
     ELSE Finish(j) /\ backfillDone' = TRUE
  /\ UNCHANGED <<chainVars, row, stateBlock, handled, recovered, faults>>

\* The roles are read off the owner selected one step earlier, and recorded as its.
BackfillRepairMembers(j) ==
  /\ At(j, {"backfill"}, "repair")
  /\ Finish(j)
  /\ row' = SetMembersForVault(row, j.block, j.val)
  /\ backfillDone' = TRUE
  /\ UNCHANGED <<chainVars, stateBlock, handled, recovered, faults>>

-----------------------------------------------------------------------------
\* Failures.

Fault == faults < MaxFaults /\ faults' = faults + 1

\* A call throws and the rest of the job is lost (its try/catch ends the handler or
\* the run; a failed backfill is rescheduled).  Exempt are the failures below, which
\* the code survives differently.
JobFails(j) ==
  /\ j \in jobs /\ j.pc # "apply" /\ ~At(j, {"members"}, "select")
  /\ Fault /\ Finish(j)
  /\ UNCHANGED <<chainVars, row, stateBlock, handled, backfillDone, recovered>>

\* VaultDisconnectCompleted marks the vault disconnected even if its owner cannot be read.
DisconnectOwnerReadFails(j) ==
  /\ At(j, {"VaultDisconnectCompleted"}, "disconnect")
  /\ Fault /\ Finish(j)
  /\ row' = DisconnectVault(row, j.block, None)
  /\ UNCHANGED <<chainVars, stateBlock, handled, backfillDone, recovered>>

\* The vaults cron logs a failed batch and continues with the next one: the vault
\* is missing from the set of addresses seen on chain.
BatchReadFails(j) ==
  /\ BatchReadsFail
  /\ At(j, {"vaults"}, "fetch")
  /\ Fault /\ Goto(j, "list", None)
  /\ UNCHANGED <<chainVars, row, stateBlock, handled, backfillDone, recovered>>

\* The viewer answers zero although the vault is connected at the block it was asked for.
ViewerAnswersZero(j) ==
  /\ At(j, {"VaultConnected", "VaultOwnershipTransferred", "members"}, "members")
  /\ Fault /\ Finish(j)
  /\ row' = StoredMembers(j, Zero)
  /\ UNCHANGED <<chainVars, stateBlock, handled, backfillDone, recovered>>

\* A failed write of the scan is logged and the next log is applied.
ScanWriteFails(j, i) ==
  /\ At(j, {"scan"}, "apply") /\ IsNextLog(j, i)
  /\ Fault /\ ScanAdvance(j, i)
  /\ UNCHANGED <<chainVars, row, stateBlock, handled, backfillDone, recovered>>

\* The process stops and restarts: jobs and undelivered logs are lost.  Also what
\* the uncaught rejection of the members cron's first query does.
WorkerDies ==
  /\ Fault
  /\ jobs' = {}
  /\ handled' = handled \cup {i \in DOMAIN logs : logs[i].block <= height}
  /\ backfillDone' = FALSE
  /\ UNCHANGED <<chainVars, row, stateBlock, recovered>>

-----------------------------------------------------------------------------
JobStep(j) ==
  \/ VaultConnectedRead(j) \/ VaultOwnershipTransferredWrite(j) \/ DisconnectStep(j)
  \/ GetOrCreateFind(j) \/ GetOrCreateInsert(j) \/ ConnectStep(j) \/ StateStep(j)
  \/ RefreshMembers(j) \/ MembersSelect(j)
  \/ FetchVaultsDataBatch(j) \/ ListConnectedVaults(j)
  \/ ScanSelect(j) \/ (\E i \in DOMAIN logs : ScanApply(j, i)) \/ ScanEnd(j)
  \/ ReconcileSelect(j) \/ ReconcileWrite(j)
  \/ BackfillRecover(j) \/ BackfillMissing(j) \/ BackfillSingleVaultOwnership(j)
  \/ BackfillStaleMembers(j) \/ BackfillRepairMembers(j)

JobFault(j) ==
  \/ JobFails(j) \/ DisconnectOwnerReadFails(j) \/ BatchReadFails(j) \/ ViewerAnswersZero(j)
  \/ \E i \in DOMAIN logs : ScanWriteFails(j, i)

ChainStep == ChainNext /\ UNCHANGED workerVars

Next ==
  \/ ChainStep
  \/ \E i \in DOMAIN logs : DeliverEvent(i)
  \/ \E k \in CronKinds : CronTick(k)
  \/ \E j \in jobs : JobStep(j) \/ JobFault(j)
  \/ WorkerDies

Spec == Init /\ [][Next]_vars

\* The chain goes on, every cron keeps firing and every run it starts makes progress.
\* Nothing is assumed of event delivery or of the event handlers.
CronFairness(k) ==
  WF_vars(CronTick(k)) /\ WF_vars(\E j \in jobs : j.kind = k /\ JobStep(j))

LiveSpec == Spec /\ WF_vars(SealBlock /\ UNCHANGED workerVars)
                 /\ \A k \in CronKinds : CronFairness(k)

-----------------------------------------------------------------------------
\* Safety.

\* The recorded owner was really the owner, as the user understands it, during the
\* block of the last update that named one: no interleaving of handlers and crons
\* pairs an owner with a block of another.
OwnerFaithful ==
  row.effectiveOwner # None =>
    \E m \in moments : m.block = row.ownerSeen /\ m.owner = row.effectiveOwner

\* A row listed as connected was connected at some moment of the block of its last
\* ownership update: an ownership write never carries a connected flag past the
\* block that ended the connection.
ConnectedFlagFaithful ==
  IsListedConnected(row) /\ row.ownershipBlock > 0 =>
    \E m \in moments : m.block = row.ownershipBlock /\ m.connected

\* Once the provenance of legacy rows is recovered, the stored roles of a vault whose
\* owner is known give access to delegates of that owner only: roles read through a
\* previous owner grant nothing, whichever of the concurrent writers stored them.
RoleAccessSound ==
  recovered /\ row.effectiveOwner # None => RoleAccess(row) \subseteq {row.effectiveOwner}

\* The state of the vault is only ever the state of a block in which the vault was
\* connected: no writer stores the zeroes the hub answers for a vault that has left.
StateTakenWhileConnected ==
  stateBlock > 0 => \E m \in moments : m.block = stateBlock /\ m.connected

\* An update read at an older block never replaces one read at a newer block, for the
\* ownership columns, for the owner itself and for the members.
OlderNeverOverwrites ==
  [][/\ row'.ownershipBlock >= row.ownershipBlock
     /\ row'.ownerSeen >= row.ownerSeen
     /\ row'.membersBlock >= row.membersBlock]_vars

\* Stored members are only ever replaced by roles that an owner answered for, never
\* by the zero addresses of a viewer that found no connection.
MembersNeverWiped == [][row'.members # row.members => row'.members \in Owners]_vars

\* The recorded owner implements OwnershipRegister: every step of every job leaves it
\* alone or moves it to an owner of the same or a later block.
Register == INSTANCE OwnershipRegister
  WITH owner <- row.effectiveOwner, seen <- row.ownerSeen, history <- moments
ImplementsRegister == Register!Spec

\* Liveness: when the vault stops changing, the row ends up telling the truth, whatever
\* events were lost and whatever failed before.
Converged ==
  IF Connected(tip)
  THEN IsListedConnected(row) /\ row.effectiveOwner = tip.conn
  ELSE row.exists => row.isDisconnected /\ row.effectiveOwner = OwnerOf(tip)
EventuallyConverged == <>[]Converged

\* Liveness: the delegates of the owner of a connected vault end up finding it.
EventuallyDelegated == <>[](Connected(tip) => RoleAccess(row) = {tip.conn})

-----------------------------------------------------------------------------
\* What a comment says, and the code does not do.

\* "We do this only if we fetched a full list" (vault.service.ts, disconnect
\* detection): the vaults cron marks a vault disconnected only if the list at its
\* block does not hold it.
DisconnectsOnlyUnlistedVaults ==
  [][\A j \in jobs : DisconnectStep(j) /\ j.kind = "vaults" /\ row' # row
       => ~Connected(hist[j.block])]_vars
=============================================================================
