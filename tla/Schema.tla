------------------------------- MODULE Schema -------------------------------
(***************************************************************************)
(* The migrations and the entities.  Of a migration only what another one  *)
(* or a running process can notice is kept: the tables, columns and        *)
(* indexes its statements add, the ones they rely on, and whether it can   *)
(* be executed a second time.  Every added column has a default or is      *)
(* nullable, so processes of an earlier image go on writing the table.     *)
(***************************************************************************)
EXTENDS Naturals, Sequences

Ddl(needs, adds) == [needs |-> needs, adds |-> adds, data |-> FALSE]

CreateVaultsTable == Ddl({}, {"vaults"})

CreateVaultMembersTable == Ddl({"vaults"}, {"vault_members"})

CreateVaultStatesTable == Ddl({"vaults"}, {"vault_states"})

CreateReportsAndReportLeavesTables == Ddl({}, {"reports", "report_leaves"})

CreateVaultReportStatsTable == Ddl({"vaults", "reports"}, {"vault_report_stats"})

AddIsDisconnectedFieldToVaultsTable == Ddl({"vaults"}, {"vaults.is_disconnected"})

AddAccruedFeeFieldToVaultStatesTable == Ddl({"vault_states"}, {"vault_states.accrued_fee"})

AddAnomalyFieldToVaultReportStatTable == Ddl({"vault_report_stats"}, {"vault_report_stats.anomaly"})

AddVaultOwnershipFields ==
  Ddl({"vaults"}, {"vaults.effective_owner_address", "vaults.members_owner_address",
                   "vaults.ownership_block_number", "IDX_vaults_effective_owner_address_lower"})

AddOwnershipLookupIndexes ==
  Ddl({"vaults", "vault_members"}, {"IDX_vaults_address_lower", "IDX_vault_members_role_address_lower"})

AddVaultMembersOwnerBlockNumber == Ddl({"vaults"}, {"vaults.members_owner_block_number"})

\* The one migration of data: an UPDATE that flags the rows stored before it.
MarkNetAndCarryAprAnomalies ==
  [needs |-> {"vault_report_stats", "vault_report_stats.anomaly"}, adds |-> {}, data |-> TRUE]

\* In the order of their timestamps, which is the order TypeORM runs them in.
Migrations ==
  << CreateVaultsTable, CreateVaultMembersTable, CreateVaultStatesTable,
     CreateReportsAndReportLeavesTables, CreateVaultReportStatsTable,
     AddIsDisconnectedFieldToVaultsTable, AddAccruedFeeFieldToVaultStatesTable,
     AddAnomalyFieldToVaultReportStatTable, AddVaultOwnershipFields,
     AddOwnershipLookupIndexes, AddVaultMembersOwnerBlockNumber, MarkNetAndCarryAprAnomalies >>

VaultEntity ==
  {"vaults", "vaults.is_disconnected", "vaults.effective_owner_address",
   "vaults.members_owner_address", "vaults.ownership_block_number",
   "vaults.members_owner_block_number"}

VaultMemberEntity == {"vault_members", "vaults"}

VaultStateEntity == {"vault_states", "vault_states.accrued_fee", "vaults"}

VaultReportStatEntity == {"vault_report_stats", "vault_report_stats.anomaly", "vaults", "reports"}

ReportEntity == {"reports", "report_leaves"}

ReportLeafEntity == {"report_leaves", "reports"}

Entities ==
  UNION {VaultEntity, VaultMemberEntity, VaultStateEntity, VaultReportStatEntity,
         ReportEntity, ReportLeafEntity}

\* What the executed migrations of a sequence have added.
AddedBy(executed) == UNION {Migrations[executed[i]].adds : i \in DOMAIN executed}

\* An image is the number of migrations it ships; its entities name what its schema has.
Newest == Len(Migrations)
Requires(image) ==
  IF image = Newest THEN Entities ELSE Entities \cap AddedBy([i \in 1..image |-> i])
=============================================================================
