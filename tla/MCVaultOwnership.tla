-------------------------- MODULE MCVaultOwnership --------------------------
(***************************************************************************)
(* Small instances of VaultOwnership for TLC.                              *)
(***************************************************************************)
EXTENDS VaultOwnership, TLC

CONSTANTS o1, o2

MCOwners == {o1, o2}

\* The jobs of each run.
MembersWriters == {"VaultConnected", "VaultOwnershipTransferred", "members", "backfill", "scan"}
DisconnectedOwnerWriters == {"VaultDisconnectCompleted", "vaults", "scan", "reconcile"}
ConnectedRowWriters == {"VaultConnected", "vaults", "members", "metrics"}

OwnerSymmetry == Permutations(MCOwners)
=============================================================================
