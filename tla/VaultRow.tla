------------------------------ MODULE VaultRow ------------------------------
(***************************************************************************)
(* One row of the vaults table with its vault_members rows, and the writes *)
(* of VaultDbService (src/src/db/vault-db/vault-db.service.ts).  Every     *)
(* operator is one SQL statement or one transaction: it maps the row the   *)
(* database holds when it runs to the row it leaves.                       *)
(*                                                                         *)
(* The vault_members rows are abstracted to the owner they were resolved   *)
(* through: o stands for "the delegates o answered with", Zero for the     *)
(* rows of a zero-address response, None for no rows.                      *)
(***************************************************************************)
EXTENDS Addresses, Naturals

\* ownerSeen is a history field with no column behind it: the block of the last
\* write that carried an owner (ownershipBlock also moves with writes that do not).
Row == [exists          : BOOLEAN,
        isDisconnected  : BOOLEAN,
        effectiveOwner  : Owners \cup {None},
        ownershipBlock  : Nat,
        membersOwner    : Owners \cup {None},
        membersBlock    : Nat,
        members         : Owners \cup {None, Zero},
        ownerSeen       : Nat]

NoRow == [exists |-> FALSE, isDisconnected |-> FALSE, effectiveOwner |-> None,
          ownershipBlock |-> 0, membersOwner |-> None, membersBlock |-> 0,
          members |-> None, ownerSeen |-> 0]

\* A row stored before the ownership columns existed: the migration left them NULL and 0.
LegacyRow(disconnected, members) ==
  [NoRow EXCEPT !.exists = TRUE, !.isDisconnected = disconnected, !.members = members]

\* The INSERT of getOrCreateVaultByAddress.
CreatedRow(disconnected) ==
  [NoRow EXCEPT !.exists = TRUE, !.isDisconnected = disconnected]

-----------------------------------------------------------------------------
\* Mutant: the UPDATE without its guard on the block.
UpdateColumnsUnguarded(r, block, values, onlyDisconnected) ==
  IF r.exists /\ (onlyDisconnected => r.isDisconnected)
  THEN [values EXCEPT !.ownershipBlock = block]
  ELSE r

\* The guarded UPDATE: a row last written for a newer block is left alone.
UpdateVaultOwnershipColumns(r, block, values, onlyDisconnected) ==
  IF r.exists /\ r.ownershipBlock <= block /\ (onlyDisconnected => r.isDisconnected)
  THEN [values EXCEPT !.ownershipBlock = block]
  ELSE r

ConnectVault(r, block, owner) ==
  UpdateVaultOwnershipColumns(r, block,
    [r EXCEPT !.isDisconnected = FALSE, !.effectiveOwner = owner, !.ownerSeen = block], FALSE)

\* Mutant: a disconnect that moves the owner and forgets the flag.
DisconnectKeepingFlag(r, block, owner) ==
  UpdateVaultOwnershipColumns(r, block,
    IF owner = None THEN r ELSE [r EXCEPT !.effectiveOwner = owner, !.ownerSeen = block], FALSE)

\* Mutant: a disconnect without an owner erases the recorded one.
DisconnectForgettingOwner(r, block, owner) ==
  UpdateVaultOwnershipColumns(r, block,
    [r EXCEPT !.isDisconnected = TRUE, !.effectiveOwner = owner, !.ownerSeen = block], FALSE)

\* owner = None: the vault is marked disconnected, the recorded owner stays.
DisconnectVault(r, block, owner) ==
  UpdateVaultOwnershipColumns(r, block,
    IF owner = None
    THEN [r EXCEPT !.isDisconnected = TRUE]
    ELSE [r EXCEPT !.isDisconnected = TRUE, !.effectiveOwner = owner, !.ownerSeen = block],
    FALSE)

UpdateVaultOwnership(r, block, owner, onlyDisconnected) ==
  UpdateVaultOwnershipColumns(r, block,
    [r EXCEPT !.effectiveOwner = owner, !.ownerSeen = block], onlyDisconnected)

\* Mutant: the provenance is recorded but the previous owner's rows are not deleted.
SetMembersKeepingRows(r, block, source) ==
  IF ~r.exists \/ r.membersBlock > block
  THEN r
  ELSE [r EXCEPT !.membersOwner = IF source = Zero THEN None ELSE source,
                 !.membersBlock = block]

\* The members transaction: SELECT ... FOR UPDATE, compare blocks, delete, insert,
\* record the owner that answered (a zero address is no provenance).
SetMembersForVault(r, block, source) ==
  IF ~r.exists \/ r.membersBlock > block
  THEN r
  ELSE [r EXCEPT !.members = source,
                 !.membersOwner = IF source = Zero THEN None ELSE source,
                 !.membersBlock = block]

\* One UPDATE over the rows whose provenance is NULL and whose members name an owner.
BackfillMembersOwnerFromRoleMembers(r) ==
  IF r.exists /\ r.membersOwner = None /\ r.members \in Owners
  THEN [r EXCEPT !.membersOwner = r.members]
  ELSE r

-----------------------------------------------------------------------------
\* Queries.
IsListedConnected(r) == r.exists /\ ~r.isDisconnected
IsListedDisconnected(r) == r.exists /\ r.isDisconnected
LacksOwnership(r) == r.exists /\ r.effectiveOwner = None
HasStaleMembers(r) ==
  /\ IsListedDisconnected(r)
  /\ r.effectiveOwner # None
  /\ r.membersOwner = None \/ r.membersOwner # r.effectiveOwner

\* MEMBERS_OWNER_IS_CURRENT_CONDITION
MembersOwnerIsCurrent(r) ==
  \/ r.effectiveOwner = None
  \/ r.membersOwner = None
  \/ r.effectiveOwner = r.membersOwner

\* The owners whose delegates find the vault through the member filter of the listing.
RoleAccess(r) == IF r.exists /\ MembersOwnerIsCurrent(r) THEN {r.members} \cap Owners ELSE {}
=============================================================================
