--------------------------- MODULE MCVaultListing ---------------------------
(***************************************************************************)
(* Small instances of VaultListing for TLC.                                *)
(***************************************************************************)
EXTENDS VaultListing, TLC

CONSTANTS v1, v2, v3

MCVaults == {v1, v2, v3}

VaultSymmetry == Permutations(MCVaults)
=============================================================================
