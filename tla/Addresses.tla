----------------------------- MODULE Addresses ------------------------------
(***************************************************************************)
(* The addresses the other modules speak about, abstracted to identities   *)
(* (the code compares them case-insensitively).                            *)
(***************************************************************************)
CONSTANTS
  Owners,   \* addresses that can own a vault: Dashboards and plain accounts
  Hub,      \* the VaultHub contract
  None,     \* the zero address, SQL NULL, JavaScript null
  Zero      \* a VaultViewer answer in which every address is zero

ASSUME AddressAssumption ==
  /\ None \notin Owners /\ Hub \notin Owners /\ Zero \notin Owners
  /\ Hub # None /\ Zero # None /\ Zero # Hub
=============================================================================
