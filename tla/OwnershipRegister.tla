-------------------------- MODULE OwnershipRegister --------------------------
(***************************************************************************)
(* What the worker promises about the owner of a vault, whatever handlers  *)
(* and crons do to the row: the recorded owner behaves like a register     *)
(* whose values come from the history of the vault and whose block numbers *)
(* never go back.  A recorded owner is never forgotten.                    *)
(***************************************************************************)
EXTENDS Naturals

CONSTANTS
  Owners,
  None      \* no owner is known

VARIABLES
  owner,    \* the recorded owner
  seen,     \* the block it was recorded for
  history   \* every ownership situation the vault has ever been in

vars == <<owner, seen, history>>

Init == owner = None /\ seen = 0

\* The vault changes hands, or a block is sealed.
Learn ==
  /\ history \subseteq history'
  /\ UNCHANGED <<owner, seen>>

\* A write that names an owner: one the vault had in a block not older than the last.
Record(m) ==
  /\ m.block >= seen
  /\ m.owner \in Owners
  /\ owner' = m.owner
  /\ seen' = m.block
  /\ UNCHANGED history

Next == Learn \/ \E m \in history : Record(m)

Spec == Init /\ [][Next]_vars
=============================================================================
