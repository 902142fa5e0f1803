----------------------------- MODULE VaultChain -----------------------------
(***************************************************************************)
(* The part of the execution layer that decides who owns one vault: the    *)
(* VaultHub connection record and the Ownable2Step state of the            *)
(* StakingVault.  The contracts are not in this repository; they are       *)
(* modelled from the reads, the events and the comments of                 *)
(* src/src/vault/vault.service.ts (external).                              *)
(*                                                                         *)
(* A read with a blockTag is a function of hist[block], and hist of a      *)
(* sealed block never changes: reorganisations are not modelled, so when a *)
(* pinned read happens does not matter, only when its result is written.   *)
(***************************************************************************)
EXTENDS Addresses, Naturals, Sequences

CONSTANTS
  LastOpBlock,  \* bound: the vault changes hands only in blocks 1..LastOpBlock
  MaxBlock,     \* bound: last block of the run
  MaxLogs       \* bound: number of logs the vault emits in a run

ASSUME ChainAssumption ==
  /\ LastOpBlock \in Nat /\ MaxBlock \in Nat /\ MaxLogs \in Nat
  /\ LastOpBlock <= MaxBlock

VARIABLES
  height,   \* number of the last sealed block
  hist,     \* hist[b]: state of the vault at the end of block b, b <= height
  tip,      \* state while block height + 1 is being built
  logs,     \* logs of the vault in on-chain order (block, then logIndex)
  moments   \* history: every ownership situation the vault has ever been in

chainVars == <<height, hist, tip, logs, moments>>

Blocks == 0..MaxBlock
HubEvents == {"VaultConnected", "VaultOwnershipTransferred", "VaultDisconnectCompleted"}

\* conn is the owner in the hub's connection record, None when there is none;
\* owner and pending are StakingVault.owner() and StakingVault.pendingOwner().
VaultOnChain == [conn : Owners \cup {None}, owner : Owners \cup {Hub}, pending : Owners \cup {None}]
Log == [block : Nat, event : HubEvents \cup {"OwnershipTransferred"}, newOwner : Owners \cup {Hub, None}]
Moment == [block : Nat, connected : BOOLEAN, owner : Owners]

Connected(s) == s.conn # None

\* The address a user recognises as the owner (the comment on effective_owner_address).
OwnerOf(s) == IF Connected(s) THEN s.conn
              ELSE IF s.owner = Hub THEN s.pending ELSE s.owner

MomentOf(b, s) == [block |-> b, connected |-> Connected(s), owner |-> OwnerOf(s)]

ChainInit ==
  /\ height = 0
  /\ \E o \in Owners :
       tip \in {[conn |-> None, owner |-> o, pending |-> None],
                [conn |-> o, owner |-> Hub, pending |-> None]}
  /\ hist = [b \in Blocks |-> tip]
  /\ logs = <<>>
  /\ moments = {MomentOf(0, tip)}

-----------------------------------------------------------------------------
\* A transaction in block height + 1 that leaves the vault in state s and emits newLogs.
Transact(s, newLogs) ==
  /\ height < LastOpBlock
  /\ Len(logs) + Len(newLogs) <= MaxLogs
  /\ tip' = s
  /\ logs' = logs \o newLogs
  /\ moments' = moments \cup {MomentOf(height + 1, s)}
  /\ UNCHANGED <<height, hist>>

Emit(event, newOwner) == [block |-> height + 1, event |-> event, newOwner |-> newOwner]

\* The owner hands the vault to the hub, which records the caller as connection.owner.
HubConnect ==
  /\ ~Connected(tip) /\ tip.owner # Hub
  /\ Transact([conn |-> tip.owner, owner |-> Hub, pending |-> None],
              <<Emit("OwnershipTransferred", Hub), Emit("VaultConnected", None)>>)

\* A connected vault changes hands inside the hub.
HubTransfer(o) ==
  /\ Connected(tip) /\ o # tip.conn
  /\ Transact([tip EXCEPT !.conn = o], <<Emit("VaultOwnershipTransferred", o)>>)

\* The disconnect completes: the connection record is gone and the hub has offered
\* the vault back to its connection owner, who has not accepted yet.
HubDisconnect ==
  /\ Connected(tip)
  /\ Transact([tip EXCEPT !.conn = None, !.pending = tip.conn],
              <<Emit("VaultDisconnectCompleted", None)>>)

\* transferOwnership of Ownable2Step: names a pending owner, emits nothing we listen to.
VaultOffer(o) ==
  /\ ~Connected(tip) /\ tip.owner # Hub /\ tip.pending # o /\ tip.owner # o
  /\ Transact([tip EXCEPT !.pending = o], <<>>)

\* acceptOwnership of Ownable2Step.
VaultAccept ==
  /\ ~Connected(tip) /\ tip.pending # None
  /\ Transact([tip EXCEPT !.owner = tip.pending, !.pending = None],
              <<Emit("OwnershipTransferred", tip.pending)>>)

\* Block height + 1 becomes readable and its logs can be delivered.
SealBlock ==
  /\ height < MaxBlock
  /\ height' = height + 1
  /\ hist' = [hist EXCEPT ![height + 1] = tip]
  /\ moments' = moments \cup {MomentOf(height + 1, tip)}
  /\ UNCHANGED <<tip, logs>>

ChainNext ==
  \/ HubConnect \/ HubDisconnect \/ VaultAccept \/ SealBlock
  \/ \E o \in Owners : HubTransfer(o) \/ VaultOffer(o)
=============================================================================
