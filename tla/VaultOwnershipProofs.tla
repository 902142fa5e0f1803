------------------------ MODULE VaultOwnershipProofs ------------------------
(***************************************************************************)
(* Proofs that the safety properties of VaultOwnership hold for every set  *)
(* of owners, every bound and every choice of running jobs.                *)
(*                                                                         *)
(* The properties speak about the row alone, and none is inductive: what a *)
(* job will write depends on what it has read.  IInv adds what the chain   *)
(* guarantees of blocks and logs and, for every job in flight, that the    *)
(* address it carries is the one of the block it is pinned to.             *)
(***************************************************************************)
EXTENDS VaultOwnership, TLAPS

-----------------------------------------------------------------------------
\* The inductive invariant.

WellFormed(s) ==
  /\ Connected(s) => s.owner = Hub /\ s.pending = None
  /\ ~Connected(s) /\ s.owner = Hub => s.pending # None

LogOK(l, ms) ==
  /\ l.block <= height + 1
  /\ l.event = "VaultOwnershipTransferred" =>
       l.newOwner \in Owners /\ [block |-> l.block, connected |-> TRUE, owner |-> l.newOwner] \in ms
  /\ l.event = "OwnershipTransferred" /\ l.newOwner # Hub =>
       l.newOwner \in Owners /\ [block |-> l.block, connected |-> FALSE, owner |-> l.newOwner] \in ms

ChainInv ==
  /\ WellFormed(tip)
  /\ \A b \in 0..height : WellFormed(hist[b]) /\ MomentOf(b, hist[b]) \in moments
  /\ \A i \in DOMAIN logs : LogOK(logs[i], moments)

JobOK(j) ==
  /\ j.block <= height
  /\ j.kind \in {"VaultConnected", "vaults"} /\ j.pc \in {"find", "insert", "connect", "state"} =>
       Connected(hist[j.block]) /\ j.val = hist[j.block].conn
  /\ j.kind = "VaultOwnershipTransferred" =>
       j.pos \in DOMAIN logs /\ logs[j.pos].event = j.kind /\ logs[j.pos].block = j.block
  /\ j.pc = "repair" => j.val \in Owners

JobInv == \A j \in jobs : JobOK(j)

RowOK(r, ms, rec) ==
  /\ r \in Row
  /\ ~r.exists => r = NoRow
  /\ r.ownerSeen <= r.ownershipBlock
  /\ r.effectiveOwner # None =>
       \E m \in ms : m.block = r.ownerSeen /\ m.owner = r.effectiveOwner
  /\ IsListedConnected(r) /\ r.ownershipBlock > 0 =>
       \E m \in ms : m.block = r.ownershipBlock /\ m.connected
  /\ r.membersOwner # None => r.members = r.membersOwner
  /\ rec /\ r.membersOwner = None => r.members \notin Owners

IInv == TypeOK /\ ChainInv /\ JobInv /\ RowOK(row, moments, recovered) /\ StateTakenWhileConnected

\* What no step may do to the row.
RowStep(r, q) ==
  /\ q.ownershipBlock >= r.ownershipBlock
  /\ q.ownerSeen >= r.ownerSeen
  /\ q.membersBlock >= r.membersBlock
  /\ q.members # r.members => q.members \in Owners
  /\ q.effectiveOwner # None \/ (q.effectiveOwner = r.effectiveOwner /\ q.ownerSeen = r.ownerSeen)

-----------------------------------------------------------------------------
\* The writes of VaultDbService keep RowOK when the chain vouches for their arguments.

\* An ownership update that passes the block guard: sound when block b vouches for the
\* owner it names, if it names one, and for the connected flag, if it leaves one.
LEMMA OwnershipWriteOK ==
  ASSUME NEW ms, NEW rec \in BOOLEAN, NEW r, RowOK(r, ms, rec), NEW b \in Nat,
         r.exists, r.ownershipBlock <= b,
         NEW q \in Row, q.exists, q.ownershipBlock = b,
         q.membersOwner = r.membersOwner, q.members = r.members, q.membersBlock = r.membersBlock,
         \/ q.effectiveOwner = r.effectiveOwner /\ q.ownerSeen = r.ownerSeen
         \/ /\ q.ownerSeen = b /\ q.effectiveOwner # None
            /\ \E m \in ms : m.block = b /\ m.owner = q.effectiveOwner,
         q.isDisconnected \/ \E m \in ms : m.block = b /\ m.connected
  PROVE  RowOK(q, ms, rec) /\ RowStep(r, q)
<1>1. r \in Row /\ r.ownerSeen \in Nat /\ r.ownershipBlock \in Nat /\ r.membersBlock \in Nat
  BY DEF RowOK, Row
<1>2. q.ownerSeen <= q.ownershipBlock /\ q.ownerSeen >= r.ownerSeen
  BY <1>1 DEF RowOK
<1>3. q.effectiveOwner # None => \E m \in ms : m.block = q.ownerSeen /\ m.owner = q.effectiveOwner
  BY DEF RowOK
<1>4. IsListedConnected(q) => \E m \in ms : m.block = q.ownershipBlock /\ m.connected
  BY DEF IsListedConnected
<1>5. RowOK(q, ms, rec)
  BY <1>2, <1>3, <1>4 DEF RowOK
<1>6. RowStep(r, q)
  BY <1>1, <1>2 DEF RowStep
<1> QED
  BY <1>5, <1>6

\* A write the guard rejects.
LEMMA NoWriteOK ==
  ASSUME NEW ms, NEW rec \in BOOLEAN, NEW r, RowOK(r, ms, rec)
  PROVE  RowStep(r, r)
BY DEF RowOK, Row, RowStep

\* connectVault: sound when the vault was connected under owner o during block b.
LEMMA ConnectVaultOK ==
  ASSUME NEW ms, NEW rec \in BOOLEAN, NEW r, RowOK(r, ms, rec), NEW b \in Nat,
         NEW o \in Owners, \E m \in ms : m.block = b /\ m.owner = o /\ m.connected
  PROVE  RowOK(ConnectVault(r, b, o), ms, rec) /\ RowStep(r, ConnectVault(r, b, o))
<1> DEFINE q == ConnectVault(r, b, o)
<1>r. r \in Row
  BY DEF RowOK
<1>1. CASE r.exists /\ r.ownershipBlock <= b
  <2>1. q = [r EXCEPT !.isDisconnected = FALSE, !.effectiveOwner = o, !.ownerSeen = b,
                      !.ownershipBlock = b]
    BY <1>1 DEF ConnectVault, UpdateVaultOwnershipColumns, RowOK, Row
  <2>2. /\ q \in Row /\ q.exists /\ ~q.isDisconnected /\ q.effectiveOwner = o
        /\ q.ownerSeen = b /\ q.ownershipBlock = b /\ q.membersOwner = r.membersOwner
        /\ q.members = r.members /\ q.membersBlock = r.membersBlock
    BY <2>1, <1>1, <1>r DEF Row
  <2> HIDE DEF q
  <2>3. RowOK(q, ms, rec) /\ RowStep(r, q)
    BY <1>1, <2>2, OwnershipWriteOK, AddressAssumption
  <2> QED
    BY <2>3 DEF q
<1>2. CASE ~(r.exists /\ r.ownershipBlock <= b)
  BY <1>2, NoWriteOK DEF ConnectVault, UpdateVaultOwnershipColumns
<1> QED
  BY <1>1, <1>2

\* disconnectVault: sound when o is None or was the owner during block b.
LEMMA DisconnectVaultOK ==
  ASSUME NEW ms, NEW rec \in BOOLEAN, NEW r, RowOK(r, ms, rec), NEW b \in Nat,
         NEW o \in Owners \cup {None}, o # None => \E m \in ms : m.block = b /\ m.owner = o
  PROVE  RowOK(DisconnectVault(r, b, o), ms, rec) /\ RowStep(r, DisconnectVault(r, b, o))
<1> DEFINE q == DisconnectVault(r, b, o)
<1>r. r \in Row
  BY DEF RowOK
<1>1. CASE r.exists /\ r.ownershipBlock <= b
  <2>1. /\ o = None => q = [r EXCEPT !.isDisconnected = TRUE, !.ownershipBlock = b]
        /\ o # None => q = [r EXCEPT !.isDisconnected = TRUE, !.effectiveOwner = o,
                                     !.ownerSeen = b, !.ownershipBlock = b]
    BY <1>1, <1>r DEF DisconnectVault, UpdateVaultOwnershipColumns, Row
  <2>2. /\ q \in Row /\ q.exists /\ q.isDisconnected /\ q.ownershipBlock = b
        /\ IF o = None THEN q.effectiveOwner = r.effectiveOwner /\ q.ownerSeen = r.ownerSeen
                       ELSE q.effectiveOwner = o /\ q.ownerSeen = b
        /\ q.membersOwner = r.membersOwner
        /\ q.members = r.members /\ q.membersBlock = r.membersBlock
    <3> HIDE DEF q
    <3>1. CASE o = None
      BY <2>1, <1>1, <1>r, <3>1 DEF Row
    <3>2. CASE o # None
      BY <2>1, <1>1, <1>r, <3>2 DEF Row
    <3> QED
      BY <3>1, <3>2
  <2> HIDE DEF q
  <2>3. RowOK(q, ms, rec) /\ RowStep(r, q)
    BY <1>1, <2>2, OwnershipWriteOK, AddressAssumption
  <2> QED
    BY <2>3 DEF q
<1>2. CASE ~(r.exists /\ r.ownershipBlock <= b)
  BY <1>2, NoWriteOK DEF DisconnectVault, UpdateVaultOwnershipColumns
<1> QED
  BY <1>1, <1>2

\* updateVaultOwnership: sound when o was the owner during block b and, unless the
\* write is confined to disconnected rows, owned the vault through a connection.
LEMMA UpdateVaultOwnershipOK ==
  ASSUME NEW ms, NEW rec \in BOOLEAN, NEW r, RowOK(r, ms, rec), NEW b \in Nat,
         NEW o \in Owners, NEW only \in BOOLEAN,
         \E m \in ms : m.block = b /\ m.owner = o /\ (only \/ m.connected)
  PROVE  /\ RowOK(UpdateVaultOwnership(r, b, o, only), ms, rec)
         /\ RowStep(r, UpdateVaultOwnership(r, b, o, only))
<1> DEFINE q == UpdateVaultOwnership(r, b, o, only)
<1>r. r \in Row
  BY DEF RowOK
<1>1. CASE r.exists /\ r.ownershipBlock <= b /\ (only => r.isDisconnected)
  <2>1. q = [r EXCEPT !.effectiveOwner = o, !.ownerSeen = b, !.ownershipBlock = b]
    BY <1>1 DEF UpdateVaultOwnership, UpdateVaultOwnershipColumns, RowOK, Row
  <2>2. /\ q \in Row /\ q.exists /\ q.isDisconnected = r.isDisconnected
        /\ q.effectiveOwner = o /\ q.ownerSeen = b /\ q.ownershipBlock = b
        /\ q.membersOwner = r.membersOwner
        /\ q.members = r.members /\ q.membersBlock = r.membersBlock
    BY <2>1, <1>1, <1>r DEF Row
  <2> HIDE DEF q
  <2>3. q.isDisconnected \/ \E m \in ms : m.block = b /\ m.connected
    BY <1>1, <2>2
  <2>4. RowOK(q, ms, rec) /\ RowStep(r, q)
    BY <1>1, <2>2, <2>3, OwnershipWriteOK, AddressAssumption
  <2> QED
    BY <2>4 DEF q
<1>2. CASE ~(r.exists /\ r.ownershipBlock <= b /\ (only => r.isDisconnected))
  BY <1>2, NoWriteOK DEF UpdateVaultOwnership, UpdateVaultOwnershipColumns
<1> QED
  BY <1>1, <1>2

\* setMembersForVault: sound for roles an owner answered for.
LEMMA SetMembersOK ==
  ASSUME NEW ms, NEW rec \in BOOLEAN, NEW r, RowOK(r, ms, rec), NEW b \in Nat, NEW o \in Owners
  PROVE  RowOK(SetMembersForVault(r, b, o), ms, rec) /\ RowStep(r, SetMembersForVault(r, b, o))
<1> DEFINE q == SetMembersForVault(r, b, o)
<1>r. r \in Row
  BY DEF RowOK
<1>1. CASE r.exists /\ ~(r.membersBlock > b)
  <2>1. q = [r EXCEPT !.members = o, !.membersOwner = o, !.membersBlock = b]
    BY <1>1, AddressAssumption DEF SetMembersForVault, RowOK, Row
  <2>2. /\ q \in Row /\ q.exists /\ q.isDisconnected = r.isDisconnected
        /\ q.effectiveOwner = r.effectiveOwner /\ q.ownerSeen = r.ownerSeen
        /\ q.ownershipBlock = r.ownershipBlock
        /\ q.membersOwner = o /\ q.members = o /\ q.membersBlock = b
    BY <2>1, <1>1, <1>r DEF Row
  <2> HIDE DEF q
  <2>3. IsListedConnected(q) <=> IsListedConnected(r)
    BY <1>1, <2>2 DEF IsListedConnected
  <2>4. RowOK(q, ms, rec)
    BY <2>2, <2>3, AddressAssumption DEF RowOK
  <2>5. RowStep(r, q)
    BY <1>1, <2>2 DEF RowStep, RowOK, Row
  <2> QED
    BY <2>4, <2>5 DEF q
<1>2. CASE ~(r.exists /\ ~(r.membersBlock > b))
  BY <1>2, NoWriteOK DEF SetMembersForVault
<1> QED
  BY <1>1, <1>2

\* backfillMembersOwnerFromRoleMembers: afterwards no provenance is left to recover.
LEMMA BackfillMembersOwnerOK ==
  ASSUME NEW ms, NEW rec \in BOOLEAN, NEW r, RowOK(r, ms, rec)
  PROVE  /\ RowOK(BackfillMembersOwnerFromRoleMembers(r), ms, TRUE)
         /\ RowStep(r, BackfillMembersOwnerFromRoleMembers(r))
<1> DEFINE q == BackfillMembersOwnerFromRoleMembers(r)
<1>r. r \in Row
  BY DEF RowOK
<1>1. CASE r.exists /\ r.membersOwner = None /\ r.members \in Owners
  <2>1. q = [r EXCEPT !.membersOwner = r.members]
    BY <1>1 DEF BackfillMembersOwnerFromRoleMembers
  <2>2. /\ q \in Row /\ q.exists /\ q.isDisconnected = r.isDisconnected
        /\ q.effectiveOwner = r.effectiveOwner /\ q.ownerSeen = r.ownerSeen
        /\ q.ownershipBlock = r.ownershipBlock
        /\ q.membersOwner = r.members /\ q.members = r.members /\ q.membersBlock = r.membersBlock
    BY <2>1, <1>1, <1>r DEF Row
  <2> HIDE DEF q
  <2>3. IsListedConnected(q) <=> IsListedConnected(r)
    BY <1>1, <2>2 DEF IsListedConnected
  <2>4. RowOK(q, ms, TRUE)
    BY <1>1, <2>2, <2>3, AddressAssumption DEF RowOK
  <2>5. RowStep(r, q)
    BY <2>2 DEF RowStep, RowOK, Row
  <2> QED
    BY <2>4, <2>5 DEF q
<1>2. CASE ~(r.exists /\ r.membersOwner = None /\ r.members \in Owners)
  <2>1. q = r
    BY <1>2 DEF BackfillMembersOwnerFromRoleMembers
  <2>2. r.membersOwner = None => r.members \notin Owners
    BY <1>2, AddressAssumption DEF RowOK, NoRow
  <2> QED
    BY <2>1, <2>2, NoWriteOK DEF RowOK
<1> QED
  BY <1>1, <1>2

\* The INSERT of getOrCreateVaultByAddress into an empty place.
LEMMA CreatedRowOK ==
  ASSUME NEW ms, NEW rec \in BOOLEAN, NEW r, RowOK(r, ms, rec), ~r.exists, NEW d \in BOOLEAN
  PROVE  RowOK(CreatedRow(d), ms, rec) /\ RowStep(r, CreatedRow(d))
<1>1. r = NoRow
  BY DEF RowOK
<1> DEFINE q == CreatedRow(d)
<1>2. /\ q \in Row /\ q.exists /\ q.effectiveOwner = None /\ q.ownershipBlock = 0
      /\ q.ownerSeen = 0 /\ q.membersOwner = None /\ q.members = None /\ q.membersBlock = 0
  BY DEF CreatedRow, NoRow, Row
<1>3. /\ r.ownershipBlock = 0 /\ r.ownerSeen = 0 /\ r.membersBlock = 0 /\ r.members = None
      /\ r.effectiveOwner = None
  BY <1>1 DEF NoRow
<1> HIDE DEF q
<1>4. RowOK(q, ms, rec)
  BY <1>2, AddressAssumption DEF RowOK
<1>5. RowStep(r, q)
  BY <1>2, <1>3 DEF RowStep
<1> QED
  BY <1>4, <1>5 DEF q

\* More history vouches for no less.
LEMMA RowOKMonotone ==
  ASSUME NEW ms, NEW more, ms \subseteq more, NEW rec \in BOOLEAN, NEW r, RowOK(r, ms, rec)
  PROVE  RowOK(r, more, rec)
BY DEF RowOK

-----------------------------------------------------------------------------
\* The chain.

\* A well-formed state of the vault names an owner.
LEMMA OwnerOfType ==
  ASSUME NEW s \in VaultOnChain, WellFormed(s)
  PROVE  OwnerOf(s) \in Owners
BY AddressAssumption DEF VaultOnChain, WellFormed, OwnerOf, Connected

\* A transaction that leaves the vault well-formed and emits truthful logs.
LEMMA TransactOK ==
  ASSUME IInv, NEW s \in VaultOnChain, WellFormed(s), NEW ls \in Seq(Log), Transact(s, ls),
         \A i \in DOMAIN ls : LogOK(ls[i], moments'),
         UNCHANGED workerVars
  PROVE  IInv'
<1> USE DEF Transact
<1>1. moments \subseteq moments' /\ moments' \subseteq Moment
  <2>1. MomentOf(height + 1, s) \in Moment
    BY OwnerOfType, ChainAssumption DEF IInv, TypeOK, Blocks, MomentOf, Moment, Connected
  <2> QED
    BY <2>1 DEF IInv, TypeOK
<1>2. /\ logs' \in Seq(Log)
      /\ Len(logs') = Len(logs) + Len(ls)
      /\ \A i \in 1..Len(logs) : logs'[i] = logs[i]
      /\ \A i \in DOMAIN logs' : i \in DOMAIN logs \/ \E k \in DOMAIN ls : logs'[i] = ls[k]
  BY DEF IInv, TypeOK
<1>3. TypeOK'
  BY <1>1, <1>2 DEF IInv, TypeOK, workerVars
<1>4. ChainInv'
  <2>1. WellFormed(tip)' /\ UNCHANGED <<height, hist>>
    BY DEF WellFormed, Connected
  <2>2. \A b \in 0..height : WellFormed(hist[b])' /\ MomentOf(b, hist[b])' \in moments'
    BY <1>1, <2>1 DEF IInv, ChainInv, WellFormed, Connected, MomentOf, OwnerOf
  <2>3. \A i \in DOMAIN logs' : LogOK(logs[i], moments)'
    <3> SUFFICES ASSUME NEW i \in DOMAIN logs' PROVE LogOK(logs[i], moments)'
      OBVIOUS
    <3>1. CASE i \in DOMAIN logs
      <4>1. LogOK(logs[i], moments) /\ logs'[i] = logs[i]
        BY <3>1, <1>2 DEF IInv, ChainInv, TypeOK
      <4> QED
        BY <4>1, <1>1, <2>1 DEF LogOK
    <3>2. CASE \E k \in DOMAIN ls : logs'[i] = ls[k]
      BY <3>2, <2>1 DEF LogOK
    <3> QED
      BY <3>1, <3>2, <1>2
  <2> QED
    BY <2>1, <2>2, <2>3 DEF ChainInv
<1>5. JobInv'
  <2> SUFFICES ASSUME NEW j \in jobs PROVE JobOK(j)'
    BY DEF JobInv, workerVars
  <2>1. JobOK(j) /\ UNCHANGED <<height, hist>>
    BY DEF IInv, JobInv
  <2>2. DOMAIN logs \subseteq DOMAIN logs' /\ \A i \in DOMAIN logs : logs'[i] = logs[i]
    BY <1>2 DEF IInv, TypeOK
  <2> QED
    BY <2>1, <2>2 DEF JobOK, Connected
<1>6. RowOK(row, moments, recovered)'
  BY <1>1, RowOKMonotone DEF IInv, TypeOK, workerVars
<1>7. StateTakenWhileConnected'
  BY <1>1 DEF IInv, StateTakenWhileConnected, workerVars
<1> QED
  BY <1>3, <1>4, <1>5, <1>6, <1>7 DEF IInv

\* Sealing a block.
LEMMA SealBlockOK ==
  ASSUME IInv, SealBlock, UNCHANGED workerVars
  PROVE  IInv'
<1> USE DEF SealBlock
<1>1. /\ height \in Nat /\ height + 1 \in Blocks /\ height' = height + 1
      /\ hist' \in [Blocks -> VaultOnChain] /\ hist'[height + 1] = tip
      /\ \A b \in 0..height : b \in Blocks /\ hist'[b] = hist[b]
  BY ChainAssumption DEF IInv, TypeOK, Blocks
<1>2. /\ moments \subseteq moments' /\ moments' \subseteq Moment
      /\ MomentOf(height + 1, tip) \in moments'
  <2>1. MomentOf(height + 1, tip) \in Moment
    BY <1>1, OwnerOfType DEF IInv, TypeOK, ChainInv, MomentOf, Moment, Connected
  <2> QED
    BY <2>1 DEF IInv, TypeOK
<1>3. TypeOK'
  BY <1>1, <1>2 DEF IInv, TypeOK, workerVars
<1>4. ChainInv'
  <2>1. WellFormed(tip)'
    BY DEF IInv, ChainInv, WellFormed, Connected
  <2>2. ASSUME NEW b \in 0..height' PROVE WellFormed(hist[b])' /\ MomentOf(b, hist[b])' \in moments'
    <3>1. CASE b \in 0..height
      BY <1>1, <1>2, <3>1 DEF IInv, ChainInv, WellFormed, Connected, MomentOf, OwnerOf
    <3>2. CASE b = height + 1
      BY <1>1, <1>2, <3>2 DEF IInv, ChainInv, WellFormed, Connected, MomentOf, OwnerOf
    <3> QED
      BY <3>1, <3>2, <1>1
  <2>3. \A i \in DOMAIN logs' : LogOK(logs[i], moments)'
    <3> SUFFICES ASSUME NEW i \in DOMAIN logs PROVE LogOK(logs[i], moments)'
      OBVIOUS
    <3>1. LogOK(logs[i], moments) /\ logs[i] \in Log
      BY DEF IInv, ChainInv, TypeOK
    <3>2. logs[i].block \in Nat
      BY <3>1 DEF Log
    <3> QED
      BY <3>1, <3>2, <1>1, <1>2 DEF LogOK
  <2> QED
    BY <2>1, <2>2, <2>3 DEF ChainInv
<1>5. JobInv'
  <2> SUFFICES ASSUME NEW j \in jobs PROVE JobOK(j)'
    BY DEF JobInv, workerVars
  <2>1. JobOK(j) /\ j.block \in 0..height
    BY <1>1 DEF IInv, JobInv, JobOK, TypeOK, Job
  <2>2. hist'[j.block] = hist[j.block] /\ j.block <= height' /\ logs' = logs
    BY <2>1, <1>1
  <2> QED
    BY <2>1, <2>2 DEF JobOK, Connected
<1>6. RowOK(row, moments, recovered)'
  BY <1>2, RowOKMonotone DEF IInv, TypeOK, workerVars
<1>7. StateTakenWhileConnected'
  BY <1>2 DEF IInv, StateTakenWhileConnected, workerVars
<1> QED
  BY <1>3, <1>4, <1>5, <1>6, <1>7 DEF IInv

\* Every on-chain operation.
LEMMA ChainStepOK ==
  ASSUME IInv, ChainStep
  PROVE  IInv'
<1> USE DEF ChainStep
<1>t. /\ tip \in VaultOnChain /\ WellFormed(tip) /\ height \in Nat
      /\ tip.conn \in Owners \cup {None} /\ tip.owner \in Owners \cup {Hub}
      /\ tip.pending \in Owners \cup {None}
  BY ChainAssumption DEF IInv, TypeOK, ChainInv, Blocks, VaultOnChain
<1>1. CASE HubConnect
  <2> DEFINE s == [conn |-> tip.owner, owner |-> Hub, pending |-> None]
             l1 == Emit("OwnershipTransferred", Hub)
             l2 == Emit("VaultConnected", None)
  <2>1. s \in VaultOnChain /\ WellFormed(s)
    BY <1>1, <1>t, AddressAssumption DEF HubConnect, VaultOnChain, WellFormed, Connected
  <2>2. l1 \in Log /\ l2 \in Log
    BY <1>t DEF Emit, Log, HubEvents
  <2>3. LogOK(l1, moments') /\ LogOK(l2, moments')
    BY <1>t DEF Emit, LogOK
  <2>4. Transact(s, <<l1, l2>>)
    BY <1>1 DEF HubConnect
  <2> HIDE DEF s, l1, l2
  <2>5. <<l1, l2>> \in Seq(Log) /\ \A i \in DOMAIN <<l1, l2>> : LogOK(<<l1, l2>>[i], moments')
    BY <2>2, <2>3
  <2> QED
    BY <2>1, <2>4, <2>5, TransactOK
<1>2. CASE HubDisconnect
  <2> DEFINE s == [tip EXCEPT !.conn = None, !.pending = tip.conn]
             l == Emit("VaultDisconnectCompleted", None)
  <2>1. s \in VaultOnChain /\ WellFormed(s)
    BY <1>2, <1>t, AddressAssumption DEF HubDisconnect, VaultOnChain, WellFormed, Connected
  <2>2. l \in Log /\ LogOK(l, moments')
    BY <1>t DEF Emit, Log, HubEvents, LogOK
  <2>3. Transact(s, <<l>>)
    BY <1>2 DEF HubDisconnect
  <2> HIDE DEF s, l
  <2>s. <<l>> \in Seq(Log) /\ \A i \in DOMAIN <<l>> : LogOK(<<l>>[i], moments')
    BY <2>2
  <2> QED
    BY <2>1, <2>3, <2>s, TransactOK
<1>3. CASE VaultAccept
  <2> DEFINE s == [tip EXCEPT !.owner = tip.pending, !.pending = None]
             l == Emit("OwnershipTransferred", tip.pending)
  <2>1. /\ s \in VaultOnChain /\ WellFormed(s)
        /\ OwnerOf(s) = tip.pending /\ ~Connected(s) /\ tip.pending \in Owners
    BY <1>3, <1>t, AddressAssumption DEF VaultAccept, VaultOnChain, WellFormed, Connected, OwnerOf
  <2>2. Transact(s, <<l>>)
    BY <1>3 DEF VaultAccept
  <2>3. l \in Log /\ l.block = height + 1 /\ l.newOwner = tip.pending /\ l.event = "OwnershipTransferred"
    BY <1>t, <2>1 DEF Emit, Log, HubEvents
  <2>4. [block |-> l.block, connected |-> FALSE, owner |-> l.newOwner] \in moments'
    <3>1. Connected(s) = FALSE
      BY <2>1 DEF Connected
    <3>2. MomentOf(height + 1, s) = [block |-> height + 1, connected |-> FALSE, owner |-> tip.pending]
      BY <2>1, <3>1, Zenon DEF MomentOf
    <3> QED
      BY <2>2, <2>3, <3>2 DEF Transact
  <2>5. LogOK(l, moments')
    BY <1>t, <2>1, <2>3, <2>4 DEF LogOK
  <2> HIDE DEF s, l
  <2>s. <<l>> \in Seq(Log) /\ \A i \in DOMAIN <<l>> : LogOK(<<l>>[i], moments')
    BY <2>3, <2>5
  <2> QED
    BY <2>1, <2>2, <2>s, TransactOK
<1>4. ASSUME NEW o \in Owners, HubTransfer(o) PROVE IInv'
  <2> DEFINE s == [tip EXCEPT !.conn = o]
             l == Emit("VaultOwnershipTransferred", o)
  <2>1. s \in VaultOnChain /\ WellFormed(s) /\ OwnerOf(s) = o /\ Connected(s)
    BY <1>4, <1>t, AddressAssumption DEF HubTransfer, VaultOnChain, WellFormed, Connected, OwnerOf
  <2>2. Transact(s, <<l>>)
    BY <1>4 DEF HubTransfer
  <2>3. l \in Log /\ l.block = height + 1 /\ l.newOwner = o /\ l.event = "VaultOwnershipTransferred"
    BY <1>t DEF Emit, Log, HubEvents
  <2>4. [block |-> l.block, connected |-> TRUE, owner |-> l.newOwner] \in moments'
    BY <2>1, <2>2, <2>3 DEF Transact, MomentOf
  <2>5. LogOK(l, moments')
    BY <1>t, <2>3, <2>4 DEF LogOK
  <2> HIDE DEF s, l
  <2>s. <<l>> \in Seq(Log) /\ \A i \in DOMAIN <<l>> : LogOK(<<l>>[i], moments')
    BY <2>3, <2>5
  <2> QED
    BY <2>1, <2>2, <2>s, TransactOK
<1>5. ASSUME NEW o \in Owners, VaultOffer(o) PROVE IInv'
  <2> DEFINE s == [tip EXCEPT !.pending = o]
  <2>1. s \in VaultOnChain /\ WellFormed(s)
    BY <1>5, <1>t, AddressAssumption DEF VaultOffer, VaultOnChain, WellFormed, Connected
  <2>2. Transact(s, <<>>)
    BY <1>5 DEF VaultOffer
  <2> HIDE DEF s
  <2>3. << >> \in Seq(Log) /\ \A i \in DOMAIN << >> : LogOK(<< >>[i], moments')
    OBVIOUS
  <2> QED
    BY <2>1, <2>2, <2>3, TransactOK
<1>6. CASE SealBlock
  BY <1>6, SealBlockOK
<1> QED
  BY <1>1, <1>2, <1>3, <1>4, <1>5, <1>6 DEF ChainNext

-----------------------------------------------------------------------------
\* The worker.

\* The jobs after a step are jobs the chain vouches for.
NewJobsOK == jobs' \subseteq Job /\ \A k \in jobs' : JobOK(k)

\* What a worker step has to establish.
LEMMA WorkerFrame ==
  ASSUME IInv, UNCHANGED chainVars, NewJobsOK,
         recovered' \in BOOLEAN, RowOK(row', moments, recovered'),
         stateBlock' \in Nat,
         stateBlock' = stateBlock \/ (\E m \in moments : m.block = stateBlock' /\ m.connected),
         handled' \subseteq 1..Len(logs),
         backfillDone' \in BOOLEAN, faults' \in 0..MaxFaults
  PROVE  IInv'
<1>1. UNCHANGED <<height, hist, tip, logs, moments>>
  BY DEF chainVars
<1>2. TypeOK'
  BY <1>1 DEF IInv, TypeOK, NewJobsOK, RowOK
<1>3. ChainInv'
  BY <1>1 DEF IInv, ChainInv, WellFormed, Connected, MomentOf, OwnerOf, LogOK
<1>4. JobInv'
  <2> SUFFICES ASSUME NEW j \in jobs' PROVE JobOK(j)'
    BY DEF JobInv
  <2>1. JobOK(j)
    BY DEF NewJobsOK
  <2> QED
    BY <1>1, <2>1 DEF JobOK, Connected
<1>5. RowOK(row, moments, recovered)'
  BY <1>1
<1>6. StateTakenWhileConnected'
  BY <1>1 DEF IInv, StateTakenWhileConnected
<1> QED
  BY <1>2, <1>3, <1>4, <1>5, <1>6 DEF IInv

\* A pinned read returns an owner of the block it is pinned to.
LEMMA PinnedRead ==
  ASSUME IInv, NEW j \in jobs
  PROVE  LET s == hist[j.block] IN
         /\ j \in Job /\ JobOK(j) /\ j.block \in Nat /\ j.block \in Blocks
         /\ Connected(s) => /\ s.conn \in Owners
                            /\ \E m \in moments : m.block = j.block /\ m.owner = s.conn /\ m.connected
         /\ ResolveDisconnectedEffectiveOwner(s) \in Owners \cup {None}
         /\ ResolveDisconnectedEffectiveOwner(s) # None =>
              \E m \in moments : m.block = j.block /\ m.owner = ResolveDisconnectedEffectiveOwner(s)
<1> DEFINE s == hist[j.block]
<1>1. j \in Job /\ JobOK(j)
  BY DEF IInv, TypeOK, JobInv
<1>2. j.block \in Nat /\ j.block <= height /\ height \in 0..MaxBlock
  BY <1>1 DEF IInv, TypeOK, Job, JobOK, Blocks
<1>3. j.block \in 0..height /\ j.block \in Blocks
  BY <1>2, ChainAssumption DEF Blocks
<1>4. s \in VaultOnChain /\ WellFormed(s) /\ MomentOf(j.block, s) \in moments
  BY <1>3 DEF IInv, TypeOK, ChainInv
<1>5. \E m \in moments : m.block = j.block /\ m.owner = OwnerOf(s) /\ m.connected = Connected(s)
  BY <1>4 DEF MomentOf
<1> HIDE DEF s
<1>6. Connected(s) => s.conn \in Owners /\ OwnerOf(s) = s.conn
  BY <1>4 DEF VaultOnChain, Connected, OwnerOf
<1>7. /\ ResolveDisconnectedEffectiveOwner(s) \in Owners \cup {None}
      /\ ResolveDisconnectedEffectiveOwner(s) # None => OwnerOf(s) = ResolveDisconnectedEffectiveOwner(s)
  BY <1>4, AddressAssumption
     DEF VaultOnChain, WellFormed, Connected, OwnerOf, ResolveDisconnectedEffectiveOwner
<1> QED
  BY <1>1, <1>2, <1>3, <1>5, <1>6, <1>7 DEF s

\* Moving a job on with the address its block vouches for.
LEMMA GotoOK ==
  ASSUME IInv, NEW j \in jobs, NEW pc \in PCs, NEW val \in Owners \cup {None}, Goto(j, pc, val),
         j.kind \in {"VaultConnected", "vaults"} /\ pc \in {"find", "insert", "connect", "state"} =>
           Connected(hist[j.block]) /\ val = hist[j.block].conn,
         pc = "repair" => val \in Owners
  PROVE  NewJobsOK
<1> DEFINE k == [j EXCEPT !.pc = pc, !.val = val]
<1>1. j \in Job /\ JobOK(j)
  BY DEF IInv, TypeOK, JobInv
<1>2. /\ k \in Job /\ k.kind = j.kind /\ k.block = j.block /\ k.pos = j.pos
      /\ k.pc = pc /\ k.val = val
  BY <1>1 DEF Job
<1> HIDE DEF k
<1>3. JobOK(k)
  BY <1>1, <1>2 DEF JobOK
<1> QED
  BY <1>2, <1>3 DEF NewJobsOK, Goto, k, IInv, TypeOK, JobInv

\* A job that ends.
LEMMA FinishOK ==
  ASSUME IInv, NEW j \in jobs, Finish(j)
  PROVE  NewJobsOK
BY DEF NewJobsOK, Finish, IInv, TypeOK, JobInv

\* A scan that has dealt with log i.
LEMMA ScanAdvanceOK ==
  ASSUME IInv, NEW j \in jobs, j.kind = "scan", NEW i \in Nat, ScanAdvance(j, i)
  PROVE  NewJobsOK
<1> DEFINE k == [j EXCEPT !.pos = i]
<1>1. j \in Job /\ JobOK(j)
  BY DEF IInv, TypeOK, JobInv
<1>2. /\ k \in Job /\ k.kind = j.kind /\ k.block = j.block /\ k.pos = i
      /\ k.pc = j.pc /\ k.val = j.val
  BY <1>1 DEF Job
<1> HIDE DEF k
<1>3. JobOK(k)
  BY <1>1, <1>2 DEF JobOK
<1> QED
  BY <1>2, <1>3 DEF NewJobsOK, ScanAdvance, k, IInv, TypeOK, JobInv

\* A step that writes the row q and moves its job on.
LEMMA WritesRowOK ==
  ASSUME IInv, NewJobsOK, NEW q, WritesRow(q), RowOK(q, moments, recovered), RowStep(row, q)
  PROVE  IInv' /\ RowStep(row, row')
BY WorkerFrame DEF WritesRow, IInv, TypeOK

\* A step that only moves its job on.
LEMMA WritesNothingOK ==
  ASSUME IInv, NewJobsOK, WritesNothing
  PROVE  IInv' /\ RowStep(row, row')
<1>1. RowOK(row', moments, recovered') /\ RowStep(row, row')
  BY NoWriteOK DEF WritesNothing, IInv, TypeOK
<1> QED
  BY <1>1, WorkerFrame DEF WritesNothing, IInv, TypeOK

\* A failure that leaves the row q.
LEMMA FaultOK ==
  ASSUME IInv, NewJobsOK, Fault, RowOK(row', moments, recovered), RowStep(row, row'),
         UNCHANGED <<chainVars, stateBlock, handled, backfillDone, recovered>>
  PROVE  IInv' /\ RowStep(row, row')
<1>1. faults' \in 0..MaxFaults
  BY JobsAssumption DEF Fault, IInv, TypeOK
<1> QED
  BY <1>1, WorkerFrame DEF IInv, TypeOK

\* Viewer answers are stored only if an owner gave them.
LEMMA StoredMembersOK ==
  ASSUME IInv, NEW j \in jobs, NEW answer \in Owners \cup {Zero}
  PROVE  RowOK(StoredMembers(j, answer), moments, recovered) /\ RowStep(row, StoredMembers(j, answer))
<1>1. RowOK(row, moments, recovered) /\ recovered \in BOOLEAN /\ j.block \in Nat
  BY PinnedRead DEF IInv, TypeOK
<1>2. CASE answer = Zero
  BY <1>1, <1>2, NoWriteOK DEF StoredMembers, IsResolvedRoleMembers
<1>3. CASE answer \in Owners
  BY <1>1, <1>3, SetMembersOK, AddressAssumption DEF StoredMembers, IsResolvedRoleMembers
<1> QED
  BY <1>2, <1>3

\* getOrCreateVaultByAddress goes on with the job's own address.
LEMMA AfterCreateOK ==
  ASSUME IInv, NEW j \in jobs, j.kind \in {"VaultConnected", "vaults", "metrics"},
         j.pc \in {"find", "insert"}, AfterCreate(j)
  PROVE  NewJobsOK
<1>1. j \in Job /\ JobOK(j) /\ j.val \in Owners \cup {None}
  BY PinnedRead DEF Job
<1>2. CASE j.kind = "VaultConnected"
  <2>1. Goto(j, "connect", j.val) /\ "connect" \in PCs
    BY <1>2 DEF AfterCreate, PCs
  <2> QED
    BY <1>1, <1>2, <2>1, GotoOK DEF JobOK
<1>3. CASE j.kind = "vaults"
  <2>1. Goto(j, "state", j.val) /\ "state" \in PCs
    BY <1>3 DEF AfterCreate, PCs
  <2> QED
    BY <1>1, <1>3, <2>1, GotoOK DEF JobOK
<1>4. CASE j.kind = "metrics"
  BY <1>4, FinishOK DEF AfterCreate
<1> QED
  BY <1>2, <1>3, <1>4

\* The steps of the event handlers, the members cron and the vaults cron.
LEMMA HandlerStepOK ==
  ASSUME IInv, NEW j \in jobs,
         \/ VaultConnectedRead(j) \/ VaultOwnershipTransferredWrite(j) \/ DisconnectStep(j)
         \/ GetOrCreateFind(j) \/ GetOrCreateInsert(j) \/ ConnectStep(j) \/ StateStep(j)
         \/ RefreshMembers(j) \/ MembersSelect(j)
         \/ FetchVaultsDataBatch(j) \/ ListConnectedVaults(j)
  PROVE  IInv' /\ RowStep(row, row')
<1> DEFINE s == hist[j.block]
           owner == ResolveDisconnectedEffectiveOwner(s)
<1>r. /\ RowOK(row, moments, recovered) /\ recovered \in BOOLEAN
      /\ j \in Job /\ JobOK(j) /\ j.block \in Nat /\ j.val \in Owners \cup {None}
  BY PinnedRead DEF IInv, TypeOK, Job
<1>o. /\ Connected(s) => /\ s.conn \in Owners
                         /\ \E m \in moments : m.block = j.block /\ m.owner = s.conn /\ m.connected
      /\ owner \in Owners \cup {None}
      /\ owner # None => \E m \in moments : m.block = j.block /\ m.owner = owner
  BY PinnedRead
<1>p. /\ "find" \in PCs /\ "insert" \in PCs /\ "connect" \in PCs /\ "state" \in PCs
      /\ "members" \in PCs /\ "list" \in PCs /\ "disconnect" \in PCs
  BY DEF PCs
<1>v. ViewerOwner(s) \in Owners \cup {Zero} /\ (ViewerOwner(s) # Zero => Connected(s) /\ ViewerOwner(s) = s.conn)
  BY <1>o DEF ViewerOwner
<1> HIDE DEF s, owner
<1>1. CASE VaultConnectedRead(j)
  <2>1. NewJobsOK
    <3>1. CASE ViewerOwner(s) # Zero
      BY <1>1, <3>1, <1>p, <1>o, <1>v, GotoOK DEF VaultConnectedRead, s
    <3>2. CASE ViewerOwner(s) = Zero
      BY <1>1, <3>2, FinishOK DEF VaultConnectedRead, s
    <3> QED
      BY <3>1, <3>2
  <2> QED
    BY <1>1, <2>1, WritesNothingOK DEF VaultConnectedRead
<1>2. CASE VaultOwnershipTransferredWrite(j)
  <2> DEFINE o == logs[j.pos].newOwner
  <2>1. NewJobsOK
    BY <1>2, <1>p, GotoOK DEF VaultOwnershipTransferredWrite
  <2>2. j.pos \in DOMAIN logs /\ logs[j.pos].event = "VaultOwnershipTransferred" /\ logs[j.pos].block = j.block
    BY <1>2, <1>r DEF VaultOwnershipTransferredWrite, At, JobOK
  <2>3. o \in Owners /\ \E m \in moments : m.block = j.block /\ m.owner = o /\ m.connected
    BY <2>2 DEF IInv, ChainInv, LogOK
  <2> HIDE DEF o
  <2>4. /\ RowOK(UpdateVaultOwnership(row, j.block, o, FALSE), moments, recovered)
        /\ RowStep(row, UpdateVaultOwnership(row, j.block, o, FALSE))
    BY <1>r, <2>3, UpdateVaultOwnershipOK
  <2> QED
    BY <1>2, <2>1, <2>4, WritesRowOK DEF VaultOwnershipTransferredWrite, o
<1>3. CASE DisconnectStep(j)
  <2>1. NewJobsOK
    BY <1>3, FinishOK DEF DisconnectStep
  <2>2. RowOK(DisconnectVault(row, j.block, owner), moments, recovered)
        /\ RowStep(row, DisconnectVault(row, j.block, owner))
    BY <1>r, <1>o, DisconnectVaultOK
  <2> QED
    BY <1>3, <2>1, <2>2, WritesRowOK DEF DisconnectStep, owner, s
<1>4. CASE GetOrCreateFind(j)
  <2>1. CASE row.exists
    <3>1. NewJobsOK
      BY <1>4, <2>1, AfterCreateOK DEF GetOrCreateFind, At
    <3> QED
      BY <1>4, <3>1, WritesNothingOK DEF GetOrCreateFind
  <2>2. CASE ~row.exists
    <3>1. NewJobsOK
      BY <1>4, <2>2, <1>r, <1>p, GotoOK DEF GetOrCreateFind, At, JobOK
    <3> QED
      BY <1>4, <3>1, WritesNothingOK DEF GetOrCreateFind
  <2> QED
    BY <2>1, <2>2
<1>5. CASE GetOrCreateInsert(j)
  <2>1. CASE row.exists
    BY <1>5, <2>1, FinishOK, WritesNothingOK DEF GetOrCreateInsert
  <2>2. CASE ~row.exists
    <3>1. NewJobsOK /\ WritesRow(CreatedRow(j.kind = "metrics"))
      BY <1>5, <2>2, AfterCreateOK DEF GetOrCreateInsert, At
    <3>2. (j.kind = "metrics") \in BOOLEAN
      OBVIOUS
    <3>3. /\ RowOK(CreatedRow(j.kind = "metrics"), moments, recovered)
          /\ RowStep(row, CreatedRow(j.kind = "metrics"))
      BY <1>r, <2>2, <3>2, CreatedRowOK
    <3> QED
      BY <3>1, <3>3, WritesRowOK
  <2> QED
    BY <2>1, <2>2
<1>6. CASE ConnectStep(j)
  <2>1. Connected(s) /\ j.val = s.conn
    BY <1>6, <1>r DEF ConnectStep, At, JobOK, s
  <2>2. NewJobsOK
    <3>1. CASE j.kind = "VaultConnected"
      BY <1>6, <3>1, <2>1, <1>r, <1>p, GotoOK DEF ConnectStep, s
    <3>2. CASE j.kind # "VaultConnected"
      BY <1>6, <3>2, FinishOK DEF ConnectStep
    <3> QED
      BY <3>1, <3>2
  <2>3. /\ RowOK(ConnectVault(row, j.block, j.val), moments, recovered)
        /\ RowStep(row, ConnectVault(row, j.block, j.val))
    BY <1>r, <1>o, <2>1, ConnectVaultOK
  <2> QED
    BY <1>6, <2>2, <2>3, WritesRowOK DEF ConnectStep
<1>7. CASE StateStep(j)
  <2>1. Connected(s) /\ j.val = s.conn
    BY <1>7, <1>r DEF StateStep, At, JobOK, s
  <2>2. NewJobsOK
    <3>1. CASE j.kind = "VaultConnected"
      BY <1>7, <3>1, <1>r, <1>p, GotoOK DEF StateStep
    <3>2. CASE j.kind # "VaultConnected"
      BY <1>7, <3>2, <2>1, <1>r, <1>p, GotoOK DEF StateStep, s
    <3> QED
      BY <3>1, <3>2
  <2>3. RowOK(row', moments, recovered') /\ RowStep(row, row')
    BY <1>7, <1>r, NoWriteOK DEF StateStep
  <2>4. \E m \in moments : m.block = stateBlock' /\ m.connected
    BY <1>7, <1>o, <2>1 DEF StateStep
  <2> QED
    BY <1>7, <1>r, <2>2, <2>3, <2>4, WorkerFrame DEF StateStep, IInv, TypeOK
<1>8. CASE RefreshMembers(j)
  <2>1. NewJobsOK
    BY <1>8, FinishOK DEF RefreshMembers
  <2>2. /\ RowOK(StoredMembers(j, ViewerOwner(s)), moments, recovered)
        /\ RowStep(row, StoredMembers(j, ViewerOwner(s)))
    BY <1>v, StoredMembersOK
  <2> QED
    BY <1>8, <2>1, <2>2, WritesRowOK DEF RefreshMembers, s
<1>9. CASE MembersSelect(j)
  <2>1. NewJobsOK
    BY <1>9, <1>p, GotoOK, FinishOK DEF MembersSelect
  <2> QED
    BY <1>9, <2>1, WritesNothingOK DEF MembersSelect
<1>10. CASE FetchVaultsDataBatch(j)
  <2>1. NewJobsOK
    <3>1. CASE Connected(s)
      BY <1>10, <3>1, <1>o, <1>p, GotoOK DEF FetchVaultsDataBatch, s
    <3>2. CASE ~Connected(s)
      BY <1>10, <3>2, <1>p, GotoOK DEF FetchVaultsDataBatch, s
    <3> QED
      BY <3>1, <3>2
  <2> QED
    BY <1>10, <2>1, WritesNothingOK DEF FetchVaultsDataBatch
<1>11. CASE ListConnectedVaults(j)
  <2>1. NewJobsOK
    BY <1>11, <1>p, GotoOK, FinishOK DEF ListConnectedVaults
  <2> QED
    BY <1>11, <2>1, WritesNothingOK DEF ListConnectedVaults
<1> QED
  BY <1>1, <1>2, <1>3, <1>4, <1>5, <1>6, <1>7, <1>8, <1>9, <1>10, <1>11

\* The steps of the log scan, the reconcile cron and the backfill.
LEMMA OwnerSyncStepOK ==
  ASSUME IInv, NEW j \in jobs,
         \/ ScanSelect(j) \/ (\E i \in DOMAIN logs : ScanApply(j, i)) \/ ScanEnd(j)
         \/ ReconcileSelect(j) \/ ReconcileWrite(j)
         \/ BackfillRecover(j) \/ BackfillMissing(j) \/ BackfillSingleVaultOwnership(j)
         \/ BackfillStaleMembers(j) \/ BackfillRepairMembers(j)
  PROVE  IInv' /\ RowStep(row, row')
<1> DEFINE s == hist[j.block]
           owner == ResolveDisconnectedEffectiveOwner(s)
<1>r. /\ RowOK(row, moments, recovered) /\ recovered \in BOOLEAN
      /\ j \in Job /\ JobOK(j) /\ j.block \in Nat /\ j.val \in Owners \cup {None}
  BY PinnedRead DEF IInv, TypeOK, Job
<1>n. RowStep(row, row)
  BY <1>r, NoWriteOK
<1>o. /\ Connected(s) => /\ s.conn \in Owners
                         /\ \E m \in moments : m.block = j.block /\ m.owner = s.conn /\ m.connected
      /\ owner \in Owners \cup {None}
      /\ owner # None => \E m \in moments : m.block = j.block /\ m.owner = owner
  BY PinnedRead
<1>p. /\ "apply" \in PCs /\ "write" \in PCs /\ "missing" \in PCs /\ "stale" \in PCs
      /\ "resolveDisconnected" \in PCs /\ "resolveConnected" \in PCs /\ "repair" \in PCs
  BY DEF PCs
<1> HIDE DEF s, owner
<1>1. CASE ScanSelect(j)
  <2>1. NewJobsOK
    BY <1>1, <1>p, GotoOK, FinishOK DEF ScanSelect
  <2> QED
    BY <1>1, <2>1, WritesNothingOK DEF ScanSelect
<1>2. ASSUME NEW i \in DOMAIN logs, ScanApply(j, i) PROVE IInv' /\ RowStep(row, row')
  <2> DEFINE o == logs[i].newOwner
             q == IF o = Hub THEN row ELSE UpdateVaultOwnership(row, logs[i].block, o, TRUE)
  <2>1. NewJobsOK
    BY <1>2, ScanAdvanceOK DEF ScanApply, At, IInv, TypeOK
  <2>2. logs[i].event = "OwnershipTransferred"
    BY <1>2 DEF ScanApply, IsNextLog, ScanWindow
  <2>3. logs[i] \in Log /\ LogOK(logs[i], moments)
    BY DEF IInv, TypeOK, ChainInv
  <2>4. logs[i].block \in Nat
    BY <2>3 DEF Log
  <2>5. o # Hub => o \in Owners /\ \E m \in moments : m.block = logs[i].block /\ m.owner = o
    BY <2>2, <2>3 DEF LogOK
  <2> HIDE DEF o
  <2>6. RowOK(q, moments, recovered) /\ RowStep(row, q)
    <3>1. CASE o = Hub
      BY <3>1, <1>r, <1>n
    <3>2. CASE o # Hub
      BY <3>2, <1>r, <2>4, <2>5, UpdateVaultOwnershipOK
    <3> QED
      BY <3>1, <3>2
  <2>7. WritesRow(q)
    BY <1>2 DEF ScanApply, o
  <2> QED
    BY <2>1, <2>6, <2>7, WritesRowOK
<1>3. CASE ScanEnd(j)
  BY <1>3, FinishOK, WritesNothingOK DEF ScanEnd
<1>4. CASE ReconcileSelect(j)
  <2>1. NewJobsOK
    BY <1>4, <1>p, GotoOK, FinishOK DEF ReconcileSelect
  <2> QED
    BY <1>4, <2>1, WritesNothingOK DEF ReconcileSelect
<1>5. CASE ReconcileWrite(j)
  <2> DEFINE q == IF owner = None THEN row ELSE UpdateVaultOwnership(row, j.block, owner, TRUE)
  <2>1. NewJobsOK
    BY <1>5, FinishOK DEF ReconcileWrite
  <2>2. RowOK(q, moments, recovered) /\ RowStep(row, q)
    <3>1. CASE owner = None
      BY <3>1, <1>r, <1>n
    <3>2. CASE owner # None
      BY <3>2, <1>r, <1>o, UpdateVaultOwnershipOK
    <3> QED
      BY <3>1, <3>2
  <2>3. WritesRow(q)
    BY <1>5 DEF ReconcileWrite, owner, s
  <2> QED
    BY <2>1, <2>2, <2>3, WritesRowOK
<1>6. CASE BackfillRecover(j)
  <2>1. NewJobsOK
    BY <1>6, <1>p, GotoOK DEF BackfillRecover
  <2>2. RowOK(row', moments, TRUE) /\ RowStep(row, row')
    BY <1>6, <1>r, BackfillMembersOwnerOK DEF BackfillRecover
  <2> QED
    BY <1>6, <2>1, <2>2, WorkerFrame DEF BackfillRecover, IInv, TypeOK
<1>7. CASE BackfillMissing(j)
  <2>1. \E pc \in {"stale", "resolveDisconnected", "resolveConnected"} : Goto(j, pc, None)
    BY <1>7 DEF BackfillMissing
  <2>2. NewJobsOK
    BY <1>7, <2>1, <1>p, GotoOK DEF BackfillMissing, At
  <2> QED
    BY <1>7, <2>2, WritesNothingOK DEF BackfillMissing
<1>8. CASE BackfillSingleVaultOwnership(j)
  <2> DEFINE q == IF j.pc = "resolveDisconnected" /\ owner # None
                  THEN DisconnectVault(row, j.block, owner)
                  ELSE IF Connected(s) THEN ConnectVault(row, j.block, s.conn)
                  ELSE row
  <2>1. NewJobsOK
    BY <1>8, <1>p, GotoOK DEF BackfillSingleVaultOwnership, At
  <2>2. RowOK(q, moments, recovered) /\ RowStep(row, q)
    <3>1. CASE j.pc = "resolveDisconnected" /\ owner # None
      BY <3>1, <1>r, <1>o, DisconnectVaultOK
    <3>2. CASE ~(j.pc = "resolveDisconnected" /\ owner # None) /\ Connected(s)
      BY <3>2, <1>r, <1>o, ConnectVaultOK
    <3>3. CASE ~(j.pc = "resolveDisconnected" /\ owner # None) /\ ~Connected(s)
      BY <3>3, <1>r, <1>n
    <3> QED
      BY <3>1, <3>2, <3>3
  <2>3. WritesRow(q)
    BY <1>8 DEF BackfillSingleVaultOwnership, owner, s
  <2> QED
    BY <2>1, <2>2, <2>3, WritesRowOK
<1>9. CASE BackfillStaleMembers(j)
  <2>1. NewJobsOK
    <3>1. CASE HasStaleMembers(row)
      <4>1. row.effectiveOwner \in Owners
        BY <3>1, <1>r DEF HasStaleMembers, RowOK, Row
      <4> QED
        BY <1>9, <3>1, <4>1, <1>p, GotoOK DEF BackfillStaleMembers, At
    <3>2. CASE ~HasStaleMembers(row)
      BY <1>9, <3>2, FinishOK DEF BackfillStaleMembers
    <3> QED
      BY <3>1, <3>2
  <2>2. RowOK(row', moments, recovered') /\ RowStep(row, row') /\ backfillDone' \in BOOLEAN
    BY <1>9, <1>r, <1>n DEF BackfillStaleMembers, IInv, TypeOK
  <2> QED
    BY <1>9, <2>1, <2>2, WorkerFrame DEF BackfillStaleMembers, IInv, TypeOK
<1>10. CASE BackfillRepairMembers(j)
  <2>1. NewJobsOK
    BY <1>10, FinishOK DEF BackfillRepairMembers
  <2>2. j.val \in Owners
    BY <1>10, <1>r DEF BackfillRepairMembers, At, JobOK
  <2>3. RowOK(row', moments, recovered') /\ RowStep(row, row')
    BY <1>10, <1>r, <2>2, SetMembersOK DEF BackfillRepairMembers
  <2> QED
    BY <1>10, <2>1, <2>3, WorkerFrame DEF BackfillRepairMembers, IInv, TypeOK
<1> QED
  BY <1>1, <1>2, <1>3, <1>4, <1>5, <1>6, <1>7, <1>8, <1>9, <1>10

\* Failures of a job.
LEMMA JobFaultOK ==
  ASSUME IInv, NEW j \in jobs, JobFault(j)
  PROVE  IInv' /\ RowStep(row, row')
<1>r. RowOK(row, moments, recovered) /\ recovered \in BOOLEAN /\ j.block \in Nat
  BY PinnedRead DEF IInv, TypeOK
<1>n. RowStep(row, row)
  BY <1>r, NoWriteOK
<1>1. CASE JobFails(j)
  <2>1. NewJobsOK
    BY <1>1, FinishOK DEF JobFails
  <2>2. RowOK(row', moments, recovered) /\ RowStep(row, row')
    BY <1>1, <1>r, <1>n DEF JobFails
  <2> QED
    BY <1>1, <2>1, <2>2, FaultOK DEF JobFails
<1>2. CASE DisconnectOwnerReadFails(j)
  <2>1. NewJobsOK
    BY <1>2, FinishOK DEF DisconnectOwnerReadFails
  <2>2. RowOK(row', moments, recovered) /\ RowStep(row, row')
    BY <1>2, <1>r, DisconnectVaultOK DEF DisconnectOwnerReadFails
  <2> QED
    BY <1>2, <2>1, <2>2, FaultOK DEF DisconnectOwnerReadFails
<1>3. CASE BatchReadFails(j)
  <2>0. "list" \in PCs
    BY DEF PCs
  <2>1. NewJobsOK
    BY <1>3, <2>0, GotoOK DEF BatchReadFails
  <2>2. RowOK(row', moments, recovered) /\ RowStep(row, row')
    BY <1>3, <1>r, <1>n DEF BatchReadFails
  <2> QED
    BY <1>3, <2>1, <2>2, FaultOK DEF BatchReadFails
<1>4. CASE ViewerAnswersZero(j)
  <2>1. NewJobsOK
    BY <1>4, FinishOK DEF ViewerAnswersZero
  <2>2. RowOK(row', moments, recovered) /\ RowStep(row, row')
    BY <1>4, StoredMembersOK DEF ViewerAnswersZero
  <2> QED
    BY <1>4, <2>1, <2>2, FaultOK DEF ViewerAnswersZero
<1>5. ASSUME NEW i \in DOMAIN logs, ScanWriteFails(j, i) PROVE IInv' /\ RowStep(row, row')
  <2>1. NewJobsOK
    BY <1>5, ScanAdvanceOK DEF ScanWriteFails, At, IInv, TypeOK
  <2>2. RowOK(row', moments, recovered) /\ RowStep(row, row')
    BY <1>5, <1>r, <1>n DEF ScanWriteFails
  <2> QED
    BY <1>5, <2>1, <2>2, FaultOK DEF ScanWriteFails
<1> QED
  BY <1>1, <1>2, <1>3, <1>4, <1>5 DEF JobFault

\* A job that starts.
LEMMA StartOK ==
  ASSUME IInv, NEW kind \in JobKinds, NEW block \in Nat, block <= height, NEW pos \in Nat,
         kind = "VaultOwnershipTransferred" =>
           pos \in DOMAIN logs /\ logs[pos].event = kind /\ logs[pos].block = block,
         Start(kind, block, pos)
  PROVE  NewJobsOK
<1> DEFINE k == [kind |-> kind, block |-> block, pc |-> FirstStep[kind], val |-> None, pos |-> pos]
<1>1. /\ FirstStep[kind] \in PCs /\ FirstStep[kind] # "repair"
      /\ kind \in {"VaultConnected", "vaults"} =>
           FirstStep[kind] \notin {"find", "insert", "connect", "state"}
  BY DEF FirstStep, PCs, JobKinds, CronKinds, HubEvents
<1>2. /\ k \in Job /\ k.kind = kind /\ k.block = block /\ k.pos = pos
      /\ k.pc = FirstStep[kind] /\ k.val = None
  BY <1>1 DEF Job
<1> HIDE DEF k
<1>3. JobOK(k)
  BY <1>1, <1>2 DEF JobOK
<1> QED
  BY <1>2, <1>3 DEF NewJobsOK, Start, k, IInv, TypeOK, JobInv

\* A log is delivered, a cron fires, the worker dies.
LEMMA WorkerEventOK ==
  ASSUME IInv,
         \/ \E i \in DOMAIN logs : DeliverEvent(i)
         \/ \E k \in CronKinds : CronTick(k)
         \/ WorkerDies
  PROVE  IInv' /\ RowStep(row, row')
<1>r. RowOK(row, moments, recovered) /\ RowStep(row, row)
  BY NoWriteOK DEF IInv, TypeOK
<1>1. ASSUME NEW i \in DOMAIN logs, DeliverEvent(i) PROVE IInv' /\ RowStep(row, row')
  <2>1. logs[i] \in Log /\ i \in Nat /\ i \in 1..Len(logs)
    BY DEF IInv, TypeOK
  <2>2. logs[i].block \in Nat /\ logs[i].event \in JobKinds
    BY <1>1, <2>1, JobsAssumption DEF Log, DeliverEvent
  <2>3. NewJobsOK
    BY <1>1, <2>1, <2>2, StartOK DEF DeliverEvent
  <2>4. handled' \subseteq 1..Len(logs)
    BY <1>1, <2>1 DEF DeliverEvent, IInv, TypeOK
  <2> QED
    BY <1>1, <1>r, <2>3, <2>4, WorkerFrame DEF DeliverEvent, IInv, TypeOK
<1>2. ASSUME NEW k \in CronKinds, CronTick(k) PROVE IInv' /\ RowStep(row, row')
  <2>1. SafeBlock \in Nat /\ SafeBlock <= height
    BY ChainAssumption, JobsAssumption DEF SafeBlock, IInv, TypeOK, Blocks
  <2>2. k \in JobKinds /\ k # "VaultOwnershipTransferred"
    BY DEF CronKinds, JobKinds
  <2>3. NewJobsOK
    BY <1>2, <2>1, <2>2, StartOK DEF CronTick
  <2> QED
    BY <1>2, <1>r, <2>3, WorkerFrame DEF CronTick, IInv, TypeOK
<1>3. CASE WorkerDies
  <2>1. NewJobsOK
    BY <1>3 DEF WorkerDies, NewJobsOK
  <2>2. DOMAIN logs = 1..Len(logs) /\ handled \subseteq 1..Len(logs)
    BY DEF IInv, TypeOK
  <2>3. handled' \subseteq 1..Len(logs)
    BY <1>3, <2>2 DEF WorkerDies
  <2>4. faults' \in 0..MaxFaults
    BY <1>3, JobsAssumption DEF WorkerDies, Fault, IInv, TypeOK
  <2> QED
    BY <1>3, <1>r, <2>1, <2>3, <2>4, WorkerFrame DEF WorkerDies, IInv, TypeOK
<1> QED
  BY <1>1, <1>2, <1>3

-----------------------------------------------------------------------------
\* The theorems.

\* Every initial state satisfies the invariant: the worker may start with an empty
\* table or with a row that predates the ownership columns.
LEMMA InitOK == Init => IInv
<1> SUFFICES ASSUME Init PROVE IInv
  OBVIOUS
<1>1. PICK o \in Owners : tip \in {[conn |-> None, owner |-> o, pending |-> None],
                                   [conn |-> o, owner |-> Hub, pending |-> None]}
  BY DEF Init, ChainInit
<1>2. tip \in VaultOnChain /\ WellFormed(tip)
  BY <1>1, AddressAssumption DEF VaultOnChain, WellFormed, Connected
<1>3. height = 0 /\ 0 \in Blocks /\ hist = [b \in Blocks |-> tip] /\ logs = <<>>
      /\ moments = {MomentOf(0, tip)}
  BY ChainAssumption DEF Init, ChainInit, Blocks
<1>4. MomentOf(0, tip) \in Moment
  BY <1>2, OwnerOfType DEF MomentOf, Moment, Connected
<1>5. RowOK(row, moments, recovered) /\ row \in Row /\ recovered \in BOOLEAN
  <2>1. CASE row = NoRow
    <3>1. /\ row \in Row /\ ~row.exists /\ row.ownerSeen = 0 /\ row.ownershipBlock = 0
          /\ row.effectiveOwner = None /\ row.membersOwner = None /\ row.members = None
      BY <2>1 DEF NoRow, Row
    <3>2. recovered \in BOOLEAN
      BY <3>1 DEF Init
    <3>3. ~IsListedConnected(row)
      BY <3>1 DEF IsListedConnected
    <3>4. RowOK(row, moments, recovered)
      BY <2>1, <3>1, <3>3, AddressAssumption DEF RowOK
    <3> QED
      BY <3>1, <3>2, <3>4
  <2>2. ASSUME NEW d \in BOOLEAN, NEW m \in Owners \cup {None, Zero}, row = LegacyRow(d, m)
        PROVE  RowOK(row, moments, recovered) /\ row \in Row /\ recovered \in BOOLEAN
    <3>1. /\ row \in Row /\ row.exists /\ row.ownerSeen = 0 /\ row.ownershipBlock = 0
          /\ row.effectiveOwner = None /\ row.membersOwner = None
      BY <2>2 DEF LegacyRow, NoRow, Row
    <3>2. recovered = FALSE
      BY <3>1 DEF Init
    <3>3. row.ownerSeen <= row.ownershipBlock /\ ~(row.ownershipBlock > 0)
      BY <3>1
    <3>4. RowOK(row, moments, recovered)
      BY <3>1, <3>2, <3>3 DEF RowOK
    <3> QED
      BY <3>1, <3>2, <3>4
  <2> QED
    BY <2>1, <2>2 DEF Init
<1>6. TypeOK
  BY <1>2, <1>3, <1>4, <1>5, JobsAssumption DEF Init, TypeOK
<1>7. ChainInv
  BY <1>2, <1>3 DEF ChainInv
<1>8. JobInv
  BY DEF Init, JobInv
<1>9. StateTakenWhileConnected
  BY DEF Init, StateTakenWhileConnected
<1> QED
  BY <1>5, <1>6, <1>7, <1>8, <1>9 DEF IInv

\* Every step keeps the invariant and treats the row as it should.
LEMMA NextOK ==
  ASSUME IInv, [Next]_vars
  PROVE  IInv' /\ RowStep(row, row')
<1>1. CASE ChainStep
  <2>1. row' = row /\ RowStep(row, row)
    BY <1>1, NoWriteOK DEF ChainStep, workerVars, IInv, TypeOK
  <2> QED
    BY <1>1, <2>1, ChainStepOK
<1>2. CASE (\E i \in DOMAIN logs : DeliverEvent(i)) \/ (\E k \in CronKinds : CronTick(k)) \/ WorkerDies
  BY <1>2, WorkerEventOK
<1>3. ASSUME NEW j \in jobs, JobStep(j) PROVE IInv' /\ RowStep(row, row')
  BY <1>3, HandlerStepOK, OwnerSyncStepOK DEF JobStep
<1>4. ASSUME NEW j \in jobs, JobFault(j) PROVE IInv' /\ RowStep(row, row')
  BY <1>4, JobFaultOK
<1>5. CASE UNCHANGED vars
  <2>1. UNCHANGED <<chainVars, row, stateBlock, jobs, handled, backfillDone, recovered, faults>>
    BY <1>5 DEF vars, workerVars
  <2>2. NewJobsOK
    BY <2>1 DEF NewJobsOK, IInv, TypeOK, JobInv
  <2> QED
    BY <2>1, <2>2, WritesNothingOK DEF WritesNothing
<1> QED
  BY <1>1, <1>2, <1>3, <1>4, <1>5 DEF Next

\* The history of the vault grows by chain steps only, which leave the row alone.
LEMMA HistoryFrame ==
  ASSUME [Next]_vars
  PROVE  (UNCHANGED moments) \/ (moments \subseteq moments' /\ UNCHANGED row)
<1>1. CASE ChainStep
  <2>1. moments \subseteq moments'
    BY <1>1 DEF ChainStep, ChainNext, HubConnect, HubTransfer, HubDisconnect, VaultOffer, VaultAccept,
                SealBlock, Transact
  <2> QED
    BY <1>1, <2>1 DEF ChainStep, workerVars
<1>2. CASE (\E i \in DOMAIN logs : DeliverEvent(i)) \/ (\E k \in CronKinds : CronTick(k)) \/ WorkerDies
  BY <1>2 DEF DeliverEvent, CronTick, WorkerDies, chainVars
<1>3. ASSUME NEW j \in jobs, JobStep(j) PROVE UNCHANGED moments
  <2> USE DEF WritesRow, WritesNothing, chainVars
  <2>1. CASE \/ VaultConnectedRead(j) \/ VaultOwnershipTransferredWrite(j) \/ DisconnectStep(j)
             \/ GetOrCreateFind(j) \/ GetOrCreateInsert(j) \/ ConnectStep(j) \/ StateStep(j)
    BY <2>1 DEF VaultConnectedRead, VaultOwnershipTransferredWrite, DisconnectStep, GetOrCreateFind,
                GetOrCreateInsert, ConnectStep, StateStep
  <2>2. CASE \/ RefreshMembers(j) \/ MembersSelect(j) \/ FetchVaultsDataBatch(j) \/ ListConnectedVaults(j)
             \/ ScanSelect(j) \/ (\E i \in DOMAIN logs : ScanApply(j, i)) \/ ScanEnd(j)
             \/ ReconcileSelect(j) \/ ReconcileWrite(j)
    BY <2>2 DEF RefreshMembers, MembersSelect, FetchVaultsDataBatch, ListConnectedVaults, ScanSelect,
                ScanApply, ScanEnd, ReconcileSelect, ReconcileWrite
  <2>3. CASE \/ BackfillRecover(j) \/ BackfillMissing(j) \/ BackfillSingleVaultOwnership(j)
             \/ BackfillStaleMembers(j) \/ BackfillRepairMembers(j)
    BY <2>3 DEF BackfillRecover, BackfillMissing, BackfillSingleVaultOwnership, BackfillStaleMembers,
                BackfillRepairMembers
  <2> QED
    BY <1>3, <2>1, <2>2, <2>3 DEF JobStep
<1>4. ASSUME NEW j \in jobs, JobFault(j) PROVE UNCHANGED moments
  BY <1>4 DEF JobFault, JobFails, DisconnectOwnerReadFails, BatchReadFails, ViewerAnswersZero,
              ScanWriteFails, chainVars
<1>5. CASE UNCHANGED vars
  BY <1>5 DEF vars, chainVars
<1> QED
  BY <1>1, <1>2, <1>3, <1>4, <1>5 DEF Next

\* The invariant holds in every reachable state.
THEOREM Invariance == Spec => []IInv
<1>1. IInv /\ [Next]_vars => IInv'
  BY NextOK
<1> QED
  BY <1>1, InitOK, PTL DEF Spec

\* Every variable of chain and worker keeps its type in every interleaving.
THEOREM TypeCorrect == Spec => []TypeOK
<1>1. IInv => TypeOK
  BY DEF IInv
<1> QED
  BY <1>1, Invariance, PTL

\* The recorded owner was the owner during the block of the update that recorded it.
THEOREM OwnerIsFaithful == Spec => []OwnerFaithful
<1>1. IInv => OwnerFaithful
  BY DEF IInv, RowOK, OwnerFaithful
<1> QED
  BY <1>1, Invariance, PTL

\* A row listed as connected was connected during the block of its last update.
THEOREM ConnectedFlagIsFaithful == Spec => []ConnectedFlagFaithful
<1>1. IInv => ConnectedFlagFaithful
  BY DEF IInv, RowOK, ConnectedFlagFaithful
<1> QED
  BY <1>1, Invariance, PTL

\* The stored state belongs to a block in which the vault was connected.
THEOREM StateIsTakenWhileConnected == Spec => []StateTakenWhileConnected
<1>1. IInv => StateTakenWhileConnected
  BY DEF IInv
<1> QED
  BY <1>1, Invariance, PTL

\* Roles recorded through a previous owner grant no access.
THEOREM RoleAccessIsSound == Spec => []RoleAccessSound
<1>1. IInv => RoleAccessSound
  BY DEF IInv, RowOK, RoleAccessSound, RoleAccess, MembersOwnerIsCurrent
<1> QED
  BY <1>1, Invariance, PTL

\* No update read at an older block replaces one read at a newer block.
THEOREM OlderWritesLose == Spec => OlderNeverOverwrites
<1>1. IInv /\ [Next]_vars =>
        [/\ row'.ownershipBlock >= row.ownershipBlock
         /\ row'.ownerSeen >= row.ownerSeen
         /\ row'.membersBlock >= row.membersBlock]_vars
  BY NextOK DEF RowStep
<1> QED
  BY <1>1, Invariance, PTL DEF Spec, OlderNeverOverwrites

\* Stored members are replaced only by roles an owner answered for.
THEOREM MembersAreNeverWiped == Spec => MembersNeverWiped
<1>1. IInv /\ [Next]_vars => [row'.members # row.members => row'.members \in Owners]_vars
  BY NextOK DEF RowStep
<1> QED
  BY <1>1, Invariance, PTL DEF Spec, MembersNeverWiped

\* The owner column implements the register of OwnershipRegister.  The row of the first
\* state names no owner; a step that touches the owner records one the history vouches
\* for (OwnerFaithful after the step) under a block that has not gone back (RowStep).
THEOREM RowImplementsRegister == Spec => ImplementsRegister
<1>1. ASSUME Init PROVE Register!Init
  <2>1. CASE row = NoRow
    BY <2>1 DEF Register!Init, NoRow
  <2>2. ASSUME NEW d \in BOOLEAN, NEW m \in Owners \cup {None, Zero}, row = LegacyRow(d, m)
        PROVE  Register!Init
    BY <2>2 DEF Register!Init, NoRow, LegacyRow
  <2> QED
    BY <1>1, <2>1, <2>2 DEF Init
<1>2. IInv /\ IInv' /\ [Next]_vars => [Register!Next]_(Register!vars)
  <2> SUFFICES ASSUME IInv, IInv', [Next]_vars PROVE [Register!Next]_(Register!vars)
    OBVIOUS
  <2>1. RowStep(row, row')
    BY NextOK
  <2>2. CASE moments \subseteq moments' /\ row'.effectiveOwner = row.effectiveOwner
             /\ row'.ownerSeen = row.ownerSeen
    BY <2>2 DEF Register!Next, Register!Learn
  <2>3. CASE moments' = moments /\ row'.effectiveOwner # None
    <3>1. PICK m \in moments : m.block = row'.ownerSeen /\ m.owner = row'.effectiveOwner
      BY <2>3 DEF IInv, RowOK
    <3>2. m.block >= row.ownerSeen
      BY <3>1, <2>1 DEF RowStep
    <3>3. m.owner \in Owners
      BY <3>1, <2>3 DEF IInv, RowOK, Row
    <3>4. Register!Record(m)
      BY <3>1, <3>2, <3>3, <2>3 DEF Register!Record
    <3> QED
      BY <3>4 DEF Register!Next
  <2> QED
    BY <2>1, <2>2, <2>3, HistoryFrame DEF RowStep
<1> QED
  BY <1>1, <1>2, Invariance, PTL DEF Spec, ImplementsRegister, Register!Spec
=============================================================================
