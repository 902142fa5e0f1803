---------------------------- MODULE CronBatches ----------------------------
(***************************************************************************)
(* The vaults cron and the members cron over several vaults: batches at a  *)
(* fixed block, batches and vaults that fail without stopping the others,  *)
(* the detection of disconnected vaults, minimal mode, and pages by offset *)
(* over a filter whose rows change.  The handlers of VaultConnected,       *)
(* VaultDisconnectCompleted and VaultOwnershipTransferred and the jobs     *)
(* that follow the owners of disconnected vaults change the rows           *)
(* meanwhile; VaultOwnership has their steps for one vault, here an event  *)
(* is one step, except for the retried read of the role members.           *)
(***************************************************************************)
EXTENDS Integers, Sequences, FiniteSets, Functions

CONSTANTS
  Vaults,         \* the vaults
  FirstList,      \* the ones VaultHub lists at first, in its order
  BatchSize,      \* VAULTS_BATCH_SIZE
  MembersBatch,   \* VAULT_MEMBERS_BATCH_SIZE
  Settings,       \* <<crons that fire, MINIMAL_VAULTS_FETCHING_MODE_COUNT>> considered
  Attempts,       \* attempts of rpcCallWithRetry
  MaxBlock,       \* bound: blocks and ownership transfers of connected vaults together
  MaxFaults       \* bound: failed reads and writes

\* The code does not enforce that batches are positive.
ASSUME CronBatchesAssumption ==
  /\ BatchSize \in Nat \ {0} /\ MembersBatch \in Nat \ {0} /\ Attempts \in Nat \ {0}
  /\ IsFiniteSet(Vaults) /\ FirstList \in Seq(Vaults)
  /\ \A i, j \in DOMAIN FirstList : i # j => FirstList[i] # FirstList[j]
  /\ Settings \subseteq (SUBSET {"vaults", "members"}) \X Nat
  /\ MaxBlock \in Nat \ {0} /\ MaxFaults \in Nat

VARIABLES
  lists,    \* block -> the vaults VaultHub lists, in its order
  events,   \* undelivered events <<vault, block>> of vaults that came or left
  transfers,\* undelivered VaultOwnershipTransferred <<vault, block>>
  sent,     \* how many of them so far
  row,      \* the vaults row of each vault with the block of its state and members
  reading,  \* the handler's retried read of the role members of a vault
  vaults,   \* the run of fetchAllVaultsAndCalculateStates
  members,  \* the run of fetchAllVaultsRoleMembers
  crons,    \* the crons that fire in this behaviour
  minimal,  \* MINIMAL_VAULTS_FETCHING_MODE_COUNT
  missed,   \* history: <<vault, block>> of batches that could not be read
  faults    \* how many faults so far

vars == <<lists, events, transfers, sent, row, reading, vaults, members, crons, minimal,
          missed, faults>>
chain == <<lists, events, transfers, sent>>
\* Fixed for a behaviour.
settings == <<crons, minimal>>

Min(a, b) == IF a < b THEN a ELSE b
Slice(s, offset, limit) == SubSeq(s, offset + 1, Min(offset + limit, Len(s)))

Latest == Len(lists)
Listed(v, block) == v \in Range(lists[block])

\* In the course of a block a vault is where it was at the end of the one before, then where
\* it is at its own end.
ListedDuring(v, block) == Listed(v, block) \/ (block > 1 /\ Listed(v, block - 1))
UnlistedDuring(v, block) == ~Listed(v, block) \/ (block > 1 /\ ~Listed(v, block - 1))

\* getSafeBlockNumber: behind the head.
SafeBlock == IF Latest > 1 THEN Latest - 1 ELSE 1

\* block is ownership_block_number; flag is history, the block disconnected was written for.
Row == [id : 0..Cardinality(Vaults), disconnected : BOOLEAN, flag : 0..MaxBlock,
        block : 0..MaxBlock, state : 0..MaxBlock, members : 0..MaxBlock]

NoRow == [id |-> 0, disconnected |-> FALSE, flag |-> 0, block |-> 0, state |-> 0, members |-> 0]

Position(v) == CHOOSE i \in DOMAIN FirstList : FirstList[i] = v

VaultsRun == [pc : {"idle", "batch", "item", "disconnect", "end"},
              block : 0..MaxBlock, limit : 0..Cardinality(Vaults), offset : Nat,
              items : Seq(Vaults), seen : SUBSET Vaults, unsaved : SUBSET Vaults,
              late : SUBSET Vaults]  \* history: an older event overwrote the state since

MembersRun == [pc : {"idle", "page", "save", "end"},
               block : 0..MaxBlock, limit : 0..Cardinality(Vaults), offset : Nat,
               page : Seq(Vaults), visited : SUBSET Vaults,
               stayed : SUBSET Vaults,  \* history: connected in the table since the start
               moves : Nat]             \* history: rows that entered or left the filter

NoVaultsRun == [pc |-> "idle", block |-> 0, limit |-> 0, offset |-> 0, items |-> << >>,
                seen |-> {}, unsaved |-> {}, late |-> {}]
NoMembersRun == [pc |-> "idle", block |-> 0, limit |-> 0, offset |-> 0, page |-> << >>,
                 visited |-> {}, stayed |-> {}, moves |-> 0]

Init ==
  /\ lists = <<FirstList>>
  /\ events = {} /\ transfers = {} /\ sent = 0
  /\ row = [v \in Vaults |-> IF v \in Range(FirstList)
                             THEN [id |-> Position(v), disconnected |-> FALSE, flag |-> 1,
                                   block |-> 1, state |-> 1, members |-> 1]
                             ELSE NoRow]
  /\ reading = [v \in Vaults |-> [attempt |-> 0, block |-> 0]]
  /\ vaults = NoVaultsRun
  /\ members = NoMembersRun
  /\ \E s \in Settings : crons = s[1] /\ minimal = s[2]
  /\ missed = {}
  /\ faults = 0

Fault == faults < MaxFaults /\ faults' = faults + 1

(***************************************************************************)
(* The table.                                                              *)
(***************************************************************************)
InFilter(r) == r.id # 0 /\ ~r.disconnected

\* A write, and what a members run under way remembers of it.
Write(v, new) ==
  /\ row' = [row EXCEPT ![v] = new]
  /\ members' = IF members.pc = "idle" \/ InFilter(row[v]) = InFilter(new) THEN members
                ELSE [members EXCEPT !.moves = @ + 1, !.stayed = @ \ {v}]

\* updateVaultOwnershipColumns of connectVault and disconnectVault; the owner is the
\* subject of VaultOwnership.
SetFlag(r, block, disconnected) ==
  IF r.id # 0 /\ r.block <= block
  THEN [r EXCEPT !.disconnected = disconnected, !.flag = block, !.block = block]
  ELSE r

\* The same of updateVaultOwnership: the block moves, the flag stays.
SetOwner(r, block) == IF r.id # 0 /\ r.block <= block THEN [r EXCEPT !.block = block] ELSE r

\* The row, or the one inserted with the next id.
GetOrCreate(v) ==
  IF row[v].id # 0 THEN row[v]
  ELSE [NoRow EXCEPT !.id = 1 + Cardinality({w \in Vaults : row[w].id # 0})]

SetMembers(r, block) == IF r.id # 0 /\ r.members <= block THEN [r EXCEPT !.members = block] ELSE r

\* getVaultsCount and getVaults: the filtered rows by id, a page of them.
Connected == {v \in Vaults : InFilter(row[v])}
Rank(v, S) == Cardinality({w \in S : row[w].id <= row[v].id})
ById(S) == [i \in 1..Cardinality(S) |-> CHOOSE v \in S : Rank(v, S) = i]
Filtered == ById(Connected)

(***************************************************************************)
(* The chain, external, and the handlers.                                  *)
(***************************************************************************)
\* VaultHub moves its last vault to the place of the one that leaves.
Without(s, v) ==
  LET last == s[Len(s)]
  IN SubSeq([i \in DOMAIN s |-> IF s[i] = v THEN last ELSE s[i]], 1, Len(s) - 1)

\* At most one vault comes or leaves in a block, once.  Others may change hands, before they
\* leave or after they come.
Mine(list, emitted) ==
  /\ lists' = Append(lists, list)
  /\ events' = events \cup {<<v, Latest + 1>> : v \in emitted}
  /\ \E T \in SUBSET (Range(lists[Latest]) \cup Range(list)) :
       /\ transfers' = transfers \cup {<<v, Latest + 1>> : v \in T}
       /\ sent' = sent + Cardinality(T)
  /\ Latest + sent' < MaxBlock
  /\ UNCHANGED <<row, reading, vaults, members, settings, missed, faults>>

HubConnects(v) == ~Listed(v, Latest) /\ Mine(Append(lists[Latest], v), {v})
HubDisconnects(v) == Listed(v, Latest) /\ Mine(Without(lists[Latest], v), {v})
HubKeepsList == Mine(lists[Latest], {})

\* Events arrive in any order; nothing says that they do, so that any may be lost.
Deliver(v, block) ==
  /\ <<v, block>> \in events
  /\ events' = events \ {<<v, block>>}
  /\ IF Listed(v, block)
     THEN /\ Write(v, [SetFlag(GetOrCreate(v), block, FALSE) EXCEPT !.state = block])
          /\ reading' = [reading EXCEPT ![v] = [attempt |-> 1, block |-> block]]
          /\ vaults' = IF v \in vaults.seen /\ block < vaults.block
                       THEN [vaults EXCEPT !.late = @ \cup {v}]
                       ELSE vaults
     ELSE /\ Write(v, SetFlag(row[v], block, TRUE))
          /\ UNCHANGED <<reading, vaults>>
  /\ UNCHANGED <<lists, transfers, sent, settings, missed, faults>>

\* The handler of VaultOwnershipTransferred, then the retried read: not a word of the flag.
DeliverTransfer(v, block) ==
  /\ <<v, block>> \in transfers
  /\ transfers' = transfers \ {<<v, block>>}
  /\ Write(v, SetOwner(row[v], block))
  /\ reading' = [reading EXCEPT ![v] = [attempt |-> 1, block |-> block]]
  /\ UNCHANGED <<lists, events, sent, vaults, settings, missed, faults>>

\* The owner of a disconnected row as of a safe block at which the vault was not the hub's:
\* log scan and reconcile cron, both onlyDisconnected.
SyncOwner(v, block) ==
  /\ block <= SafeBlock /\ row[v].disconnected /\ UnlistedDuring(v, block)
  /\ Write(v, SetOwner(row[v], block))
  /\ UNCHANGED <<chain, reading, vaults, settings, missed, faults>>

\* isResolved: VaultViewer answers zero addresses for a vault that is not connected.
IsResolved(v, block) == Listed(v, block)

\* rpcCallWithRetry around roleMembers: the first answer that resolves is saved.
AttemptSucceeds(v) ==
  /\ reading[v].attempt # 0 /\ IsResolved(v, reading[v].block)
  /\ Write(v, SetMembers(row[v], reading[v].block))
  /\ reading' = [reading EXCEPT ![v] = [attempt |-> 0, block |-> 0]]
  /\ UNCHANGED <<chain, vaults, settings, missed, faults>>

NextAttempt(r) ==
  IF r.attempt < Attempts THEN [r EXCEPT !.attempt = @ + 1] ELSE [attempt |-> 0, block |-> 0]

\* An error or an answer of zero addresses: the next attempt, or none.
AttemptFails(v) ==
  /\ reading[v].attempt # 0
  /\ IF IsResolved(v, reading[v].block) THEN Fault ELSE UNCHANGED faults
  /\ reading' = [reading EXCEPT ![v] = NextAttempt(@)]
  /\ UNCHANGED <<chain, row, vaults, members, settings, missed>>

(***************************************************************************)
(* fetchAllVaultsAndCalculateStates.                                       *)
(***************************************************************************)
Limit(count) == IF minimal > 0 /\ count > 0 THEN Min(minimal, count) ELSE count

\* The loop's increment, also after continue.
Advance(run, size) == [run EXCEPT !.offset = @ + size]

\* vaultsCount at the safe block; when it cannot be read the run is over at once.
StartVaults ==
  /\ vaults.pc = "idle" /\ "vaults" \in crons
  /\ vaults' = [NoVaultsRun EXCEPT !.pc = "batch", !.block = SafeBlock,
                                   !.limit = Limit(Len(lists[SafeBlock]))]
  /\ UNCHANGED <<chain, row, reading, members, settings, missed, faults>>

VaultsBatch == Slice(lists[vaults.block], vaults.offset, Min(BatchSize, vaults.limit - vaults.offset))

ReadBatch ==
  /\ vaults.pc = "batch" /\ vaults.offset < vaults.limit
  /\ vaults' = [vaults EXCEPT !.pc = "item", !.items = VaultsBatch]
  /\ UNCHANGED <<chain, row, reading, members, settings, missed, faults>>

BatchFails ==
  /\ vaults.pc = "batch" /\ vaults.offset < vaults.limit /\ Fault
  /\ vaults' = Advance(vaults, BatchSize)
  /\ missed' = missed \cup {<<v, vaults.block>> : v \in Range(VaultsBatch)}
  /\ UNCHANGED <<chain, row, reading, members, settings>>

\* After an item the next one, after the last one the next batch.
NextItem(run) ==
  IF Len(run.items) > 1 THEN [run EXCEPT !.items = Tail(@)]
  ELSE [Advance(run, BatchSize) EXCEPT !.items = << >>, !.pc = "batch"]

\* Mutant: the state of a vault that is stored already is not refreshed.
SaveItemOnce ==
  LET v == vaults.items[1]
  IN /\ vaults.pc = "item"
     /\ vaults' = [NextItem(vaults) EXCEPT !.seen = @ \cup {v}]
     /\ Write(v, [SetFlag(GetOrCreate(v), vaults.block, FALSE) EXCEPT
                   !.state = IF @ = 0 THEN vaults.block ELSE @])
     /\ UNCHANGED <<chain, reading, settings, missed, faults>>

\* One vault of the batch: its row, its state without a guard on the block, its flag.
SaveItem ==
  LET v == vaults.items[1]
  IN /\ vaults.pc = "item"
     /\ vaults' = [NextItem(vaults) EXCEPT !.seen = @ \cup {v}]
     /\ Write(v, [SetFlag(GetOrCreate(v), vaults.block, FALSE) EXCEPT !.state = vaults.block])
     /\ UNCHANGED <<chain, reading, settings, missed, faults>>

\* The exception is logged and the next vault comes; the vault counts as seen, and the
\* writes before the one that failed stay.
ItemFails ==
  LET v == vaults.items[1]
  IN /\ vaults.pc = "item" /\ Fault
     /\ vaults' = [NextItem(vaults) EXCEPT !.seen = @ \cup {v}, !.unsaved = @ \cup {v}]
     /\ \E written \in {row[v], GetOrCreate(v), [GetOrCreate(v) EXCEPT !.state = vaults.block]} :
          Write(v, written)
     /\ UNCHANGED <<chain, reading, settings, missed>>

\* Mutant: the detection also runs in minimal mode.
DetectAlways == TRUE

\* Mutant: the detection never runs.
DetectNever == FALSE

\* Only after a full list.
DetectsDisconnected == vaults.limit = Len(lists[vaults.block])

\* The connected rows that no batch has returned.
Detect ==
  /\ vaults.pc = "batch" /\ vaults.offset >= vaults.limit
  /\ LET unseen == ById(Connected \ vaults.seen)
     IN vaults' = IF DetectsDisconnected /\ unseen # << >>
                  THEN [vaults EXCEPT !.pc = "disconnect", !.items = unseen]
                  ELSE [vaults EXCEPT !.pc = "end"]
  /\ UNCHANGED <<chain, row, reading, members, settings, missed, faults>>

NextUnseen(run) ==
  IF Len(run.items) > 1 THEN [run EXCEPT !.items = Tail(@)]
  ELSE [run EXCEPT !.items = << >>, !.pc = "end"]

DisconnectUnlisted ==
  /\ vaults.pc = "disconnect"
  /\ vaults' = NextUnseen(vaults)
  /\ Write(vaults.items[1], SetFlag(row[vaults.items[1]], vaults.block, TRUE))
  /\ UNCHANGED <<chain, reading, settings, missed, faults>>

\* The owner cannot be read: the next vault comes.
DisconnectFails ==
  /\ vaults.pc = "disconnect" /\ Fault
  /\ vaults' = NextUnseen(vaults)
  /\ UNCHANGED <<chain, row, reading, members, settings, missed>>

EndVaults ==
  /\ vaults.pc = "end"
  /\ vaults' = NoVaultsRun
  /\ UNCHANGED <<chain, row, reading, members, settings, missed, faults>>

(***************************************************************************)
(* fetchAllVaultsRoleMembers.                                              *)
(***************************************************************************)
StartMembers ==
  /\ members.pc = "idle" /\ "members" \in crons
  /\ members' = [NoMembersRun EXCEPT !.pc = "page", !.block = SafeBlock,
                                     !.limit = Limit(Len(Filtered)),
                                     !.stayed = Range(Slice(Filtered, 0, Limit(Len(Filtered))))]
  /\ UNCHANGED <<chain, row, reading, vaults, settings, missed, faults>>

\* Mutant: the offset counts from one.
PageFromOne == Slice(Filtered, members.offset + 1, Min(MembersBatch, members.limit - members.offset))

Page == Slice(Filtered, members.offset, Min(MembersBatch, members.limit - members.offset))

\* Mutant: an empty page does not end the run, and the offset moves on by the rows read.
LoadPageByLength ==
  /\ members.pc = "page" /\ members.offset < members.limit
  /\ members' = IF Page = << >> THEN members ELSE [members EXCEPT !.pc = "save", !.page = Page]
  /\ UNCHANGED <<chain, row, reading, vaults, settings, missed, faults>>

\* A page of the rows as they are now; an empty one ends the run.  The viewer answers for
\* the run's block, so it does not matter when it is asked.
LoadPage ==
  /\ members.pc = "page" /\ members.offset < members.limit
  /\ members' = IF Page = << >> THEN [members EXCEPT !.pc = "end"]
                ELSE [members EXCEPT !.pc = "save", !.page = Page]
  /\ UNCHANGED <<chain, row, reading, vaults, settings, missed, faults>>

\* The viewer cannot be read: the next page comes.
LoadPageFails ==
  /\ members.pc = "page" /\ members.offset < members.limit /\ Page # << >> /\ Fault
  /\ members' = [Advance(members, MembersBatch) EXCEPT !.visited = @ \cup Range(Page)]
  /\ UNCHANGED <<chain, row, reading, vaults, settings, missed>>

NextMember(run) ==
  IF Len(run.page) > 1 THEN [run EXCEPT !.page = Tail(@), !.visited = @ \cup {run.page[1]}]
  ELSE [Advance(run, MembersBatch) EXCEPT
          !.page = << >>, !.pc = "page", !.visited = @ \cup {run.page[1]}]

\* One vault of the page, saved if the viewer resolved it.
SaveMembers ==
  LET v == members.page[1]
  IN /\ members.pc = "save"
     /\ members' = NextMember(members)
     /\ row' = IF IsResolved(v, members.block)
               THEN [row EXCEPT ![v] = SetMembers(@, members.block)]
               ELSE row
     /\ UNCHANGED <<chain, reading, vaults, settings, missed, faults>>

SaveMembersFails ==
  /\ members.pc = "save" /\ Fault
  /\ members' = NextMember(members)
  /\ UNCHANGED <<chain, row, reading, vaults, settings, missed>>

EndMembers ==
  /\ \/ /\ members.pc = "page" /\ members.offset >= members.limit
        /\ members' = [members EXCEPT !.pc = "end"]
     \/ members.pc = "end" /\ members' = NoMembersRun
  /\ UNCHANGED <<chain, row, reading, vaults, settings, missed, faults>>

VaultsStep == ReadBatch \/ SaveItem \/ Detect \/ DisconnectUnlisted \/ EndVaults
MembersStep == LoadPage \/ SaveMembers \/ EndMembers
Faults ==
  \/ BatchFails \/ ItemFails \/ DisconnectFails \/ LoadPageFails \/ SaveMembersFails
  \/ \E v \in Vaults : AttemptFails(v)

Next ==
  \/ \E v \in Vaults : HubConnects(v) \/ HubDisconnects(v) \/ AttemptSucceeds(v)
  \/ HubKeepsList
  \/ \E e \in events : Deliver(e[1], e[2])
  \/ \E e \in transfers : DeliverTransfer(e[1], e[2])
  \/ \E v \in Vaults, block \in DOMAIN lists : SyncOwner(v, block)
  \/ StartVaults \/ VaultsStep \/ StartMembers \/ MembersStep
  \/ Faults

\* The crons fire again and again and a run goes on by itself.  Nothing is assumed of the
\* chain, of the delivery of events or of a handler's retries.
Fairness ==
  /\ WF_vars(StartVaults) /\ WF_vars(VaultsStep)
  /\ WF_vars(StartMembers) /\ WF_vars(MembersStep)

Spec == Init /\ [][Next]_vars /\ Fairness

(***************************************************************************)
(* Properties.                                                             *)
(***************************************************************************)
\* Types; the ids of the rows are distinct.
TypeOK ==
  /\ lists \in Seq(Seq(Vaults)) /\ Latest \in 1..MaxBlock
  /\ events \cup transfers \subseteq Vaults \X (1..MaxBlock)
  /\ row \in [Vaults -> Row]
  /\ \A v, w \in Vaults : v # w /\ row[v].id # 0 => row[v].id # row[w].id
  /\ reading \in [Vaults -> [attempt : 0..Attempts, block : 0..MaxBlock]]
  /\ vaults \in VaultsRun /\ members \in MembersRun
  /\ settings \in Settings /\ missed \subseteq Vaults \X (1..MaxBlock)
  /\ sent \in 0..MaxBlock /\ faults \in 0..MaxFaults

\* A flag written for a block says what VaultHub listed at that block, whoever wrote it
\* last: the cron, the detection or a handler.  The exception is a vault whose batch
\* could not be read.  The block stored beside the flag may be newer than the one the flag
\* was written for: an ownership transfer or an owner that is followed moves the one without
\* the other.  A vault that is shown as connected was on the list in the course of that newer
\* block; of one that is shown as disconnected nothing is said: it may be listed, and the
\* VaultConnected that comes late is refused.
FlagsAreOfTheirBlock ==
  \A v \in Vaults :
    LET r == row[v]
    IN  r.id # 0 =>
          /\ r.flag # 0 => r.disconnected = ~Listed(v, r.flag) \/ <<v, r.flag>> \in missed
          /\ r.flag # r.block =>
               r.flag < r.block /\ (r.disconnected \/ ListedDuring(v, r.block))

\* When a vaults run ends, every vault within its limit is at least as new as the run's
\* block, whatever failed for the others; only a failed batch or its own failed write
\* excuses a vault.  Its flag and owner stay; its state, written without a guard on the
\* block, may be overwritten by the handler of an older event, and by nothing else.
RunReachesEveryVault ==
  vaults.pc = "end" =>
    \A v \in Range(Slice(lists[vaults.block], 0, vaults.limit)) :
      \/ <<v, vaults.block>> \in missed \/ v \in vaults.unsaved
      \/ /\ row[v].id # 0 /\ row[v].block >= vaults.block
         /\ row[v].state >= vaults.block \/ v \in vaults.late

\* "Paginated by an id cursor ...: an offset would skip the vaults that shifted": the
\* members run does use an offset.  It skips no more vaults than rows entered or left the
\* filter while it ran, and none in a quiet run.
SkipsAreBoundedByMoves ==
  members.pc = "end" => Cardinality(members.stayed \ members.visited) <= members.moves

\* Role members are stored only from a block at which the vault was connected: the zero
\* addresses the viewer answers otherwise never reach the table.
MembersAreResolved ==
  \A v \in Vaults : row[v].members # 0 => Listed(v, row[v].members)

\* Every run ends, however rows move under its pages and whatever fails.
RunsEnd ==
  /\ vaults.pc # "idle" ~> vaults.pc = "idle"
  /\ members.pc # "idle" ~> members.pc = "idle"

\* Once the list stays as it is, every row tells it.  In minimal mode this holds for the
\* vaults within the limit only: nobody looks for the ones beyond it or for the ones that
\* have left.  A row whose block a transfer has moved beyond the safe block has to wait for
\* the safe block to follow.
EventuallyListed ==
  <>[]("vaults" \in crons /\ lists[Latest] = lists[SafeBlock] =>
         \A v \in Vaults :
           \/ InFilter(row[v]) = Listed(v, Latest) \/ row[v].block > SafeBlock
           \/ minimal # 0 /\ v \notin Range(Slice(lists[Latest], 0, minimal)))
=============================================================================
