-------------------------- MODULE CronBatchesProofs --------------------------
(***************************************************************************)
(* What a run of the vaults cron or of the members cron reaches, proved    *)
(* for any number of vaults, any batch sizes, any limit of the minimal     *)
(* mode, any number of blocks and faults, and both crons side by side.     *)
(***************************************************************************)
EXTENDS CronBatches, FiniteSetTheorems, SequenceTheorems, TLAPS

Known == {w \in Vaults : row[w].id # 0}
Injective(s) == \A i, j \in 1..Len(s) : i # j => s[i] # s[j]

\* VaultHub lists a vault once, and events are of blocks that were mined; a vault changes
\* hands in a block in the course of which it is listed.
ChainOK ==
  /\ lists \in Seq(Seq(Vaults)) /\ Latest \in 1..MaxBlock
  /\ sent \in Nat /\ Latest + sent <= MaxBlock
  /\ \A b \in 1..Latest : Injective(lists[b])
  /\ events \cup transfers \subseteq Vaults \X (1..Latest)
  /\ \A v \in Vaults, b \in 1..Latest : <<v, b>> \in transfers => ListedDuring(v, b)

\* Steps of the service: events are delivered, nothing is mined.
Serves ==
  UNCHANGED <<lists, sent>> /\ events' \subseteq events /\ transfers' \subseteq transfers

\* One row: what it says of its blocks.
RowOK(v, r) ==
  /\ r.block \in 0..Latest /\ r.members \in 0..Latest /\ r.flag \in 0..Latest
  /\ r.flag <= r.block
  /\ r.id # 0 /\ r.flag # 0 =>
       (r.disconnected <=> ~Listed(v, r.flag)) \/ <<v, r.flag>> \in missed
  /\ r.id # 0 /\ r.flag < r.block => r.disconnected \/ ListedDuring(v, r.block)
  /\ r.members # 0 => Listed(v, r.members)

\* The ids are the first ones, each given once.
IdsOK ==
  /\ \A v \in Vaults : row[v].id <= Cardinality(Known)
  /\ \A v, w \in Vaults : v # w /\ row[v].id # 0 => row[v].id # row[w].id

TableOK == row \in [Vaults -> Row] /\ IdsOK /\ \A v \in Vaults : RowOK(v, row[v])

\* A handler reads the members of a vault at a block of the chain.
ReadingOK ==
  /\ reading \in [Vaults -> [attempt : 0..Attempts, block : 0..MaxBlock]]
  /\ \A v \in Vaults : reading[v].attempt # 0 =>
       reading[v].block \in 1..Latest

\* The first k vaults of the list, within the limit, were seen or their batch was missed.
Covered(run, k) ==
  \A i \in 1..Len(lists[run.block]) : i <= k /\ i <= run.limit =>
    lists[run.block][i] \in run.seen \/ <<lists[run.block][i], run.block>> \in missed

\* The end of the batch at the run's offset.
BatchEnd(run) == IF run.offset + BatchSize < run.limit THEN run.offset + BatchSize ELSE run.limit

\* Where a run of the vaults cron stands in the list of its block.
VaultsOK ==
  /\ vaults \in VaultsRun
  /\ vaults.pc # "idle" => vaults.block \in 1..Latest /\ vaults.limit <= Len(lists[vaults.block])
  /\ vaults.pc = "idle" => vaults.seen = {}
  /\ vaults.pc = "batch" => Covered(vaults, vaults.offset)
  /\ vaults.pc = "item" =>
       \E k \in vaults.offset..(BatchEnd(vaults) - 1) :
         Covered(vaults, k) /\ vaults.items = SubSeq(lists[vaults.block], k + 1, BatchEnd(vaults))
  /\ vaults.pc \in {"disconnect", "end"} => Covered(vaults, vaults.limit)
  /\ vaults.pc = "disconnect" =>
       /\ vaults.limit = Len(lists[vaults.block]) /\ vaults.items # << >>
       /\ \A i \in 1..Len(vaults.items) : vaults.items[i] \notin vaults.seen

\* A vault that was seen is as new as the run, or excused.
Reached(v, run, r) ==
  \/ v \in run.unsaved
  \/ /\ r.id # 0 /\ r.block >= run.block
     /\ r.state >= run.block \/ v \in run.late

SeenOK == \A v \in vaults.seen : Reached(v, vaults, row[v])

\* The places of the filtered rows that the members run has read, and the vaults it has
\* visited or has loaded.
Read(run) == IF run.pc = "page" THEN run.offset ELSE run.offset + MembersBatch
Loaded(run) == run.visited \cup Range(run.page)

\* The vaults that moved out of the places the run still reads.
Skipped(run) ==
  {v \in run.stayed \ Loaded(run) :
     Rank(v, Connected) <= Read(run) \/ Rank(v, Connected) > run.limit}

MembersOK ==
  /\ members \in MembersRun
  /\ members.pc # "idle" => members.block \in 1..Latest
  /\ members.pc # "idle" => members.stayed \subseteq Connected
  /\ members.pc = "page" => members.page = << >>
  /\ members.pc = "save" => members.page # << >>
  /\ members.pc \in {"page", "save"} => Cardinality(Skipped(members)) <= members.moves
  /\ SkipsAreBoundedByMoves

SettingsOK ==
  /\ settings \in Settings
  /\ missed \subseteq Vaults \X (1..MaxBlock) /\ faults \in 0..MaxFaults

IInv == ChainOK /\ TableOK /\ ReadingOK /\ VaultsOK /\ SeenOK /\ MembersOK /\ SettingsOK

-----------------------------------------------------------------------------
(***************************************************************************)
(* Lists, slices and rows by id.                                           *)
(***************************************************************************)
\* Sets of vaults are finite.
LEMMA Counts ==
  ASSUME NEW S \in SUBSET Vaults
  PROVE  IsFiniteSet(S) /\ Cardinality(S) \in Nat /\ Cardinality(S) <= Cardinality(Vaults)
BY CronBatchesAssumption, FS_Subset, FS_CardinalityType

\* A list without repetitions has at most as many places as there are vaults.
LEMMA ListIsShort ==
  ASSUME NEW s \in Seq(Vaults), Injective(s)
  PROVE  Len(s) \in 0..Cardinality(Vaults)
<1>1. Len(s) \in Nat /\ s \in [1..Len(s) -> Vaults]
  OBVIOUS
<1>2. s \in Injection(1..Len(s), Vaults)
  BY <1>1, Zenon DEF Injective, Injection, IsInjective
<1>3. Cardinality(1..Len(s)) = Len(s)
  BY <1>1, FS_Interval
<1>4. Cardinality(1..Len(s)) <= Cardinality(Vaults)
  BY <1>2, CronBatchesAssumption, FS_Injection, Zenon
<1>5. QED
  BY <1>1, <1>3, <1>4, Counts

\* A page: the elements after the offset, as many as the limit and the list allow.
LEMMA SliceFacts ==
  ASSUME NEW V, NEW s \in Seq(V), NEW offset \in Nat, NEW limit \in Nat
  PROVE  LET e == IF offset + limit < Len(s) THEN offset + limit ELSE Len(s)
         IN  /\ Slice(s, offset, limit) = SubSeq(s, offset + 1, e)
             /\ Slice(s, offset, limit) \in Seq(V)
             /\ Len(Slice(s, offset, limit)) = IF offset < e THEN e - offset ELSE 0
             /\ \A i \in 1..Len(Slice(s, offset, limit)) :
                  offset + i \in 1..e /\ Slice(s, offset, limit)[i] = s[offset + i]
<1> DEFINE e == IF offset + limit < Len(s) THEN offset + limit ELSE Len(s)
           m == offset + 1
           cut == SubSeq(s, m, e)
<1>1. Len(s) \in Nat /\ e \in Nat /\ m \in Int /\ e <= Len(s)
  OBVIOUS
<1>2. Slice(s, offset, limit) = cut
  BY DEF Slice, Min
<1> HIDE DEF e
<1>3. \A i \in m..e : s[i] \in V
  BY <1>1
<1>4. /\ cut \in Seq(V)
      /\ Len(cut) = IF m <= e THEN e - m + 1 ELSE 0
      /\ \A i \in 1..(e - m + 1) : cut[i] = s[m + i - 1]
  BY <1>1, <1>3, SubSeqProperties
<1> HIDE DEF cut
<1>5. Len(cut) = IF offset < e THEN e - offset ELSE 0
  BY <1>1, <1>4
<1>6. ASSUME NEW i \in 1..Len(cut) PROVE offset + i \in 1..e /\ cut[i] = s[offset + i]
  <2>1. i \in 1..(e - m + 1) /\ m + i - 1 = offset + i
    BY <1>1, <1>5, <1>6
  <2>2. QED
    BY <1>1, <1>4, <2>1
<1>7. QED
  BY <1>2, <1>4, <1>5, <1>6 DEF e, cut

\* Distinct ids give distinct ranks, from 1 to the number of rows.
LEMMA Ranks ==
  ASSUME row \in [Vaults -> Row], NEW S \in SUBSET Vaults,
         \A v, w \in S : v # w => row[v].id # row[w].id
  PROVE  /\ \A v \in S : Rank(v, S) \in 1..Cardinality(S)
         /\ \A v, w \in S : Rank(v, S) = Rank(w, S) => v = w
         /\ \A i \in 1..Cardinality(S) : \E v \in S : Rank(v, S) = i
<1> DEFINE upto(v) == {w \in S : row[w].id <= row[v].id}
           n == Cardinality(S)
           f == [v \in S |-> Cardinality(upto(v))]
<1>1. IsFiniteSet(S) /\ n \in Nat
  BY Counts
<1>2. \A v \in S : row[v].id \in Nat
  BY Counts, CronBatchesAssumption, FS_CardinalityType DEF Row
<1>3. ASSUME NEW v \in S
      PROVE  v \in upto(v) /\ upto(v) \in SUBSET S /\ IsFiniteSet(upto(v))
             /\ Cardinality(upto(v)) \in 1..n
  <2>1. v \in upto(v) /\ upto(v) \in SUBSET S /\ upto(v) \in SUBSET Vaults
    BY <1>2
  <2> HIDE DEF upto
  <2>2. IsFiniteSet(upto(v)) /\ Cardinality(upto(v)) \in Nat /\ Cardinality(upto(v)) <= n
    BY <1>1, <2>1, Counts, FS_Subset
  <2>3. Cardinality(upto(v)) # 0
    BY <2>1, <2>2, FS_EmptySet
  <2>4. QED
    BY <1>1, <2>1, <2>2, <2>3
<1>4. ASSUME NEW v \in S, NEW w \in S, row[v].id < row[w].id
      PROVE  Cardinality(upto(v)) # Cardinality(upto(w))
  <2>1. upto(v) \in SUBSET upto(w) /\ w \notin upto(v)
    BY <1>2, <1>4
  <2>2. w \in upto(w) /\ IsFiniteSet(upto(w))
    BY <1>3
  <2> HIDE DEF upto
  <2>3. Cardinality(upto(w)) = Cardinality(upto(v)) => upto(w) = upto(v)
    BY <2>1, <2>2, FS_Subset
  <2>4. QED
    BY <2>1, <2>2, <2>3
<1>5. \A v, w \in S : f[v] = f[w] => v = w
  <2>1. SUFFICES ASSUME NEW v \in S, NEW w \in S, v # w PROVE f[v] # f[w]
    OBVIOUS
  <2>2. row[v].id < row[w].id \/ row[w].id < row[v].id
    BY <1>2, <2>1
  <2>3. Cardinality(upto(v)) # Cardinality(upto(w))
    BY <1>4, <2>2
  <2>4. QED
    BY <2>3
<1>6. f \in [S -> 1..n]
  BY <1>3
<1>7. f \in Injection(S, 1..n)
  BY <1>5, <1>6, Zenon DEF Injection, IsInjective
<1>8. \A v \in S : Rank(v, S) = f[v]
  BY DEF Rank
<1> HIDE DEF f, n
<1>9. IsFiniteSet(1..n) /\ Cardinality(1..n) = n
  BY <1>1, FS_Interval
<1>10. f \in Surjection(S, 1..n)
  BY <1>7, <1>9, FS_Injection DEF n
<1>11. \A i \in 1..n : \E v \in S : f[v] = i
  BY <1>10, Zenon DEF Surjection
<1>12. QED
  BY <1>5, <1>6, <1>8, <1>11 DEF n

\* The rows of S by id: the vault at place i has rank i.
LEMMA ByIdFacts ==
  ASSUME row \in [Vaults -> Row], NEW S \in SUBSET Vaults,
         \A v, w \in S : v # w => row[v].id # row[w].id
  PROVE  /\ ById(S) \in Seq(S) /\ ById(S) \in Seq(Vaults) /\ Len(ById(S)) = Cardinality(S)
         /\ \A i \in 1..Cardinality(S) : ById(S)[i] \in S /\ Rank(ById(S)[i], S) = i
<1> DEFINE n == Cardinality(S)
<1>1. n \in Nat
  BY Counts
<1>2. \A i \in 1..n : \E v \in S : Rank(v, S) = i
  BY Ranks
<1>3. ById(S) = [i \in 1..n |-> CHOOSE v \in S : Rank(v, S) = i]
  BY DEF ById
<1> HIDE DEF n
<1>4. \A i \in 1..n : ById(S)[i] \in S /\ Rank(ById(S)[i], S) = i
  BY <1>2, <1>3, Zenon
<1>5. DOMAIN ById(S) = 1..n /\ ById(S) = [i \in 1..n |-> ById(S)[i]]
  BY <1>3, Zenon
<1>6. ById(S) \in [1..n -> S]
  BY <1>4, <1>5, Zenon
<1>7. ById(S) \in Seq(S) /\ Len(ById(S)) = n
  BY <1>1, <1>6
<1>8. ById(S) \in Seq(Vaults)
  BY <1>7
<1>9. QED
  BY <1>4, <1>7, <1>8 DEF n

\* VaultHub's list stays without repetitions when a vault comes or leaves.
LEMMA LongerList ==
  ASSUME NEW s \in Seq(Vaults), Injective(s), NEW v \in Vaults, v \notin Range(s)
  PROVE  Append(s, v) \in Seq(Vaults) /\ Injective(Append(s, v))
<1> DEFINE longer == Append(s, v)
<1>1. Len(s) \in Nat /\ \A i \in 1..Len(s) : s[i] # v
  BY DEF Range
<1>2. /\ longer \in Seq(Vaults) /\ Len(longer) = Len(s) + 1
      /\ \A i \in 1..Len(s) : longer[i] = s[i]
      /\ longer[Len(s) + 1] = v
  OBVIOUS
<1> HIDE DEF longer
<1>3. ASSUME NEW i \in 1..Len(longer), NEW j \in 1..Len(longer), i # j
      PROVE  longer[i] # longer[j]
  BY <1>1, <1>2, <1>3 DEF Injective
<1>4. Injective(longer)
  BY <1>3 DEF Injective
<1>5. QED
  BY <1>2, <1>4 DEF longer

\* VaultHub's last vault takes the place of the one that leaves.
LEMMA ShorterList ==
  ASSUME NEW s \in Seq(Vaults), Injective(s), NEW v \in Range(s)
  PROVE  Without(s, v) \in Seq(Vaults) /\ Injective(Without(s, v))
<1> DEFINE n == Len(s)
           r == [i \in DOMAIN s |-> IF s[i] = v THEN s[n] ELSE s[i]]
           t == SubSeq(r, 1, n - 1)
<1>1. n \in Nat /\ DOMAIN s = 1..n /\ n # 0
  BY DEF Range
<1>2. Without(s, v) = t
  BY DEF Without
<1>3. \A i \in 1..n : r[i] \in Vaults /\ r[i] = IF s[i] = v THEN s[n] ELSE s[i]
  BY <1>1
<1> HIDE DEF r
<1>4. /\ t \in Seq(Vaults) /\ Len(t) = n - 1
      /\ \A i \in 1..(n - 1) : t[i] = r[i]
  <2>1. 1 \in Int /\ n - 1 \in Int /\ \A i \in 1..(n - 1) : r[i] \in Vaults
    BY <1>1, <1>3
  <2>2. /\ SubSeq(r, 1, n - 1) \in Seq(Vaults)
        /\ Len(SubSeq(r, 1, n - 1)) = IF 1 <= n - 1 THEN (n - 1) - 1 + 1 ELSE 0
        /\ \A i \in 1..((n - 1) - 1 + 1) : SubSeq(r, 1, n - 1)[i] = r[1 + i - 1]
    BY <2>1, SubSeqProperties
  <2> HIDE DEF t
  <2>3. \A i \in 1..(n - 1) : t[i] = r[i]
    BY <1>1, <2>2 DEF t
  <2>4. QED
    BY <1>1, <2>2, <2>3 DEF t
<1> HIDE DEF t
<1>5. ASSUME NEW i \in 1..Len(t), NEW j \in 1..Len(t), i # j PROVE t[i] # t[j]
  <2> DEFINE m == Len(t)
  <2>0. m = n - 1 /\ i \in 1..m /\ j \in 1..m
    BY <1>4, <1>5
  <2> HIDE DEF m, n
  <2>1. i \in 1..n /\ j \in 1..n /\ i # n /\ j # n /\ n \in 1..n
    BY <1>1, <2>0
  <2>2. s[i] # s[j] /\ s[i] # s[n] /\ s[j] # s[n]
    BY <1>5, <2>1 DEF Injective, n
  <2>3. t[i] = r[i] /\ t[j] = r[j]
    BY <1>1, <1>4, <1>5
  <2>4. QED
    BY <1>3, <2>1, <2>2, <2>3
<1>6. QED
  BY <1>2, <1>4, <1>5 DEF Injective

-----------------------------------------------------------------------------
(***************************************************************************)
(* Rows and writes.                                                        *)
(***************************************************************************)
\* updateVaultOwnershipColumns touches flag and block, and only for a block that is not
\* older.
LEMMA SetFlagFacts ==
  ASSUME NEW r \in Row, NEW b \in 0..MaxBlock, NEW d \in BOOLEAN
  PROVE  /\ SetFlag(r, b, d) \in Row /\ SetFlag(r, b, d).id = r.id
         /\ SetFlag(r, b, d).state = r.state /\ SetFlag(r, b, d).members = r.members
         /\ r.id # 0 /\ r.block <= b =>
              /\ SetFlag(r, b, d).block = b /\ SetFlag(r, b, d).flag = b
              /\ SetFlag(r, b, d).disconnected <=> d
         /\ ~(r.id # 0 /\ r.block <= b) => SetFlag(r, b, d) = r
<1> DEFINE new == [r EXCEPT !.disconnected = d, !.flag = b, !.block = b]
<1>1. /\ new \in Row /\ new.id = r.id /\ new.state = r.state /\ new.members = r.members
      /\ new.block = b /\ new.flag = b
  BY DEF Row
<1>2. new.disconnected <=> d
  BY Zenon DEF Row
<1> HIDE DEF new
<1>3. SetFlag(r, b, d) = IF r.id # 0 /\ r.block <= b THEN new ELSE r
  BY Zenon DEF SetFlag, new
<1>4. QED
  BY <1>1, <1>2, <1>3

\* A row that must be created gets the next id.
LEMMA GetOrCreateFacts ==
  ASSUME TableOK, NEW v \in Vaults
  PROVE  /\ GetOrCreate(v) \in Row /\ GetOrCreate(v).id # 0
         /\ row[v].id # 0 => GetOrCreate(v) = row[v]
         /\ row[v].id = 0 => /\ GetOrCreate(v).id = 1 + Cardinality(Known)
                             /\ GetOrCreate(v).block = 0 /\ GetOrCreate(v).members = 0
                             /\ GetOrCreate(v).flag = 0
<1> DEFINE k == Cardinality(Known)
           new == [NoRow EXCEPT !.id = 1 + k]
<1>1. row \in [Vaults -> Row]
  BY DEF TableOK
<1>2. Known \in SUBSET Vaults
  BY DEF Known
<1>3. k \in Nat /\ IsFiniteSet(Known)
  BY <1>2, Counts
<1>4. ASSUME row[v].id = 0 PROVE 1 + k \in 0..Cardinality(Vaults)
  <2>1. v \notin Known /\ Known \cup {v} \in SUBSET Vaults
    BY <1>2, <1>4 DEF Known
  <2>2. Cardinality(Known \cup {v}) = k + 1
    BY <1>3, <2>1, FS_AddElement
  <2>3. k + 1 <= Cardinality(Vaults) /\ Cardinality(Vaults) \in Nat
    BY <2>1, <2>2, Counts, CronBatchesAssumption, FS_CardinalityType
  <2>4. QED
    BY <1>3, <2>3
<1> HIDE DEF k
<1>5. row[v].id = 0 => /\ new \in Row /\ new.id # 0 /\ new.id = 1 + k /\ new.block = 0
                       /\ new.members = 0 /\ new.flag = 0
  <2>1. 0 \in 0..MaxBlock /\ 0 \in 0..Cardinality(Vaults)
    BY CronBatchesAssumption, FS_CardinalityType
  <2>2. NoRow \in Row
    BY <2>1, Zenon DEF Row, NoRow
  <2>3. NoRow.block = 0 /\ NoRow.members = 0 /\ NoRow.flag = 0
    BY DEF NoRow
  <2> HIDE DEF NoRow
  <2>4. QED
    BY <1>3, <1>4, <2>2, <2>3 DEF Row
<1> HIDE DEF new
<1>6. GetOrCreate(v) = IF row[v].id # 0 THEN row[v] ELSE new
  BY DEF GetOrCreate, Known, new, k
<1>7. QED
  BY <1>1, <1>5, <1>6 DEF k

\* What every write keeps: the id, and a block that does not go back.
NextRow(v, new) ==
  /\ new \in Row /\ RowOK(v, new)
  /\ row[v].id # 0 => new.id = row[v].id
  /\ row[v].id = 0 => new.id \in {0, 1 + Cardinality(Known)}
  /\ row[v].id # 0 => new.block >= row[v].block

\* The chain grows and missed batches are remembered.
Grows ==
  /\ Len(lists') >= Len(lists) /\ Len(lists') \in Nat
  /\ \A b \in 1..Latest : lists'[b] = lists[b]
  /\ missed \subseteq missed'

\* What a row says of a block stays true.
LEMMA RowStays ==
  ASSUME ChainOK, Grows, NEW v \in Vaults, NEW r \in Row, RowOK(v, r)
  PROVE  RowOK(v, r)'
<1>1. Latest \in Nat /\ Latest' \in Nat /\ Latest' >= Latest
  BY DEF ChainOK, Grows, Latest
<1>2. \A b \in 1..Latest : Listed(v, b)' <=> Listed(v, b)
  BY DEF Grows, Listed
<1>3. r.block \in 0..Latest /\ r.members \in 0..Latest /\ r.flag \in 0..Latest
  BY DEF RowOK
<1>4. r.block \in 0..Latest' /\ r.members \in 0..Latest' /\ r.flag \in 0..Latest'
  BY <1>1, <1>3
<1>5. /\ r.flag # 0 => (Listed(v, r.flag)' <=> Listed(v, r.flag))
      /\ r.block # 0 => (ListedDuring(v, r.block)' <=> ListedDuring(v, r.block))
  <2>1. \A b \in 1..Latest : ListedDuring(v, b)' <=> ListedDuring(v, b)
    BY <1>1, <1>2 DEF ListedDuring
  <2>2. QED
    BY <1>1, <1>2, <1>3, <2>1
<1>6. r.members # 0 => (Listed(v, r.members)' <=> Listed(v, r.members))
  BY <1>1, <1>2, <1>3
<1>7. <<v, r.flag>> \in missed => <<v, r.flag>> \in missed'
  BY DEF Grows
<1>8. r.flag < r.block => r.block # 0
  BY <1>3
<1>9. QED
  BY <1>4, <1>5, <1>6, <1>7, <1>8 DEF RowOK

\* The table while nothing is written.
LEMMA TableStays == ASSUME ChainOK, TableOK, Grows, row' = row PROVE TableOK'
<1>1. row \in [Vaults -> Row] /\ IdsOK /\ \A v \in Vaults : RowOK(v, row[v])
  BY DEF TableOK
<1>2. IdsOK'
  BY <1>1 DEF IdsOK, Known
<1>3. ASSUME NEW v \in Vaults PROVE RowOK(v, row[v])'
  <2>1. PICK r : r = row[v]
    OBVIOUS
  <2>2. r \in Row /\ RowOK(v, r)
    BY <1>1, <2>1
  <2>3. RowOK(v, r)'
    BY <2>2, RowStays
  <2>4. QED
    BY <2>1, <2>3 DEF RowOK, ListedDuring, Listed, Latest
<1>4. QED
  BY <1>1, <1>2, <1>3 DEF TableOK

\* The table after a write.
LEMMA WriteTable ==
  ASSUME ChainOK, TableOK, Grows, NEW v \in Vaults, NEW new, NextRow(v, new),
         row' = [row EXCEPT ![v] = new]
  PROVE  TableOK'
<1>1. row \in [Vaults -> Row] /\ IdsOK /\ \A w \in Vaults : RowOK(w, row[w])
  BY DEF TableOK
<1>2. /\ row' \in [Vaults -> Row] /\ row'[v] = new /\ \A w \in Vaults \ {v} : row'[w] = row[w]
  BY <1>1 DEF NextRow
<1>3. Known \in SUBSET Vaults
  BY DEF Known
<1>4. IsFiniteSet(Known) /\ Cardinality(Known) \in Nat
  BY <1>3, Counts
<1>5. IdsOK'
  <2>1. CASE new.id = row[v].id
    <3>1. \A w \in Vaults : row'[w].id = row[w].id
      BY <1>2, <2>1
    <3>2. Known' = Known
      BY <3>1 DEF Known
    <3>3. QED
      BY <1>1, <3>1, <3>2 DEF IdsOK
  <2>2. CASE new.id # row[v].id
    <3>1. row[v].id = 0 /\ new.id = 1 + Cardinality(Known)
      BY <2>2 DEF NextRow
    <3>2. v \notin Known /\ Known' = Known \cup {v}
      BY <1>2, <1>4, <3>1 DEF Known
    <3>3. Cardinality(Known') = Cardinality(Known) + 1
      BY <1>4, <3>2, FS_AddElement
    <3>4. \A w \in Vaults \ {v} : row'[w].id = row[w].id /\ row[w].id <= Cardinality(Known)
      BY <1>1, <1>2 DEF IdsOK
    <3>5. \A w \in Vaults : row[w].id \in Nat
      BY <1>1, Counts, CronBatchesAssumption, FS_CardinalityType DEF Row
    <3>6. row'[v].id = 1 + Cardinality(Known)
      BY <1>2, <3>1
    <3>7. \A w \in Vaults : row'[w].id <= Cardinality(Known')
      BY <1>4, <3>3, <3>4, <3>5, <3>6
    <3>8. ASSUME NEW u \in Vaults, NEW w \in Vaults, u # w, row'[u].id # 0
          PROVE  row'[u].id # row'[w].id
      BY <1>1, <1>4, <3>4, <3>5, <3>6, <3>8 DEF IdsOK
    <3>9. QED
      BY <3>7, <3>8 DEF IdsOK
  <2>3. QED
    BY <2>1, <2>2
<1>6. ASSUME NEW w \in Vaults PROVE RowOK(w, row[w])'
  <2>1. PICK r : r = row'[w]
    OBVIOUS
  <2>2. r \in Row /\ RowOK(w, r)
    BY <1>1, <1>2, <2>1 DEF NextRow
  <2>3. RowOK(w, r)'
    BY <2>2, RowStays
  <2>4. QED
    BY <2>1, <2>3 DEF RowOK, ListedDuring, Listed, Latest
<1>7. QED
  BY <1>2, <1>5, <1>6 DEF TableOK

-----------------------------------------------------------------------------
(***************************************************************************)
(* What stays true of handlers and runs while others take their steps.     *)
(***************************************************************************)
LEMMA ReadingStays == ASSUME ChainOK, ReadingOK, Grows, reading' = reading PROVE ReadingOK'
<1>1. Latest \in Nat /\ Latest' \in Nat /\ Latest' >= Latest
  BY DEF ChainOK, Grows, Latest
<1>2. ASSUME NEW v \in Vaults, reading[v].attempt # 0
      PROVE  reading[v].block \in 1..Latest'
  BY <1>1, <1>2 DEF ReadingOK
<1>3. QED
  BY <1>2 DEF ReadingOK

\* Later facts do not undo the coverage of a run.
LEMMA CoveredStays ==
  ASSUME ChainOK, Grows, NEW run, run.block \in 1..Latest, NEW k, Covered(run, k),
         vaults'.block = run.block, vaults'.limit = run.limit, run.seen \subseteq vaults'.seen
  PROVE  Covered(vaults, k)'
<1>1. lists'[run.block] = lists[run.block]
  BY DEF Grows
<1>2. QED
  BY <1>1 DEF Covered, Grows

\* A run of the vaults cron between its own steps.
LEMMA VaultsStays ==
  ASSUME ChainOK, VaultsOK, Grows, vaults' \in VaultsRun,
         vaults'.pc = vaults.pc, vaults'.block = vaults.block, vaults'.limit = vaults.limit,
         vaults'.offset = vaults.offset, vaults'.items = vaults.items, vaults'.seen = vaults.seen
  PROVE  VaultsOK'
<1>1. Latest \in Nat /\ Latest' \in Nat /\ Latest' >= Latest
  BY DEF ChainOK, Grows, Latest
<1>2. CASE vaults.pc = "idle"
  BY <1>2 DEF VaultsOK
<1>3. CASE vaults.pc # "idle"
  <2>1. vaults.block \in 1..Latest /\ vaults.limit <= Len(lists[vaults.block])
    BY <1>3 DEF VaultsOK
  <2>2. vaults.block \in 1..Latest' /\ lists'[vaults'.block] = lists[vaults.block]
    BY <1>1, <2>1 DEF Grows
  <2>3. PICK run : run = vaults
    OBVIOUS
  <2>4. \A k : Covered(run, k) => Covered(vaults, k)'
    BY <2>1, <2>3, CoveredStays
  <2>5. BatchEnd(vaults)' = BatchEnd(run)
    BY <2>3 DEF BatchEnd
  <2>6. run.pc = "batch" => Covered(vaults, vaults.offset)'
    <3>1. PICK k : k = run.offset
      OBVIOUS
    <3>2. run.pc = "batch" => Covered(run, k)
      BY <2>3, <3>1 DEF VaultsOK
    <3>3. run.pc = "batch" => Covered(vaults, k)'
      BY <2>4, <3>2
    <3>4. QED
      BY <2>3, <3>1, <3>3 DEF Covered
  <2>7. run.pc \in {"disconnect", "end"} => Covered(vaults, vaults.limit)'
    <3>1. PICK k : k = run.limit
      OBVIOUS
    <3>2. run.pc \in {"disconnect", "end"} => Covered(run, k)
      BY <2>3, <3>1 DEF VaultsOK
    <3>3. run.pc \in {"disconnect", "end"} => Covered(vaults, k)'
      BY <2>4, <3>2
    <3>4. QED
      BY <2>3, <3>1, <3>3 DEF Covered
  <2>8. ASSUME run.pc = "item"
        PROVE  \E k \in run.offset..(BatchEnd(run) - 1) :
                 Covered(vaults, k)' /\ run.items = SubSeq(lists[run.block], k + 1, BatchEnd(run))
    BY <2>3, <2>4, <2>8 DEF VaultsOK
  <2>9. /\ vaults.pc = "disconnect" =>
             /\ vaults.limit = Len(lists[vaults.block]) /\ vaults.items # << >>
             /\ \A i \in 1..Len(vaults.items) : vaults.items[i] \notin vaults.seen
    BY DEF VaultsOK
  <2>10. QED
    BY <1>3, <2>1, <2>2, <2>3, <2>5, <2>6, <2>7, <2>8, <2>9 DEF VaultsOK
<1>4. QED
  BY <1>2, <1>3

\* A row that does not go back keeps its vault reached.
LEMMA SeenStays ==
  ASSUME SeenOK, VaultsOK, TableOK, TableOK', vaults'.block = vaults.block,
         vaults'.seen \subseteq Vaults,
         vaults.unsaved \subseteq vaults'.unsaved, vaults.late \subseteq vaults'.late,
         \A w \in vaults'.seen :
           \/ Reached(w, vaults', row'[w])
           \/ /\ w \in vaults.seen
              /\ row[w].id # 0 => /\ row'[w].id # 0 /\ row'[w].block >= row[w].block
                                  /\ row'[w].state >= row[w].state
  PROVE  SeenOK'
<1>1. ASSUME NEW w \in vaults'.seen PROVE Reached(w, vaults', row'[w])
  <2>1. CASE w \in vaults.seen /\ ~Reached(w, vaults', row'[w])
    <3>1. Reached(w, vaults, row[w])
      BY <2>1 DEF SeenOK
    <3>2. /\ row[w].block \in Int /\ row'[w].block \in Int /\ row[w].state \in Int
          /\ row'[w].state \in Int /\ vaults.block \in Int
      <4>1. w \in Vaults
        BY <1>1
      <4>2. row[w] \in Row /\ row'[w] \in Row
        BY <4>1 DEF TableOK
      <4>3. vaults.block \in Int
        BY DEF VaultsOK, VaultsRun
      <4>4. QED
        BY <4>2, <4>3 DEF Row
    <3>3. QED
      BY <1>1, <2>1, <3>1, <3>2 DEF Reached
  <2>2. QED
    BY <1>1, <2>1
<1>2. QED
  BY <1>1 DEF SeenOK, Reached

-----------------------------------------------------------------------------
(***************************************************************************)
(* The rows a members run reads, while rows enter and leave the filter.    *)
(***************************************************************************)
\* The filtered rows have ids, and distinct ones.
LEMMA ConnectedRows ==
  ASSUME TableOK
  PROVE  /\ Connected \in SUBSET Vaults /\ \A v \in Connected : row[v].id # 0
         /\ \A v, w \in Connected : v # w => row[v].id # row[w].id
BY DEF TableOK, IdsOK, Connected, InFilter

\* Ranks while the filter and its ids stay.
LEMMA SameRanks ==
  ASSUME Connected' = Connected, \A v \in Connected : row'[v].id = row[v].id
  PROVE  \A v \in Connected : Rank(v, Connected)' = Rank(v, Connected)
BY DEF Rank

\* A row leaves: later rows move up by one place.
LEMMA RanksAfterLeaving ==
  ASSUME TableOK, NEW v \in Connected, Connected' = Connected \ {v},
         \A w \in Connected \ {v} : row'[w].id = row[w].id
  PROVE  \A w \in Connected \ {v} :
           /\ Rank(w, Connected) \in Nat
           /\ Rank(w, Connected)' \in {Rank(w, Connected), Rank(w, Connected) - 1}
<1>1. SUFFICES ASSUME NEW w \in Connected \ {v}
               PROVE  /\ Rank(w, Connected) \in Nat
                      /\ Rank(w, Connected)' \in {Rank(w, Connected), Rank(w, Connected) - 1}
  OBVIOUS
<1> DEFINE upto == {u \in Connected : row[u].id <= row[w].id}
<1>2. upto \in SUBSET Vaults
  BY DEF Connected
<1>3. {u \in Connected' : row'[u].id <= row'[w].id} = upto \ {v}
  BY <1>1
<1> HIDE DEF upto
<1>4. IsFiniteSet(upto) /\ Cardinality(upto) \in Nat
  BY <1>2, Counts
<1>5. Cardinality(upto \ {v}) \in {Cardinality(upto), Cardinality(upto) - 1}
  BY <1>4, FS_RemoveElement
<1>6. Rank(w, Connected)' = Cardinality(upto \ {v}) /\ Rank(w, Connected) = Cardinality(upto)
  BY <1>3 DEF Rank, upto
<1>7. QED
  BY <1>4, <1>5, <1>6

\* A row enters: later rows move down by one place.
LEMMA RanksAfterEntering ==
  ASSUME TableOK, NEW v \in Vaults \ Connected, Connected' = Connected \cup {v},
         \A w \in Connected : row'[w].id = row[w].id
  PROVE  \A w \in Connected :
           /\ Rank(w, Connected) \in Nat
           /\ Rank(w, Connected)' \in {Rank(w, Connected), Rank(w, Connected) + 1}
<1>1. SUFFICES ASSUME NEW w \in Connected
               PROVE  /\ Rank(w, Connected) \in Nat
                      /\ Rank(w, Connected)' \in {Rank(w, Connected), Rank(w, Connected) + 1}
  OBVIOUS
<1> DEFINE upto == {u \in Connected : row[u].id <= row[w].id}
           new == {u \in Connected' : row'[u].id <= row'[w].id}
<1>2. upto \in SUBSET Vaults
  BY DEF Connected
<1>3. new = upto \/ new = upto \cup {v}
  BY <1>1
<1> HIDE DEF upto, new
<1>4. IsFiniteSet(upto) /\ Cardinality(upto) \in Nat
  BY <1>2, Counts
<1>5. Cardinality(upto \cup {v}) \in {Cardinality(upto), Cardinality(upto) + 1}
  BY <1>4, FS_AddElement
<1>6. Rank(w, Connected)' = Cardinality(new) /\ Rank(w, Connected) = Cardinality(upto)
  BY DEF Rank, upto, new
<1>7. QED
  BY <1>3, <1>4, <1>5, <1>6

\* At most one vault more.
LEMMA OneMore ==
  ASSUME NEW A \in SUBSET Vaults, NEW B \in SUBSET Vaults, \A x, y \in B \ A : x = y
  PROVE  Cardinality(B) <= Cardinality(A) + 1
<1>1. /\ IsFiniteSet(A) /\ Cardinality(A) \in Nat
      /\ IsFiniteSet(B) /\ Cardinality(B) \in Nat
  BY Counts
<1>2. CASE B \subseteq A
  BY <1>1, <1>2, FS_Subset
<1>3. CASE ~(B \subseteq A)
  <2>1. PICK x \in B : x \notin A
    BY <1>3
  <2>2. B \in SUBSET (A \cup {x})
    BY <2>1
  <2>3. IsFiniteSet(A \cup {x}) /\ Cardinality(A \cup {x}) = Cardinality(A) + 1
    BY <1>1, <2>1, FS_AddElement
  <2>4. Cardinality(B) <= Cardinality(A \cup {x})
    BY <2>2, <2>3, FS_Subset
  <2>5. QED
    BY <1>1, <2>3, <2>4
<1>4. QED
  BY <1>2, <1>3

\* A members run between its own steps while the filter stays.
LEMMA MembersStay ==
  ASSUME ChainOK, TableOK, MembersOK, Grows, members' = members,
         Connected' = Connected, \A v \in Connected : row'[v].id = row[v].id
  PROVE  MembersOK'
<1>1. Latest \in Nat /\ Latest' \in Nat /\ Latest' >= Latest
  BY DEF ChainOK, Grows, Latest
<1>2. members.pc # "idle" => members.stayed \subseteq Connected
  BY DEF MembersOK
<1>3. members.pc # "idle" => Skipped(members)' = Skipped(members)
  <2>1. \A v \in Connected : Rank(v, Connected)' = Rank(v, Connected)
    BY SameRanks
  <2>2. Loaded(members)' = Loaded(members) /\ Read(members)' = Read(members)
    BY DEF Loaded, Read, Range
  <2>3. QED
    BY <1>2, <2>1, <2>2 DEF Skipped
<1>4. members.pc # "idle" => members.block \in 1..Latest'
  BY <1>1 DEF MembersOK
<1>5. SkipsAreBoundedByMoves'
  BY DEF MembersOK, SkipsAreBoundedByMoves
<1>6. QED
  BY <1>3, <1>4, <1>5 DEF MembersOK

\* Skipped vaults are vaults.
LEMMA SkippedAreVaults ==
  ASSUME MembersOK PROVE Skipped(members) \in SUBSET Vaults
BY DEF MembersOK, MembersRun, Skipped

\* A row that enters or leaves the filter makes a members run skip at most one more vault.
LEMMA MoveSkipsOne ==
  ASSUME ChainOK, TableOK, MembersOK, Grows, members.pc # "idle", NEW v \in Vaults,
         \/ v \in Connected /\ Connected' = Connected \ {v}
         \/ v \notin Connected /\ Connected' = Connected \cup {v},
         \A w \in Connected \ {v} : row'[w].id = row[w].id,
         members' = [members EXCEPT !.moves = @ + 1, !.stayed = @ \ {v}]
  PROVE  MembersOK'
<1>1. /\ members \in MembersRun /\ members.stayed \subseteq Connected
      /\ members.block \in 1..Latest
  BY DEF MembersOK
<1>2. /\ members' \in MembersRun /\ members'.moves = members.moves + 1
      /\ members'.stayed = members.stayed \ {v} /\ members'.pc = members.pc
      /\ members'.block = members.block /\ members'.limit = members.limit
      /\ members'.offset = members.offset /\ members'.page = members.page
      /\ members'.visited = members.visited
  <2> DEFINE m == members.moves + 1
             rest == members.stayed \ {v}
  <2>1. m \in Nat /\ rest \in SUBSET Vaults
    BY <1>1 DEF MembersRun
  <2>2. members' = [members EXCEPT !.moves = m, !.stayed = rest]
    OBVIOUS
  <2> HIDE DEF m, rest
  <2>3. members' \in MembersRun
    BY <1>1, <2>1, <2>2 DEF MembersRun
  <2>4. QED
    BY <1>1, <2>2, <2>3 DEF MembersRun, m, rest
<1>3. Latest \in Nat /\ Latest' \in Nat /\ Latest' >= Latest
  BY DEF ChainOK, Grows, Latest
<1>4. members.block \in 1..Latest' /\ members'.stayed \subseteq Connected'
  BY <1>1, <1>2, <1>3
<1>5. members.moves \in Nat /\ members.limit \in Nat /\ members.offset \in Nat
  BY <1>1, CronBatchesAssumption, FS_CardinalityType DEF MembersRun
<1>6. ASSUME members.pc \in {"page", "save"}
      PROVE  Cardinality(Skipped(members)') <= members'.moves
  <2> DEFINE c == Read(members)
             A == Skipped(members)
             B == Skipped(members)'
  <2>1. c \in Nat /\ Read(members)' = c /\ Loaded(members)' = Loaded(members)
    BY <1>2, <1>5, CronBatchesAssumption DEF Read, Loaded, Range
  <2>2. \A x, y \in Connected : Rank(x, Connected) = Rank(y, Connected) => x = y
    BY ConnectedRows, Ranks DEF TableOK
  <2>3. A \in SUBSET Vaults
    BY SkippedAreVaults
  <2>4. B \in SUBSET Vaults
    BY <1>2 DEF Skipped, MembersRun
  <2>5. \A x \in B : /\ x \in members.stayed \ Loaded(members) /\ x \in Connected \ {v}
                     /\ Rank(x, Connected)' <= c \/ Rank(x, Connected)' > members.limit
    BY <1>1, <1>2, <2>1 DEF Skipped
  <2>6. \A x \in members.stayed \ Loaded(members) :
          Rank(x, Connected) <= c \/ Rank(x, Connected) > members.limit => x \in A
    BY DEF Skipped
  <2> HIDE DEF c, A, B
  <2>7. ASSUME NEW x \in B \ A, NEW y \in B \ A PROVE x = y
    <3>1. CASE v \in Connected /\ Connected' = Connected \ {v}
      <4>1. \A w \in Connected \ {v} :
              /\ Rank(w, Connected) \in Nat
              /\ Rank(w, Connected)' \in {Rank(w, Connected), Rank(w, Connected) - 1}
        BY <3>1, RanksAfterLeaving
      <4>2. Rank(x, Connected) = c + 1
        BY <1>5, <2>1, <2>5, <2>6, <2>7, <4>1
      <4>3. Rank(y, Connected) = c + 1
        BY <1>5, <2>1, <2>5, <2>6, <2>7, <4>1
      <4>4. QED
        BY <2>2, <2>5, <2>7, <4>2, <4>3
    <3>2. CASE v \notin Connected /\ Connected' = Connected \cup {v}
      <4>1. \A w \in Connected :
              /\ Rank(w, Connected) \in Nat
              /\ Rank(w, Connected)' \in {Rank(w, Connected), Rank(w, Connected) + 1}
        BY <3>2, RanksAfterEntering
      <4>2. Rank(x, Connected) = members.limit
        BY <1>5, <2>1, <2>5, <2>6, <2>7, <4>1
      <4>3. Rank(y, Connected) = members.limit
        BY <1>5, <2>1, <2>5, <2>6, <2>7, <4>1
      <4>4. QED
        BY <2>2, <2>5, <2>7, <4>2, <4>3
    <3>3. QED
      BY <3>1, <3>2
  <2>8. Cardinality(B) <= Cardinality(A) + 1
    BY <2>3, <2>4, <2>7, OneMore
  <2>9. Cardinality(A) <= members.moves
    BY <1>6 DEF MembersOK, A
  <2>10. Cardinality(A) \in Nat /\ Cardinality(B) \in Nat
    BY <2>3, <2>4, Counts
  <2>11. QED
    BY <1>2, <1>5, <2>8, <2>9, <2>10 DEF B
<1>7. SkipsAreBoundedByMoves'
  <2> DEFINE A == members.stayed \ members.visited
             B == (members.stayed \ {v}) \ members.visited
  <2>1. A \in SUBSET Vaults /\ B \in SUBSET A
    BY <1>1 DEF MembersRun
  <2>2. members.pc = "end" => Cardinality(A) <= members.moves
    BY DEF MembersOK, SkipsAreBoundedByMoves
  <2>3. members'.stayed \ members'.visited = B
    BY <1>2
  <2> HIDE DEF A, B
  <2>4. Cardinality(B) <= Cardinality(A) /\ Cardinality(B) \in Nat /\ Cardinality(A) \in Nat
    BY <2>1, Counts, FS_Subset
  <2>5. members'.pc = "end" => Cardinality(B) <= members'.moves
    BY <1>2, <1>5, <2>2, <2>4
  <2>6. QED
    BY <2>3, <2>5, Zenon DEF SkipsAreBoundedByMoves
<1>8. /\ members.pc = "page" => members.page = << >>
      /\ members.pc = "save" => members.page # << >>
  BY DEF MembersOK
<1>9. QED
  BY <1>2, <1>4, <1>6, <1>7, <1>8 DEF MembersOK

\* A members run while a row is written.
LEMMA WriteMembers ==
  ASSUME ChainOK, TableOK, MembersOK, Grows, NEW v \in Vaults, NEW new, NextRow(v, new),
         Write(v, new)
  PROVE  MembersOK'
<1>1. row \in [Vaults -> Row]
  BY DEF TableOK
<1>2. row' = [row EXCEPT ![v] = new]
  BY DEF Write
<1>3. row'[v] = new /\ \A w \in Vaults \ {v} : row'[w] = row[w]
  BY <1>1, <1>2
<1>4. \A w \in Connected : row'[w].id = row[w].id
  BY <1>3 DEF Connected, InFilter, NextRow
<1>5. CASE members.pc = "idle"
  <2>1. members' = members
    BY <1>5 DEF Write
  <2>2. QED
    BY <1>5, <2>1 DEF MembersOK, SkipsAreBoundedByMoves
<1>6. CASE members.pc # "idle" /\ (InFilter(row[v]) <=> InFilter(new))
  <2>1. InFilter(row[v]) = InFilter(new)
    BY <1>6, Zenon DEF InFilter
  <2>2. members' = members
    BY <2>1, Zenon DEF Write
  <2>3. \A w \in Vaults : InFilter(row'[w]) <=> InFilter(row[w])
    BY <1>3, <1>6
  <2>4. Connected' = Connected
    BY <2>3 DEF Connected
  <2>5. QED
    BY <1>4, <2>2, <2>4, MembersStay
<1>7. CASE members.pc # "idle" /\ ~(InFilter(row[v]) <=> InFilter(new))
  <2>1. InFilter(row[v]) # InFilter(new)
    BY <1>7, Zenon DEF InFilter
  <2>2. members' = [members EXCEPT !.moves = @ + 1, !.stayed = @ \ {v}]
    BY <1>7, <2>1, Zenon DEF Write
  <2>3. \A w \in Vaults \ {v} : InFilter(row'[w]) <=> InFilter(row[w])
    BY <1>3
  <2>4. v \in Connected <=> InFilter(row[v])
    BY DEF Connected
  <2>5. v \in Connected' <=> InFilter(new)
    BY <1>3 DEF Connected
  <2>6. \/ v \in Connected /\ Connected' = Connected \ {v}
        \/ v \notin Connected /\ Connected' = Connected \cup {v}
    <3>1. \A w \in Vaults \ {v} : w \in Connected' <=> w \in Connected
      BY <2>3 DEF Connected
    <3>2. Connected \subseteq Vaults /\ Connected' \subseteq Vaults
      BY DEF Connected
    <3>3. v \in Connected' <=> v \notin Connected
      BY <1>7, <2>4, <2>5
    <3>4. QED
      BY <3>1, <3>2, <3>3
  <2>7. QED
    BY <1>4, <1>7, <2>2, <2>6, MoveSkipsOne
<1>8. QED
  BY <1>5, <1>6, <1>7

-----------------------------------------------------------------------------
(***************************************************************************)
(* The writes the actions make.                                            *)
(***************************************************************************)
\* The blocks of a row are of the chain.
LEMMA Blocks == ASSUME ChainOK PROVE Latest \in Nat /\ Latest <= MaxBlock /\ 1..Latest \subseteq 0..MaxBlock
BY CronBatchesAssumption DEF ChainOK

\* A row may stay as it is.
LEMMA SameRow == ASSUME ChainOK, TableOK, NEW v \in Vaults PROVE NextRow(v, row[v])
<1>1. row[v] \in Row /\ RowOK(v, row[v])
  BY DEF TableOK
<1>2. row[v].block \in Int
  BY <1>1 DEF Row
<1>3. QED
  BY <1>1, <1>2 DEF NextRow

\* getOrCreateVaultByAddress.
LEMMA CreatedRow ==
  ASSUME ChainOK, TableOK, NEW v \in Vaults
  PROVE  NextRow(v, GetOrCreate(v)) /\ GetOrCreate(v).id # 0
<1>1. CASE row[v].id # 0
  BY <1>1, SameRow, GetOrCreateFacts
<1>2. CASE row[v].id = 0
  <2>1. /\ GetOrCreate(v) \in Row /\ GetOrCreate(v).id = 1 + Cardinality(Known)
        /\ GetOrCreate(v).id # 0 /\ GetOrCreate(v).block = 0 /\ GetOrCreate(v).members = 0
        /\ GetOrCreate(v).flag = 0
    BY <1>2, GetOrCreateFacts
  <2>2. RowOK(v, GetOrCreate(v))
    BY <2>1, Blocks DEF RowOK
  <2>3. QED
    BY <1>2, <2>1, <2>2 DEF NextRow
<1>3. QED
  BY <1>1, <1>2

\* connectVault and disconnectVault for a block of which the flag is true.
LEMMA FlagRow ==
  ASSUME ChainOK, TableOK, NEW v \in Vaults, NEW r, NextRow(v, r), NEW b \in 1..Latest,
         NEW d \in BOOLEAN, (d <=> ~Listed(v, b)) \/ <<v, b>> \in missed
  PROVE  NextRow(v, SetFlag(r, b, d))
<1> DEFINE new == SetFlag(r, b, d)
<1>1. r \in Row /\ RowOK(v, r) /\ b \in 0..MaxBlock
  BY Blocks DEF NextRow
<1>2. /\ new \in Row /\ new.id = r.id /\ new.state = r.state /\ new.members = r.members
      /\ r.id # 0 /\ r.block <= b => new.block = b /\ new.flag = b /\ (new.disconnected <=> d)
      /\ ~(r.id # 0 /\ r.block <= b) => new = r
  BY <1>1, SetFlagFacts
<1> HIDE DEF new
<1>3. ASSUME r.id # 0 /\ r.block <= b PROVE NextRow(v, new)
  <2>1. new.block = b /\ new.flag = b /\ (new.disconnected <=> d)
    BY <1>2, <1>3
  <2>2. RowOK(v, new)
    BY <1>1, <1>2, <2>1, Blocks DEF RowOK
  <2>3. row[v].id # 0 => new.block >= row[v].block
    <3>1. row[v].block \in Int /\ r.block \in Int /\ b \in Int
      BY <1>1 DEF TableOK, Row
    <3>2. QED
      BY <1>3, <2>1, <3>1 DEF NextRow
  <2>4. QED
    BY <1>2, <2>2, <2>3 DEF NextRow
<1>4. ASSUME ~(r.id # 0 /\ r.block <= b) PROVE NextRow(v, new)
  BY <1>2, <1>4, Zenon
<1>5. NextRow(v, new)
  BY <1>3, <1>4
<1>6. QED
  BY <1>5 DEF new

\* updateVaultOwnership, of a row that is disconnected or of a vault that was listed in the
\* course of the block: the flag may be of an older block.
LEMMA OwnerRow ==
  ASSUME ChainOK, TableOK, NEW v \in Vaults, NEW b \in 1..Latest,
         row[v].disconnected \/ ListedDuring(v, b)
  PROVE  NextRow(v, SetOwner(row[v], b)) /\ SetOwner(row[v], b).state = row[v].state
<1> DEFINE r == row[v]
           new == [r EXCEPT !.block = b]
<1>1. r \in Row /\ RowOK(v, r) /\ NextRow(v, r) /\ b \in 0..MaxBlock
  BY SameRow, Blocks DEF NextRow
<1>2. SetOwner(row[v], b) = IF r.id # 0 /\ r.block <= b THEN new ELSE r
  BY Zenon DEF SetOwner
<1>3. r.disconnected \/ ListedDuring(v, b)
  OBVIOUS
<1> HIDE DEF r
<1>4. /\ new \in Row /\ new.id = r.id /\ new.block = b /\ new.members = r.members
      /\ new.state = r.state /\ new.flag = r.flag
  BY <1>1 DEF Row
<1>5. new.disconnected <=> r.disconnected
  BY <1>1, Zenon DEF Row
<1> HIDE DEF new
<1>6. r.block \in Int /\ r.flag \in Int /\ b \in Int
  BY <1>1 DEF Row
<1>7. ASSUME r.block <= b PROVE RowOK(v, new)
  <2>1. r.flag <= b
    BY <1>1, <1>6, <1>7 DEF RowOK
  <2>2. QED
    BY <1>1, <1>3, <1>4, <1>5, <1>6, <2>1, Blocks DEF RowOK
<1>8. ASSUME r.block <= b PROVE NextRow(v, new)
  BY <1>1, <1>4, <1>6, <1>7, <1>8 DEF NextRow, r
<1>9. NextRow(v, IF r.id # 0 /\ r.block <= b THEN new ELSE r)
  BY <1>1, <1>8
<1>10. QED
  BY <1>2, <1>4, <1>9 DEF r

\* addOrUpdateState.
LEMMA StateRow ==
  ASSUME ChainOK, NEW v \in Vaults, NEW r, NextRow(v, r), NEW b \in 1..Latest
  PROVE  /\ NextRow(v, [r EXCEPT !.state = b]) /\ [r EXCEPT !.state = b].state = b
         /\ [r EXCEPT !.state = b].id = r.id /\ [r EXCEPT !.state = b].block = r.block
<1> DEFINE new == [r EXCEPT !.state = b]
<1>1. r \in Row /\ RowOK(v, r) /\ b \in 0..MaxBlock
  BY Blocks DEF NextRow
<1>2. /\ new \in Row /\ new.id = r.id /\ new.block = r.block /\ new.members = r.members
      /\ new.state = b /\ new.flag = r.flag
  BY <1>1 DEF Row
<1>3. new.disconnected <=> r.disconnected
  BY <1>1, Zenon DEF Row
<1> HIDE DEF new
<1>4. RowOK(v, new)
  BY <1>1, <1>2, <1>3 DEF RowOK
<1>5. QED
  BY <1>2, <1>4 DEF NextRow, new

\* setMembersForVault.
LEMMA MembersRow ==
  ASSUME ChainOK, TableOK, NEW v \in Vaults, NEW b \in 1..Latest, Listed(v, b)
  PROVE  /\ NextRow(v, SetMembers(row[v], b)) /\ SetMembers(row[v], b).id = row[v].id
         /\ SetMembers(row[v], b).block = row[v].block /\ SetMembers(row[v], b).state = row[v].state
         /\ SetMembers(row[v], b).disconnected <=> row[v].disconnected
<1> DEFINE r == row[v]
           new == [r EXCEPT !.members = b]
<1>1. r \in Row /\ RowOK(v, r) /\ NextRow(v, r) /\ b \in 0..MaxBlock
  BY SameRow, Blocks DEF NextRow
<1>2. SetMembers(row[v], b) = IF r.id # 0 /\ r.members <= b THEN new ELSE r
  BY Zenon DEF SetMembers
<1> HIDE DEF r
<1>3. /\ new \in Row /\ new.id = r.id /\ new.block = r.block /\ new.members = b
      /\ new.state = r.state /\ new.flag = r.flag
  BY <1>1 DEF Row
<1>4. new.disconnected <=> r.disconnected
  BY <1>1, Zenon DEF Row
<1> HIDE DEF new
<1>5. RowOK(v, new)
  BY <1>1, <1>3, <1>4, Blocks DEF RowOK
<1>6. NextRow(v, new)
  BY <1>1, <1>3, <1>5 DEF NextRow
<1>7. NextRow(v, IF r.id # 0 /\ r.members <= b THEN new ELSE r)
  BY <1>1, <1>6
<1>8. QED
  BY <1>2, <1>3, <1>4, <1>7 DEF r

\* The connected row of a vault that is listed at a block, with the state of that block.
ConnectedRow(v, block) == [SetFlag(GetOrCreate(v), block, FALSE) EXCEPT !.state = block]

\* Handler and cron write such a row, which is not older than the block.
LEMMA ConnectedRowFacts ==
  ASSUME ChainOK, TableOK, NEW v \in Vaults, NEW b \in 1..Latest, Listed(v, b)
  PROVE  /\ NextRow(v, ConnectedRow(v, b))
         /\ ConnectedRow(v, b).id # 0 /\ ConnectedRow(v, b).state = b
         /\ ConnectedRow(v, b).block >= b
<1> DEFINE g == GetOrCreate(v)
           f == SetFlag(g, b, FALSE)
<1>1. NextRow(v, g) /\ g.id # 0
  BY CreatedRow
<1>2. g \in Row /\ b \in 0..MaxBlock
  BY <1>1, Blocks DEF NextRow
<1> HIDE DEF g
<1>3. NextRow(v, f)
  <2>1. (FALSE <=> ~Listed(v, b)) \/ <<v, b>> \in missed
    OBVIOUS
  <2>2. QED
    BY <1>1, <2>1, FlagRow, Zenon
<1>4. f.id # 0 /\ f.block >= b
  <2>1. g.block \in Int /\ b \in Int
    BY <1>2 DEF Row
  <2>2. f.id = g.id /\ (g.id # 0 /\ g.block <= b => f.block = b)
        /\ (~(g.id # 0 /\ g.block <= b) => f = g)
    BY <1>2, SetFlagFacts
  <2> HIDE DEF f
  <2>3. CASE g.block <= b
    BY <1>1, <2>1, <2>2, <2>3
  <2>4. CASE ~(g.block <= b)
    BY <1>1, <2>1, <2>2, <2>4
  <2>5. QED
    BY <2>3, <2>4
<1> HIDE DEF f
<1>5. /\ NextRow(v, [f EXCEPT !.state = b]) /\ [f EXCEPT !.state = b].state = b
      /\ [f EXCEPT !.state = b].id = f.id /\ [f EXCEPT !.state = b].block = f.block
  BY <1>3, StateRow
<1>6. QED
  BY <1>4, <1>5 DEF ConnectedRow, f, g

-----------------------------------------------------------------------------
(***************************************************************************)
(* Steps that leave the chain alone.                                       *)
(***************************************************************************)
LEMMA SameChain ==
  ASSUME ChainOK, Serves, missed \subseteq missed'
  PROVE  Grows /\ ChainOK'
<1>1. lists' = lists /\ Latest' = Latest /\ sent' = sent
  BY DEF Serves, Latest
<1>2. \A v \in Vaults, b \in 1..Latest : ListedDuring(v, b)' <=> ListedDuring(v, b)
  BY <1>1 DEF ListedDuring, Listed
<1>3. \A b \in 1..Latest : Injective(lists[b])'
  BY <1>1 DEF ChainOK, Injective
<1>4. ChainOK'
  BY <1>1, <1>2, <1>3 DEF ChainOK, Serves
<1>5. QED
  BY <1>1, <1>4 DEF ChainOK, Grows, Latest

\* Settings, missed batches and the number of faults.
LEMMA SettingsStay ==
  ASSUME SettingsOK, UNCHANGED <<settings, missed>>, faults' = faults \/ Fault
  PROVE  SettingsOK'
<1>1. faults' \in 0..MaxFaults
  BY CronBatchesAssumption DEF SettingsOK, Fault
<1>2. QED
  BY <1>1 DEF SettingsOK, settings

\* No row is written.
LEMMA NoWriteKeeps ==
  ASSUME IInv, UNCHANGED <<row, members>>, Serves,
         missed \subseteq missed', ReadingOK', VaultsOK', SeenOK', SettingsOK'
  PROVE  IInv'
<1>1. ChainOK' /\ Grows
  BY SameChain DEF IInv
<1>2. TableOK'
  BY <1>1, TableStays DEF IInv
<1>3. MembersOK'
  <2>1. Connected' = Connected
    BY DEF Connected
  <2>2. QED
    BY <1>1, <2>1, MembersStay DEF IInv
<1>4. QED
  BY <1>1, <1>2, <1>3 DEF IInv

\* A row is written.
LEMMA WriteKeeps ==
  ASSUME IInv, NEW v \in Vaults, NEW new, NextRow(v, new), Write(v, new),
         missed' = missed, Serves,
         ReadingOK', VaultsOK', TableOK' => SeenOK', SettingsOK'
  PROVE  IInv'
<1>1. ChainOK' /\ Grows
  BY SameChain DEF IInv
<1>2. TableOK'
  BY <1>1, WriteTable DEF IInv, Write
<1>3. MembersOK'
  BY <1>1, WriteMembers DEF IInv
<1>4. QED
  BY <1>1, <1>2, <1>3 DEF IInv

\* The run of the vaults cron stays as it is.
LEMMA RunStays ==
  ASSUME ChainOK, VaultsOK, Grows, vaults' = vaults
  PROVE  VaultsOK'
<1>1. vaults' \in VaultsRun
  BY DEF VaultsOK
<1>2. QED
  BY <1>1, VaultsStays

\* Nothing of the rows of the vaults that were seen goes back.
LEMMA SeenAfterWrite ==
  ASSUME VaultsOK, TableOK, TableOK', SeenOK, NEW v \in Vaults, NEW new, NextRow(v, new),
         row' = [row EXCEPT ![v] = new], vaults' = vaults,
         row[v].id # 0 => new.state >= row[v].state
  PROVE  SeenOK'
<1>1. row \in [Vaults -> Row] /\ vaults.seen \subseteq Vaults
  BY DEF TableOK, VaultsOK, VaultsRun
<1>2. row'[v] = new /\ \A w \in Vaults \ {v} : row'[w] = row[w]
  BY <1>1
<1>3. \A w \in Vaults : row[w].block \in Int /\ row[w].state \in Int
  BY <1>1 DEF Row
<1>4. ASSUME NEW w \in vaults.seen, row[w].id # 0
      PROVE  row'[w].id # 0 /\ row'[w].block >= row[w].block /\ row'[w].state >= row[w].state
  <2>1. CASE w = v
    BY <1>2, <1>4, <2>1 DEF NextRow
  <2>2. CASE w # v
    BY <1>1, <1>2, <1>3, <1>4, <2>2
  <2>3. QED
    BY <2>1, <2>2
<1>5. QED
  BY <1>1, <1>4, SeenStays

-----------------------------------------------------------------------------
(***************************************************************************)
(* The chain and the handlers.                                             *)
(***************************************************************************)
LEMMA MineKeeps ==
  ASSUME IInv, NEW list \in Seq(Vaults), Injective(list), NEW emitted \in SUBSET Vaults,
         Mine(list, emitted)
  PROVE  IInv'
<1>0. PICK T \in SUBSET (Range(lists[Latest]) \cup Range(list)) :
        /\ transfers' = transfers \cup {<<v, Latest + 1>> : v \in T}
        /\ sent' = sent + Cardinality(T)
  BY DEF Mine
<1>t. T \in SUBSET Vaults /\ Cardinality(T) \in Nat
  <2>1. lists[Latest] \in Seq(Vaults)
    BY DEF IInv, ChainOK, Latest
  <2>2. Range(lists[Latest]) \subseteq Vaults /\ Range(list) \subseteq Vaults
    BY <2>1 DEF Range
  <2>3. T \in SUBSET Vaults
    BY <2>2
  <2>4. QED
    BY <2>3, Counts
<1>1. /\ lists \in Seq(Seq(Vaults)) /\ Latest \in 1..MaxBlock /\ Latest + sent' < MaxBlock
      /\ sent \in Nat /\ \A b \in 1..Latest : Injective(lists[b])
      /\ events \subseteq Vaults \X (1..Latest) /\ transfers \subseteq Vaults \X (1..Latest)
      /\ lists' = Append(lists, list)
      /\ events' = events \cup {<<v, Latest + 1>> : v \in emitted}
  BY DEF IInv, ChainOK, Mine
<1>2. UNCHANGED <<row, reading, vaults, members, crons, minimal, missed, faults>>
  BY DEF Mine, settings
<1> DEFINE n == Len(lists)
<1>3. n \in 1..MaxBlock /\ n < MaxBlock /\ n \in Nat /\ Latest = n /\ sent' \in Nat
  BY <1>0, <1>t, <1>1, CronBatchesAssumption DEF Latest
<1>4. /\ lists' \in Seq(Seq(Vaults)) /\ Len(lists') = n + 1 /\ lists'[n + 1] = list
      /\ \A b \in 1..n : lists'[b] = lists[b]
  BY <1>1
<1> HIDE DEF n
<1>5. Latest' = n + 1 /\ Latest' \in 1..MaxBlock
  BY <1>3, <1>4, CronBatchesAssumption DEF Latest
<1>6. Grows
  BY <1>2, <1>3, <1>4 DEF Grows, Latest, n
<1>7. \A b \in 1..(n + 1) : Injective(lists'[b])
  <2>1. SUFFICES ASSUME NEW b \in 1..(n + 1) PROVE Injective(lists'[b])
    OBVIOUS
  <2>2. CASE b = n + 1
    BY <1>4, <2>2
  <2>3. CASE b \in 1..n
    BY <1>1, <1>3, <1>4, <2>3
  <2>4. QED
    BY <1>3, <2>1, <2>2, <2>3
<1>8. events' \cup transfers' \subseteq Vaults \X (1..(n + 1))
  <2>1. 1..n \subseteq 1..(n + 1) /\ n + 1 \in 1..(n + 1)
    BY <1>3
  <2>2. events \subseteq Vaults \X (1..n) /\ emitted \subseteq Vaults
    BY <1>1, <1>3
  <2>3. events' = events \cup {<<v, n + 1>> : v \in emitted}
    BY <1>1, <1>3
  <2>4. transfers' = transfers \cup {<<v, n + 1>> : v \in T} /\ transfers \subseteq Vaults \X (1..n)
    BY <1>0, <1>1, <1>3
  <2>5. QED
    BY <1>t, <2>1, <2>2, <2>3, <2>4
<1>9. ChainOK'
  <2>1. \A b \in 1..Latest' : Injective(lists[b])'
    BY <1>5, <1>7 DEF Injective
  <2>2. ASSUME NEW v \in Vaults, NEW b \in 1..(n + 1), <<v, b>> \in transfers'
        PROVE  ListedDuring(v, b)'
    <3>1. CASE b \in 1..n
      <4>1. <<v, b>> \in transfers
        BY <1>0, <1>3, <2>2, <3>1
      <4>2. ListedDuring(v, b)
        BY <1>3, <3>1, <4>1 DEF IInv, ChainOK
      <4>3. lists'[b] = lists[b] /\ (b > 1 => lists'[b - 1] = lists[b - 1])
        BY <1>3, <1>4, <3>1
      <4>4. QED
        BY <4>2, <4>3 DEF ListedDuring, Listed
    <3>2. CASE b = n + 1
      <4>1. v \in T
        <5>1. <<v, b>> \notin transfers
          BY <1>1, <1>3, <3>2
        <5>2. QED
          BY <1>0, <2>2, <5>1
      <4>2. lists'[b] = list /\ b - 1 = n /\ b > 1 /\ lists'[b - 1] = lists[Latest]
        BY <1>3, <1>4, <3>2
      <4>3. v \in Range(lists'[b]) \/ v \in Range(lists'[b - 1])
        BY <1>0, <4>1, <4>2
      <4>4. QED
        BY <4>2, <4>3 DEF ListedDuring, Listed
    <3>3. QED
      BY <1>3, <2>2, <3>1, <3>2
  <2>3. Latest' + sent' <= MaxBlock
    <3>1. Latest \in Int /\ sent' \in Int /\ MaxBlock \in Int /\ Latest' = Latest + 1
      BY <1>1, <1>3, <1>5, CronBatchesAssumption
    <3>2. PICK x, y \in Int : x = Latest /\ y = sent'
      BY <3>1
    <3>3. Latest' + sent' = x + 1 + y /\ x + y < MaxBlock
      BY <1>1, <3>1, <3>2
    <3>4. \A k, l, m \in Int : k + l < m => k + 1 + l <= m
      OBVIOUS
    <3>5. PICK m \in Int : m = MaxBlock
      BY <3>1
    <3>6. x + 1 + y <= m
      BY <3>2, <3>3, <3>4, <3>5
    <3>7. QED
      BY <3>3, <3>5, <3>6
  <2>4. QED
    BY <1>3, <1>4, <1>5, <1>8, <2>1, <2>2, <2>3 DEF ChainOK
<1>10. TableOK' /\ ReadingOK' /\ VaultsOK'
  BY <1>2, <1>6, TableStays, ReadingStays, RunStays DEF IInv
<1>11. SeenOK' /\ SettingsOK'
  BY <1>2 DEF IInv, SeenOK, Reached, SettingsOK, settings
<1>12. MembersOK'
  <2>1. Connected' = Connected
    BY <1>2 DEF Connected
  <2>2. QED
    BY <1>2, <1>6, <2>1, MembersStay DEF IInv
<1>13. QED
  BY <1>9, <1>10, <1>11, <1>12 DEF IInv

\* A block is mined.
LEMMA ChainKeeps ==
  ASSUME IInv, HubKeepsList \/ \E v \in Vaults : HubConnects(v) \/ HubDisconnects(v)
  PROVE  IInv'
<1>1. PICK list : list = lists[Latest]
  OBVIOUS
<1>2. list \in Seq(Vaults) /\ Injective(list)
  BY <1>1 DEF IInv, ChainOK, Latest
<1>3. CASE HubKeepsList
  <2>1. Mine(list, {})
    BY <1>1, <1>3 DEF HubKeepsList
  <2>2. QED
    BY <1>2, <2>1, MineKeeps
<1>4. ASSUME NEW v \in Vaults, HubConnects(v) PROVE IInv'
  <2>1. v \notin Range(list) /\ Mine(Append(list, v), {v})
    BY <1>1, <1>4 DEF HubConnects, Listed
  <2>2. Append(list, v) \in Seq(Vaults) /\ Injective(Append(list, v))
    BY <1>2, <2>1, LongerList
  <2>3. {v} \in SUBSET Vaults
    OBVIOUS
  <2>4. QED
    BY <2>1, <2>2, <2>3, MineKeeps, Zenon
<1>5. ASSUME NEW v \in Vaults, HubDisconnects(v) PROVE IInv'
  <2>1. v \in Range(list) /\ Mine(Without(list, v), {v})
    BY <1>1, <1>5 DEF HubDisconnects, Listed
  <2>2. Without(list, v) \in Seq(Vaults) /\ Injective(Without(list, v))
    BY <1>2, <2>1, ShorterList
  <2>3. {v} \in SUBSET Vaults
    OBVIOUS
  <2>4. QED
    BY <2>1, <2>2, <2>3, MineKeeps, Zenon
<1>6. QED
  BY <1>3, <1>4, <1>5

\* A handler begins to read the members.
LEMMA ReadingBegins ==
  ASSUME ChainOK, ReadingOK, NEW v \in Vaults, NEW b \in 1..Latest, lists' = lists,
         reading' = [reading EXCEPT ![v] = [attempt |-> 1, block |-> b]]
  PROVE  ReadingOK'
<1> DEFINE r == [attempt |-> 1, block |-> b]
<1>1. r \in [attempt : 0..Attempts, block : 0..MaxBlock] /\ r.block = b
  BY Blocks, CronBatchesAssumption
<1>2. reading \in [Vaults -> [attempt : 0..Attempts, block : 0..MaxBlock]]
  BY DEF ReadingOK
<1>3. reading' = [reading EXCEPT ![v] = r]
  OBVIOUS
<1> HIDE DEF r
<1>4. /\ reading' \in [Vaults -> [attempt : 0..Attempts, block : 0..MaxBlock]]
      /\ reading'[v] = r /\ \A w \in Vaults \ {v} : reading'[w] = reading[w]
  BY <1>1, <1>2, <1>3
<1>5. ASSUME NEW w \in Vaults, reading'[w].attempt # 0
      PROVE  reading'[w].block \in 1..Latest
  <2>1. CASE w = v
    BY <1>1, <1>4, <2>1
  <2>2. CASE w # v
    BY <1>4, <1>5, <2>2 DEF ReadingOK
  <2>3. QED
    BY <2>1, <2>2
<1>6. QED
  BY <1>4, <1>5 DEF ReadingOK, Latest

\* A write of a block only, of a vault whose owner changed.
LEMMA OwnerWritten ==
  ASSUME IInv, NEW v \in Vaults, NEW b \in 1..Latest,
         row[v].disconnected \/ ListedDuring(v, b), Write(v, SetOwner(row[v], b)), Serves,
         UNCHANGED <<vaults, settings, missed, faults>>, ReadingOK'
  PROVE  IInv'
<1> DEFINE new == SetOwner(row[v], b)
<1>1. ChainOK /\ TableOK /\ Grows
  BY SameChain DEF IInv
<1>2. NextRow(v, new) /\ new.state = row[v].state /\ row[v].state \in Int
  <2>1. row[v].state \in Int
    BY <1>1 DEF TableOK, Row
  <2>2. QED
    BY <1>1, <2>1, OwnerRow
<1> HIDE DEF new
<1>3. VaultsOK'
  BY <1>1, RunStays DEF IInv
<1>4. ASSUME TableOK' PROVE SeenOK'
  <2>1. VaultsOK /\ SeenOK /\ row' = [row EXCEPT ![v] = new] /\ vaults' = vaults
    BY DEF IInv, Write, new
  <2>2. new.state >= row[v].state
    BY <1>2
  <2>3. QED
    BY <1>1, <1>2, <1>4, <2>1, <2>2, SeenAfterWrite
<1>5. SettingsOK'
  BY SettingsStay DEF IInv
<1>6. Write(v, new)
  BY DEF new
<1>7. QED
  BY <1>2, <1>3, <1>4, <1>5, <1>6, WriteKeeps

\* The handler of a transfer, which is of a vault that was listed in the course of its block.
LEMMA DeliverTransferKeeps ==
  ASSUME IInv, NEW e \in transfers, DeliverTransfer(e[1], e[2])
  PROVE  IInv'
<1>1. PICK v, b : v = e[1] /\ b = e[2]
  OBVIOUS
<1>2. /\ v \in Vaults /\ b \in 1..Latest /\ <<v, b>> \in transfers
      /\ DeliverTransfer(v, b) /\ ChainOK /\ ReadingOK
  <2>1. e \in Vaults \X (1..Latest) /\ ChainOK /\ ReadingOK
    BY DEF IInv, ChainOK
  <2>2. e = <<v, b>> /\ v \in Vaults /\ b \in 1..Latest
    BY <1>1, <2>1
  <2>3. QED
    BY <1>1, <2>1, <2>2
<1>3. ListedDuring(v, b)
  BY <1>2 DEF ChainOK
<1>4. /\ Write(v, SetOwner(row[v], b)) /\ Serves
      /\ UNCHANGED <<lists, vaults, settings, missed, faults>>
      /\ reading' = [reading EXCEPT ![v] = [attempt |-> 1, block |-> b]]
  BY <1>2 DEF DeliverTransfer, Serves
<1>5. ReadingOK'
  BY <1>2, <1>4, ReadingBegins
<1>6. QED
  BY <1>2, <1>3, <1>4, <1>5, OwnerWritten

\* The scan and the reconcile cron move the block of a disconnected row.
LEMMA SyncOwnerKeeps ==
  ASSUME IInv, NEW v \in Vaults, NEW b \in DOMAIN lists, SyncOwner(v, b)
  PROVE  IInv'
<1>1. /\ Write(v, SetOwner(row[v], b)) /\ Serves /\ row[v].disconnected
      /\ UNCHANGED <<reading, vaults, settings, missed, faults>>
  BY DEF SyncOwner, Serves, chain
<1>2. b \in 1..Latest
  BY DEF IInv, ChainOK, Latest
<1>3. Grows
  BY <1>1, SameChain DEF IInv
<1>4. ReadingOK'
  BY <1>1, <1>3, ReadingStays DEF IInv
<1>5. QED
  BY <1>1, <1>2, <1>4, OwnerWritten

\* A vault that was disconnected: only its flag changes.
LEMMA DisconnectedKeeps ==
  ASSUME IInv, NEW v \in Vaults, NEW b \in 1..Latest, Deliver(v, b), ~Listed(v, b)
  PROVE  IInv'
<1> DEFINE new == SetFlag(row[v], b, TRUE)
<1>1. /\ UNCHANGED <<lists, reading, vaults, settings, missed, faults>> /\ Write(v, new)
      /\ Serves
  BY DEF Deliver, Serves
<1>2. ChainOK /\ TableOK /\ row[v] \in Row /\ b \in 0..MaxBlock /\ Grows
  BY <1>1, SameChain, Blocks DEF IInv, TableOK
<1>3. NextRow(v, new)
  <2>1. NextRow(v, row[v]) /\ ((TRUE <=> ~Listed(v, b)) \/ <<v, b>> \in missed)
    BY <1>2, SameRow
  <2>2. QED
    BY <1>2, <2>1, FlagRow
<1>4. new.state = row[v].state /\ row[v].state \in Int
  <2>1. new.state = row[v].state
    BY <1>2, SetFlagFacts
  <2>2. row[v].state \in Int
    BY <1>2 DEF Row
  <2>3. QED
    BY <2>1, <2>2
<1> HIDE DEF new
<1>5. ReadingOK' /\ VaultsOK'
  BY <1>1, <1>2, ReadingStays, RunStays DEF IInv
<1>6. ASSUME TableOK' PROVE SeenOK'
  <2>1. VaultsOK /\ SeenOK /\ row' = [row EXCEPT ![v] = new] /\ vaults' = vaults
    BY <1>1 DEF IInv, Write
  <2>2. new.state >= row[v].state
    BY <1>4
  <2>3. QED
    BY <1>2, <1>3, <1>6, <2>1, <2>2, SeenAfterWrite
<1>7. SettingsOK'
  BY <1>1, SettingsStay DEF IInv
<1>8. QED
  BY <1>1, <1>3, <1>5, <1>6, <1>7, WriteKeeps

\* A vault that was connected: its row, with the state of the event's block, also when the
\* run has stored a newer one; its members will be read.
LEMMA ConnectedKeeps ==
  ASSUME IInv, NEW v \in Vaults, NEW b \in 1..Latest, Deliver(v, b), Listed(v, b)
  PROVE  IInv'
<1> DEFINE new == ConnectedRow(v, b)
<1>1. /\ UNCHANGED <<lists, settings, missed, faults>> /\ Write(v, new) /\ Serves
      /\ reading' = [reading EXCEPT ![v] = [attempt |-> 1, block |-> b]]
      /\ vaults' = IF v \in vaults.seen /\ b < vaults.block
                   THEN [vaults EXCEPT !.late = @ \cup {v}] ELSE vaults
  BY DEF Deliver, ConnectedRow, Serves
<1>2. ChainOK /\ TableOK /\ ReadingOK /\ VaultsOK /\ SeenOK /\ b \in 0..MaxBlock /\ Grows
  BY <1>1, SameChain, Blocks DEF IInv
<1>3. NextRow(v, new) /\ new.id # 0 /\ new.state = b /\ new.block >= b
  BY <1>2, ConnectedRowFacts
<1> HIDE DEF new
<1>4. ReadingOK'
  BY <1>1, <1>2, ReadingBegins
<1>5. /\ vaults' \in VaultsRun
      /\ vaults'.pc = vaults.pc /\ vaults'.block = vaults.block /\ vaults'.limit = vaults.limit
      /\ vaults'.offset = vaults.offset /\ vaults'.items = vaults.items
      /\ vaults'.seen = vaults.seen /\ vaults'.unsaved = vaults.unsaved
      /\ vaults.late \subseteq vaults'.late
      /\ v \in vaults.seen /\ b < vaults.block => v \in vaults'.late
  <2> DEFINE more == vaults.late \cup {v}
  <2>1. vaults \in VaultsRun
    BY <1>2 DEF VaultsOK
  <2>2. more \in SUBSET Vaults /\ vaults.late \subseteq more /\ v \in more
    BY <2>1 DEF VaultsRun
  <2>3. CASE v \in vaults.seen /\ b < vaults.block
    <3>1. vaults' = [vaults EXCEPT !.late = more]
      BY <1>1, <2>3
    <3> HIDE DEF more
    <3>2. vaults' \in VaultsRun
      BY <2>1, <2>2, <3>1 DEF VaultsRun
    <3>3. QED
      BY <2>1, <2>2, <2>3, <3>1, <3>2 DEF VaultsRun
  <2>4. CASE ~(v \in vaults.seen /\ b < vaults.block)
    BY <1>1, <2>1, <2>4
  <2>5. QED
    BY <2>3, <2>4
<1>6. VaultsOK'
  BY <1>2, <1>5, VaultsStays
<1>7. ASSUME TableOK' PROVE SeenOK'
  <2>1. row \in [Vaults -> Row] /\ vaults.seen \subseteq Vaults /\ vaults.block \in Int
    BY <1>2 DEF TableOK, VaultsOK, VaultsRun
  <2>2. row'[v] = new /\ \A w \in Vaults \ {v} : row'[w] = row[w]
    BY <1>1, <2>1 DEF Write
  <2>3. \A w \in Vaults : row[w].block \in Int /\ row[w].state \in Int
    BY <2>1 DEF Row
  <2>4. ASSUME v \in vaults.seen PROVE Reached(v, vaults', new)
    <3>1. Reached(v, vaults, row[v])
      BY <1>2, <2>4 DEF SeenOK
    <3>2. new.block \in Int /\ b \in Int
      BY <1>3 DEF NextRow, Row
    <3>3. row[v].id # 0 => new.block >= row[v].block
      BY <1>3 DEF NextRow
    <3>4. QED
      BY <1>3, <1>5, <2>1, <2>3, <2>4, <3>1, <3>2, <3>3 DEF Reached
  <2>5. \A w \in vaults'.seen :
           \/ Reached(w, vaults', row'[w])
           \/ /\ w \in vaults.seen
              /\ row[w].id # 0 => /\ row'[w].id # 0 /\ row'[w].block >= row[w].block
                                  /\ row'[w].state >= row[w].state
    BY <1>5, <2>1, <2>2, <2>3, <2>4
  <2>6. vaults'.seen \subseteq Vaults
    BY <1>5, <2>1
  <2>7. QED
    BY <1>2, <1>5, <1>7, <2>5, <2>6, SeenStays
<1>8. SettingsOK'
  BY <1>1, SettingsStay DEF IInv
<1>9. QED
  BY <1>1, <1>3, <1>4, <1>6, <1>7, <1>8, WriteKeeps

\* The handlers of the two events.
LEMMA DeliverKeeps == ASSUME IInv, NEW e \in events, Deliver(e[1], e[2]) PROVE IInv'
<1>1. PICK v, b : v = e[1] /\ b = e[2]
  OBVIOUS
<1>2. v \in Vaults /\ b \in 1..Latest /\ Deliver(v, b)
  BY <1>1 DEF IInv, ChainOK
<1>3. QED
  BY <1>2, ConnectedKeeps, DisconnectedKeeps

\* The retried read of the members.
LEMMA AttemptKeeps ==
  ASSUME IInv, NEW v \in Vaults, AttemptSucceeds(v) \/ AttemptFails(v)
  PROVE  IInv'
<1> DEFINE Entry == [attempt : 0..Attempts, block : 0..MaxBlock]
<1>1. ChainOK /\ TableOK /\ ReadingOK /\ VaultsOK /\ SeenOK /\ SettingsOK
  BY DEF IInv
<1>2. reading \in [Vaults -> Entry] /\ reading[v].attempt # 0
      /\ reading[v].block \in 1..Latest
  BY <1>1 DEF ReadingOK, AttemptSucceeds, AttemptFails
<1>3. /\ UNCHANGED <<lists, vaults, settings, missed>> /\ Serves
      /\ faults' = faults \/ Fault
  BY DEF AttemptSucceeds, AttemptFails, Serves, chain
<1>4. Grows
  BY <1>1, <1>3, SameChain
<1>5. ASSUME NEW r \in Entry, reading' = [reading EXCEPT ![v] = r],
             r.attempt # 0 => r.block = reading[v].block
      PROVE  ReadingOK'
  <2>1. /\ reading' \in [Vaults -> Entry] /\ reading'[v] = r
        /\ \A w \in Vaults \ {v} : reading'[w] = reading[w]
    BY <1>2, <1>5
  <2>2. ASSUME NEW w \in Vaults, reading'[w].attempt # 0
        PROVE  reading'[w].block \in 1..Latest
    <3>1. CASE w = v
      BY <1>2, <1>5, <2>1, <2>2, <3>1
    <3>2. CASE w # v
      BY <1>1, <2>1, <2>2, <3>2 DEF ReadingOK
    <3>3. QED
      BY <3>1, <3>2
  <2>3. QED
    BY <1>3, <2>1, <2>2 DEF ReadingOK, Latest
<1>6. VaultsOK' /\ SettingsOK'
  BY <1>1, <1>3, <1>4, RunStays, SettingsStay
<1>7. 0 \in 0..Attempts /\ 0 \in 0..MaxBlock
  BY CronBatchesAssumption
<1>8. CASE AttemptSucceeds(v)
  <2> DEFINE new == SetMembers(row[v], reading[v].block)
             r == [attempt |-> 0, block |-> 0]
  <2>1. Write(v, new) /\ reading' = [reading EXCEPT ![v] = r]
    BY <1>8 DEF AttemptSucceeds
  <2>2. NextRow(v, new) /\ new.state = row[v].state
    <3>1. Listed(v, reading[v].block)
      BY <1>8 DEF AttemptSucceeds, IsResolved
    <3>2. QED
      BY <1>1, <1>2, <3>1, MembersRow
  <2>3. row[v].state \in Int
    BY <1>1 DEF TableOK, Row
  <2>4. r \in Entry /\ r.attempt = 0
    BY <1>7
  <2> HIDE DEF new, r
  <2>5. ReadingOK'
    BY <1>5, <2>1, <2>4
  <2>6. ASSUME TableOK' PROVE SeenOK'
    <3>1. row' = [row EXCEPT ![v] = new] /\ vaults' = vaults
      BY <1>3, <2>1 DEF Write
    <3>2. new.state >= row[v].state
      BY <2>2, <2>3
    <3>3. QED
      BY <1>1, <2>2, <2>6, <3>1, <3>2, SeenAfterWrite
  <2>7. QED
    BY <1>3, <1>4, <1>6, <2>1, <2>2, <2>5, <2>6, WriteKeeps
<1>9. CASE AttemptFails(v)
  <2> DEFINE r == NextAttempt(reading[v])
  <2>1. reading' = [reading EXCEPT ![v] = r] /\ UNCHANGED <<row, members>>
    BY <1>9 DEF AttemptFails
  <2>2. reading[v] \in Entry
    BY <1>2
  <2>3. r \in Entry /\ (r.attempt # 0 => r.block = reading[v].block)
    <3>1. CASE reading[v].attempt < Attempts
      BY <2>2, <3>1, CronBatchesAssumption DEF NextAttempt
    <3>2. CASE ~(reading[v].attempt < Attempts)
      BY <1>7, <3>2 DEF NextAttempt
    <3>3. QED
      BY <3>1, <3>2
  <2> HIDE DEF r
  <2>4. ReadingOK'
    BY <1>5, <2>1, <2>3
  <2>5. SeenOK'
    BY <1>1, <1>3, <2>1 DEF SeenOK, Reached
  <2>6. QED
    BY <1>3, <1>4, <1>6, <2>1, <2>4, <2>5, NoWriteKeeps
<1>10. QED
  BY <1>8, <1>9

-----------------------------------------------------------------------------
(***************************************************************************)
(* The run of the vaults cron.                                             *)
(***************************************************************************)
\* What a run knows of the list of its block.
LEMMA RunFacts ==
  ASSUME IInv, vaults.pc # "idle"
  PROVE  /\ vaults.block \in 1..Latest /\ vaults.block \in 1..MaxBlock
         /\ lists[vaults.block] \in Seq(Vaults)
         /\ Len(lists[vaults.block]) \in Nat /\ vaults.limit <= Len(lists[vaults.block])
         /\ vaults.limit \in Nat /\ vaults.offset \in Nat /\ vaults.seen \in SUBSET Vaults
         /\ vaults.unsaved \in SUBSET Vaults /\ vaults.items \in Seq(Vaults)
<1>1. vaults \in VaultsRun /\ vaults.block \in 1..Latest /\ vaults.limit <= Len(lists[vaults.block])
  BY DEF IInv, VaultsOK
<1>2. lists \in Seq(Seq(Vaults)) /\ Latest \in 1..MaxBlock
  BY DEF IInv, ChainOK
<1>3. lists[vaults.block] \in Seq(Vaults) /\ vaults.block \in 1..MaxBlock
  BY <1>1, <1>2, CronBatchesAssumption DEF Latest
<1>4. vaults.limit \in Nat
  BY <1>1, CronBatchesAssumption, FS_CardinalityType DEF VaultsRun
<1>5. QED
  BY <1>1, <1>3, <1>4 DEF VaultsRun

\* The batch at the offset: from there to its end, within the limit.
LEMMA BatchFacts ==
  ASSUME IInv, vaults.pc # "idle", vaults.offset < vaults.limit
  PROVE  /\ BatchEnd(vaults) \in Nat /\ vaults.offset < BatchEnd(vaults)
         /\ BatchEnd(vaults) <= vaults.limit
         /\ VaultsBatch = SubSeq(lists[vaults.block], vaults.offset + 1, BatchEnd(vaults))
         /\ VaultsBatch \in Seq(Vaults)
         /\ \A i \in 1..Len(lists[vaults.block]) :
              vaults.offset < i /\ i <= BatchEnd(vaults) =>
                lists[vaults.block][i] \in Range(VaultsBatch)
<1> DEFINE list == lists[vaults.block]
           offset == vaults.offset
           limit == vaults.limit
           size == Min(BatchSize, limit - offset)
           e == IF offset + size < Len(list) THEN offset + size ELSE Len(list)
           batch == Slice(list, offset, size)
<1>1. /\ list \in Seq(Vaults) /\ Len(list) \in Nat /\ limit <= Len(list) /\ limit \in Nat
      /\ offset \in Nat /\ offset < limit
  BY RunFacts
<1>2. BatchSize \in Nat /\ BatchSize # 0
  BY CronBatchesAssumption
<1>3. BatchEnd(vaults) = IF offset + BatchSize < limit THEN offset + BatchSize ELSE limit
  BY DEF BatchEnd
<1>4. VaultsBatch = batch
  BY DEF VaultsBatch
<1> HIDE DEF list, offset, limit
<1>5. size \in Nat /\ e = BatchEnd(vaults) /\ e \in Nat /\ offset < e /\ e <= limit
  BY <1>1, <1>2, <1>3 DEF Min
<1> HIDE DEF size
<1>6. /\ batch = SubSeq(list, offset + 1, e) /\ batch \in Seq(Vaults)
      /\ Len(batch) = IF offset < e THEN e - offset ELSE 0
      /\ \A i \in 1..Len(batch) : offset + i \in 1..e /\ batch[i] = list[offset + i]
  <2>1. list \in Seq(Vaults) /\ offset \in Nat /\ size \in Nat
    BY <1>1, <1>5
  <2>2. QED
    BY <2>1, SliceFacts, Zenon
<1> HIDE DEF e, batch
<1>7. ASSUME NEW i \in 1..Len(list), offset < i, i <= e PROVE list[i] \in Range(batch)
  <2>1. i - offset \in 1..Len(batch) /\ offset + (i - offset) = i
    BY <1>1, <1>5, <1>6, <1>7
  <2>2. batch[i - offset] = list[i]
    BY <1>6, <2>1
  <2>3. DOMAIN batch = 1..Len(batch)
    BY <1>6
  <2>4. QED
    BY <2>1, <2>2, <2>3 DEF Range
<1>8. QED
  BY <1>4, <1>5, <1>6, <1>7 DEF list, offset, limit

\* The run begins at the safe block, which was mined.
LEMMA StartVaultsKeeps == ASSUME IInv, StartVaults PROVE IInv'
<1> DEFINE b == SafeBlock
           count == Len(lists[b])
           limit == Limit(count)
<1>1. /\ UNCHANGED <<lists, row, reading, members, settings, missed, faults>> /\ Serves
      /\ vaults' = [NoVaultsRun EXCEPT !.pc = "batch", !.block = b, !.limit = limit]
  BY DEF StartVaults, Serves, chain
<1>2. ChainOK /\ ReadingOK /\ SettingsOK
  BY DEF IInv
<1>3. b \in 1..Latest /\ b \in 0..MaxBlock
  BY <1>2, Blocks DEF SafeBlock, ChainOK
<1>4. lists[b] \in Seq(Vaults) /\ Injective(lists[b])
  BY <1>2, <1>3 DEF ChainOK, Latest
<1>5. count \in 0..Cardinality(Vaults) /\ Cardinality(Vaults) \in Nat
  BY <1>4, ListIsShort, CronBatchesAssumption, FS_CardinalityType
<1>6. minimal \in Nat
  BY <1>2, CronBatchesAssumption DEF SettingsOK, settings
<1> HIDE DEF b, count
<1>7. limit \in 0..Cardinality(Vaults) /\ limit <= count
  BY <1>5, <1>6 DEF Limit, Min
<1> HIDE DEF limit
<1>8. vaults' \in VaultsRun /\ vaults'.pc = "batch" /\ vaults'.block = b /\ vaults'.limit = limit
      /\ vaults'.offset = 0 /\ vaults'.seen = {}
  <2>1. 0 \in 0..MaxBlock /\ 0 \in 0..Cardinality(Vaults) /\ << >> \in Seq(Vaults)
    BY <1>3, <1>5, CronBatchesAssumption
  <2>2. NoVaultsRun \in VaultsRun
    BY <2>1, CronBatchesAssumption DEF NoVaultsRun, VaultsRun
  <2>3. NoVaultsRun.offset = 0 /\ NoVaultsRun.seen = {}
    BY DEF NoVaultsRun
  <2>4. QED
    BY <1>1, <1>3, <1>7, <2>2, <2>3 DEF VaultsRun
<1>9. Grows
  BY <1>1, <1>2, SameChain
<1>10. VaultsOK'
  <2>1. Covered(vaults, vaults.offset)'
    BY <1>8 DEF Covered
  <2>2. vaults'.block \in 1..Latest' /\ vaults'.limit <= Len(lists'[vaults'.block])
    BY <1>1, <1>3, <1>7, <1>8 DEF Latest, count
  <2>3. QED
    BY <1>8, <2>1, <2>2 DEF VaultsOK
<1>11. SeenOK' /\ ReadingOK'
  BY <1>1, <1>2, <1>8, <1>9, ReadingStays DEF SeenOK
<1>12. SettingsOK'
  BY <1>1, <1>2, SettingsStay
<1>13. QED
  BY <1>1, <1>10, <1>11, <1>12, NoWriteKeeps

\* A batch is read.
LEMMA ReadBatchKeeps == ASSUME IInv, ReadBatch PROVE IInv'
<1>1. /\ UNCHANGED <<lists, row, reading, members, settings, missed, faults>> /\ Serves
      /\ vaults' = [vaults EXCEPT !.pc = "item", !.items = VaultsBatch]
      /\ vaults.pc = "batch" /\ vaults.offset < vaults.limit
  BY DEF ReadBatch, Serves, chain
<1>2. ChainOK /\ ReadingOK /\ VaultsOK /\ SeenOK /\ SettingsOK /\ Grows
  BY <1>1, SameChain DEF IInv
<1>3. /\ BatchEnd(vaults) \in Nat /\ vaults.offset < BatchEnd(vaults)
      /\ VaultsBatch = SubSeq(lists[vaults.block], vaults.offset + 1, BatchEnd(vaults))
      /\ VaultsBatch \in Seq(Vaults)
  BY <1>1, BatchFacts
<1>4. /\ vaults' \in VaultsRun /\ vaults'.pc = "item" /\ vaults'.items = VaultsBatch
      /\ vaults'.block = vaults.block /\ vaults'.limit = vaults.limit
      /\ vaults'.offset = vaults.offset /\ vaults'.seen = vaults.seen
      /\ vaults'.unsaved = vaults.unsaved /\ vaults'.late = vaults.late
  BY <1>1, <1>2, <1>3 DEF VaultsOK, VaultsRun
<1>5. VaultsOK'
  <2>1. PICK run, k, e : run = vaults /\ k = vaults.offset /\ e = BatchEnd(vaults)
    OBVIOUS
  <2>2. Covered(run, k) /\ run.block \in 1..Latest /\ run.limit <= Len(lists[run.block])
    BY <1>1, <1>2, <2>1 DEF VaultsOK
  <2>3. Covered(vaults, k)'
    BY <1>2, <1>4, <2>1, <2>2, CoveredStays
  <2>4. BatchEnd(vaults)' = e
    BY <1>4, <2>1 DEF BatchEnd
  <2>5. k \in vaults'.offset..(e - 1)
    BY <1>1, <1>3, <1>4, <2>1, RunFacts
  <2>6. vaults'.items = SubSeq(lists'[vaults'.block], k + 1, e)
    BY <1>1, <1>3, <1>4, <2>1
  <2>7. vaults'.block \in 1..Latest' /\ vaults'.limit <= Len(lists'[vaults'.block])
    BY <1>1, <1>4, <2>1, <2>2 DEF Latest
  <2>8. QED
    BY <1>4, <2>3, <2>4, <2>5, <2>6, <2>7 DEF VaultsOK
<1>6. SeenOK'
  BY <1>1, <1>2, <1>4 DEF SeenOK, Reached
<1>7. ReadingOK' /\ SettingsOK'
  BY <1>1, <1>2, ReadingStays, SettingsStay
<1>8. QED
  BY <1>1, <1>5, <1>6, <1>7, NoWriteKeeps

\* A batch that cannot be read is passed over, and remembered.
LEMMA BatchFailsKeeps == ASSUME IInv, BatchFails PROVE IInv'
<1> DEFINE n == vaults.offset + BatchSize
           lost == {<<v, vaults.block>> : v \in Range(VaultsBatch)}
<1>1. /\ UNCHANGED <<lists, row, reading, members, crons, minimal>> /\ Serves /\ Fault
      /\ vaults' = [vaults EXCEPT !.offset = n] /\ missed' = missed \cup lost
      /\ vaults.pc = "batch" /\ vaults.offset < vaults.limit
  BY DEF BatchFails, Advance, settings, Serves, chain
<1>2. ChainOK /\ ReadingOK /\ VaultsOK /\ SeenOK /\ SettingsOK /\ Grows
  BY <1>1, SameChain DEF IInv
<1>3. n \in Nat /\ vaults.offset \in Nat /\ vaults.block \in 1..MaxBlock /\ vaults.limit \in Nat
      /\ vaults.block \in 1..Latest /\ vaults.limit <= Len(lists[vaults.block])
  BY <1>1, RunFacts, CronBatchesAssumption
<1> HIDE DEF n
<1>4. /\ vaults' \in VaultsRun /\ vaults'.pc = "batch"
      /\ vaults'.block = vaults.block /\ vaults'.limit = vaults.limit
      /\ vaults'.offset = n /\ vaults'.seen = vaults.seen
      /\ vaults'.unsaved = vaults.unsaved /\ vaults'.late = vaults.late
  BY <1>1, <1>2, <1>3 DEF VaultsOK, VaultsRun
<1>5. VaultsOK'
  <2>1. PICK run, k : run = vaults /\ k = vaults.offset
    OBVIOUS
  <2>2. Covered(run, k)
    BY <1>1, <1>2, <2>1 DEF VaultsOK
  <2>3. Covered(vaults, k)'
    BY <1>2, <1>3, <1>4, <2>1, <2>2, CoveredStays
  <2> DEFINE list == lists[vaults.block]
  <2>4. \A i \in 1..Len(list) : k < i /\ i <= BatchEnd(vaults) => list[i] \in Range(VaultsBatch)
    BY <1>1, <2>1, BatchFacts
  <2>5. lists'[vaults'.block] = list
    BY <1>1, <1>4
  <2>6. Len(list) \in Nat
    BY <1>1, RunFacts
  <2> HIDE DEF list
  <2>7. ASSUME NEW i \in 1..Len(list), i <= n, i <= vaults.limit
        PROVE  list[i] \in vaults'.seen \/ <<list[i], vaults'.block>> \in missed'
    <3>1. CASE i <= k
      BY <1>4, <2>3, <2>5, <2>7, <3>1 DEF Covered
    <3>2. CASE ~(i <= k)
      <4>1. k < i /\ i <= BatchEnd(vaults)
        BY <1>3, <2>1, <2>6, <2>7, <3>2 DEF BatchEnd, n
      <4>2. list[i] \in Range(VaultsBatch)
        BY <2>4, <2>7, <4>1
      <4>3. <<list[i], vaults.block>> \in lost
        BY <4>2
      <4>4. QED
        BY <1>1, <1>4, <4>3
    <3>3. QED
      BY <3>1, <3>2
  <2>8. Covered(vaults, vaults.offset)'
    BY <1>4, <2>5, <2>7 DEF Covered
  <2>9. vaults'.block \in 1..Latest' /\ vaults'.limit <= Len(lists'[vaults'.block])
    BY <1>1, <1>3, <1>4 DEF Latest
  <2>10. QED
    BY <1>4, <2>8, <2>9 DEF VaultsOK
<1>6. SeenOK'
  BY <1>1, <1>2, <1>4 DEF SeenOK, Reached
<1>7. ReadingOK'
  BY <1>1, <1>2, ReadingStays
<1>8. SettingsOK'
  <2>1. VaultsBatch \in Seq(Vaults)
    BY <1>1, BatchFacts
  <2>2. Range(VaultsBatch) \subseteq Vaults
    BY <2>1 DEF Range
  <2>3. missed' \subseteq Vaults \X (1..MaxBlock)
    BY <1>1, <1>2, <1>3, <2>2 DEF SettingsOK
  <2>4. faults' \in 0..MaxFaults
    BY <1>1, <1>2, CronBatchesAssumption DEF SettingsOK, Fault
  <2>5. settings' \in Settings
    BY <1>1, <1>2 DEF SettingsOK, settings
  <2>6. QED
    BY <2>3, <2>4, <2>5 DEF SettingsOK
<1>9. QED
  BY <1>1, <1>5, <1>6, <1>7, <1>8, NoWriteKeeps

\* The items left of a batch are the list from place k + 1 to the end of the batch.
LEMMA ItemFacts ==
  ASSUME IInv, vaults.pc = "item"
  PROVE  \E k \in Nat :
           /\ Covered(vaults, k) /\ vaults.offset <= k /\ k < BatchEnd(vaults)
           /\ k + 1 \in 1..Len(lists[vaults.block])
           /\ Len(vaults.items) = BatchEnd(vaults) - k /\ vaults.items[1] = lists[vaults.block][k + 1]
           /\ Tail(vaults.items) = SubSeq(lists[vaults.block], (k + 1) + 1, BatchEnd(vaults))
<1> DEFINE list == lists[vaults.block]
           e == BatchEnd(vaults)
           items == vaults.items
<1>1. /\ list \in Seq(Vaults) /\ Len(list) \in Nat /\ vaults.limit <= Len(list)
      /\ vaults.limit \in Nat /\ vaults.offset \in Nat
  BY RunFacts
<1>2. e \in Nat /\ e <= Len(list)
  BY <1>1, CronBatchesAssumption DEF BatchEnd
<1>3. PICK k \in vaults.offset..(e - 1) :
        Covered(vaults, k) /\ items = SubSeq(list, k + 1, e)
  BY DEF IInv, VaultsOK
<1> HIDE DEF list, e, items
<1>4. /\ k \in Nat /\ vaults.offset <= k /\ k < e /\ k + 1 \in 1..Len(list)
      /\ k + 1 \in Int /\ (k + 1) + 1 \in Int
  BY <1>1, <1>2, <1>3
<1>5. /\ items \in Seq(Vaults) /\ Len(items) = e - k
      /\ \A i \in 1..(e - k) : items[i] = list[k + i]
  <2>1. \A i \in (k + 1)..e : list[i] \in Vaults
    BY <1>1, <1>2, <1>4
  <2> DEFINE m == k + 1
  <2>2. /\ SubSeq(list, m, e) \in Seq(Vaults)
        /\ Len(SubSeq(list, m, e)) = IF m <= e THEN e - m + 1 ELSE 0
        /\ \A i \in 1..(e - m + 1) : SubSeq(list, m, e)[i] = list[m + i - 1]
    BY <1>2, <1>4, <2>1, SubSeqProperties
  <2>3. \A i \in 1..(e - k) : i \in 1..(e - m + 1) /\ m + i - 1 = k + i
    BY <1>2, <1>4
  <2>4. Len(items) = e - k /\ items \in Seq(Vaults)
    BY <1>2, <1>3, <1>4, <2>2
  <2>5. \A i \in 1..(e - k) : items[i] = list[k + i]
    BY <1>3, <2>2, <2>3
  <2>6. QED
    BY <2>4, <2>5
<1>6. items[1] = list[k + 1]
  BY <1>2, <1>4, <1>5
<1>7. Tail(items) = SubSeq(list, (k + 1) + 1, e)
  <2> DEFINE m == (k + 1) + 1
             rest == SubSeq(list, m, e)
             tail == Tail(items)
  <2>1. \A i \in m..e : list[i] \in Vaults
    BY <1>1, <1>2, <1>4
  <2>2. /\ rest \in Seq(Vaults)
        /\ Len(rest) = IF m <= e THEN e - m + 1 ELSE 0
        /\ \A i \in 1..(e - m + 1) : rest[i] = list[m + i - 1]
    BY <1>2, <1>4, <2>1, SubSeqProperties
  <2>3. items # << >>
    BY <1>2, <1>4, <1>5
  <2>4. /\ tail \in Seq(Vaults) /\ Len(tail) = Len(items) - 1
        /\ \A i \in 1..Len(tail) : tail[i] = items[i + 1]
    BY <1>5, <2>3
  <2> HIDE DEF rest, tail
  <2>5. Len(rest) = e - k - 1 /\ Len(tail) = e - k - 1
    BY <1>2, <1>4, <1>5, <2>2, <2>4
  <2>6. ASSUME NEW i \in 1..Len(tail) PROVE tail[i] = rest[i]
    <3>1. i + 1 \in 1..(e - k) /\ i \in 1..(e - m + 1) /\ m + i - 1 = k + (i + 1)
      BY <1>2, <1>4, <2>5, <2>6
    <3>2. tail[i] = list[k + (i + 1)] /\ rest[i] = list[m + i - 1]
      BY <1>5, <2>2, <2>4, <2>6, <3>1
    <3>3. QED
      BY <3>1, <3>2
  <2>7. tail = rest
    BY <2>2, <2>4, <2>5, <2>6, SeqEqual
  <2>8. QED
    BY <2>7 DEF tail, rest
<1>8. QED
  BY <1>3, <1>4, <1>5, <1>6, <1>7 DEF list, e, items

\* The place after k is in the batch while more than one item is left.
LEMMA NextPlace ==
  ASSUME NEW o \in Nat, NEW k \in Nat, NEW e \in Nat, o <= k, e - k > 1
  PROVE  k + 1 \in o..(e - 1)
OBVIOUS

\* An item is done: the next one, or the next batch.
LEMMA ItemDone ==
  ASSUME IInv, Grows, lists' = lists, vaults.pc = "item", vaults' \in VaultsRun,
         vaults'.block = vaults.block, vaults'.limit = vaults.limit,
         vaults'.seen = vaults.seen \cup {vaults.items[1]},
         \/ /\ Len(vaults.items) > 1 /\ vaults'.pc = "item" /\ vaults'.offset = vaults.offset
            /\ vaults'.items = Tail(vaults.items)
         \/ /\ ~(Len(vaults.items) > 1) /\ vaults'.pc = "batch"
            /\ vaults'.offset = vaults.offset + BatchSize
  PROVE  VaultsOK'
<1> DEFINE list == lists[vaults.block]
           e == BatchEnd(vaults)
<1>1. PICK run : run = vaults
  OBVIOUS
<1>2. PICK k \in Nat :
         /\ Covered(run, k) /\ vaults.offset <= k /\ k < e /\ k + 1 \in 1..Len(list)
         /\ Len(vaults.items) = e - k /\ vaults.items[1] = list[k + 1]
         /\ Tail(vaults.items) = SubSeq(list, (k + 1) + 1, e)
  BY <1>1, ItemFacts
<1>3. /\ vaults.block \in 1..Latest /\ Len(list) \in Nat /\ vaults.limit <= Len(list)
      /\ vaults.limit \in Nat /\ vaults.offset \in Nat
  BY RunFacts
<1>4. e \in Nat /\ e = IF vaults.offset + BatchSize < vaults.limit
                       THEN vaults.offset + BatchSize ELSE vaults.limit
  BY <1>3, CronBatchesAssumption DEF BatchEnd
<1>5. vaults'.block \in 1..Latest' /\ lists'[vaults'.block] = list
      /\ vaults'.limit <= Len(lists'[vaults'.block])
  BY <1>3 DEF Latest
<1>6. Covered(vaults, k)'
  <2>1. run.block \in 1..Latest /\ vaults'.block = run.block /\ vaults'.limit = run.limit
        /\ run.seen \subseteq vaults'.seen /\ ChainOK
    BY <1>1, <1>3 DEF IInv
  <2>2. QED
    BY <1>2, <2>1, CoveredStays
<1> HIDE DEF list, e
<1>7. \A i \in 1..Len(list) : i <= k + 1 /\ i <= vaults.limit =>
        list[i] \in vaults'.seen \/ <<list[i], vaults'.block>> \in missed'
  <2>1. SUFFICES ASSUME NEW i \in 1..Len(list), i <= k + 1, i <= vaults.limit
                 PROVE  list[i] \in vaults'.seen \/ <<list[i], vaults'.block>> \in missed'
    OBVIOUS
  <2>2. CASE i = k + 1
    BY <1>2, <2>2
  <2>3. CASE i # k + 1
    <3>1. i <= k
      BY <1>2, <1>3, <2>1, <2>3
    <3>2. QED
      BY <1>5, <1>6, <2>1, <3>1 DEF Covered
  <2>4. QED
    BY <2>2, <2>3
<1>8. CASE Len(vaults.items) > 1
  <2>1. /\ vaults'.pc = "item" /\ vaults'.offset = vaults.offset
        /\ vaults'.items = SubSeq(list, (k + 1) + 1, e)
    BY <1>2, <1>8
  <2>2. PICK j : j = k + 1
    OBVIOUS
  <2>3. BatchEnd(vaults)' = e
    BY <2>1 DEF BatchEnd, e
  <2>4. j \in vaults'.offset..(e - 1)
    <3>1. e - k > 1 /\ e \in Nat /\ vaults.offset \in Nat /\ vaults.offset <= k
      BY <1>2, <1>3, <1>4, <1>8, Zenon
    <3>2. k + 1 \in vaults.offset..(e - 1)
      BY <3>1, NextPlace, Zenon
    <3>3. QED
      BY <2>1, <2>2, <3>2, Zenon
  <2>5. Covered(vaults, j)'
    BY <1>5, <1>7, <2>2 DEF Covered
  <2>6. vaults'.items = SubSeq(lists'[vaults'.block], j + 1, e)
    BY <1>5, <2>1, <2>2
  <2>7. QED
    BY <1>5, <2>1, <2>3, <2>4, <2>5, <2>6 DEF VaultsOK
<1>9. CASE ~(Len(vaults.items) > 1)
  <2>1. vaults'.pc = "batch" /\ vaults'.offset = vaults.offset + BatchSize
    BY <1>9
  <2>2. e = k + 1
    BY <1>2, <1>4, <1>9
  <2>3. \A i \in 1..Len(list) : i <= vaults'.offset /\ i <= vaults.limit => i <= k + 1
    BY <1>3, <1>4, <2>1, <2>2, CronBatchesAssumption
  <2>4. Covered(vaults, vaults.offset)'
    BY <1>5, <1>7, <2>3 DEF Covered
  <2>5. QED
    BY <1>5, <2>1, <2>4 DEF VaultsOK
<1>10. QED
  BY <1>8, <1>9

\* The loop's next state.
LEMMA NextItemFacts ==
  ASSUME IInv, vaults.pc = "item"
  PROVE  /\ NextItem(vaults) \in VaultsRun /\ vaults.items[1] \in Vaults
         /\ Listed(vaults.items[1], vaults.block)
         /\ NextItem(vaults).block = vaults.block /\ NextItem(vaults).limit = vaults.limit
         /\ NextItem(vaults).seen = vaults.seen /\ NextItem(vaults).unsaved = vaults.unsaved
         /\ NextItem(vaults).late = vaults.late
         /\ \/ /\ Len(vaults.items) > 1 /\ NextItem(vaults).pc = "item"
               /\ NextItem(vaults).offset = vaults.offset
               /\ NextItem(vaults).items = Tail(vaults.items)
            \/ /\ ~(Len(vaults.items) > 1) /\ NextItem(vaults).pc = "batch"
               /\ NextItem(vaults).offset = vaults.offset + BatchSize
<1>1. vaults \in VaultsRun
  BY DEF IInv, VaultsOK
<1>2. /\ vaults.offset \in Nat /\ vaults.items \in Seq(Vaults)
      /\ lists[vaults.block] \in Seq(Vaults)
  BY RunFacts
<1>3. PICK k \in Nat :
         /\ Covered(vaults, k) /\ vaults.offset <= k /\ k < BatchEnd(vaults)
         /\ k + 1 \in 1..Len(lists[vaults.block])
         /\ Len(vaults.items) = BatchEnd(vaults) - k /\ vaults.items[1] = lists[vaults.block][k + 1]
         /\ Tail(vaults.items) = SubSeq(lists[vaults.block], (k + 1) + 1, BatchEnd(vaults))
  BY ItemFacts
<1>4. vaults.items[1] \in Vaults /\ Listed(vaults.items[1], vaults.block)
  BY <1>2, <1>3 DEF Listed, Range
<1> DEFINE tail == Tail(vaults.items)
           n == vaults.offset + BatchSize
<1>5. n \in Nat /\ << >> \in Seq(Vaults) /\ tail \in Seq(Vaults)
  <2>1. BatchEnd(vaults) \in Nat
    BY RunFacts, CronBatchesAssumption DEF BatchEnd
  <2>2. Len(vaults.items) # 0
    BY <1>3, <2>1
  <2>3. tail \in Seq(Vaults)
    BY <1>2, <2>2
  <2>4. QED
    BY <1>2, <2>3, CronBatchesAssumption
<1>6. NextItem(vaults) = IF Len(vaults.items) > 1 THEN [vaults EXCEPT !.items = tail]
        ELSE [[vaults EXCEPT !.offset = n] EXCEPT !.items = << >>, !.pc = "batch"]
  BY DEF NextItem, Advance
<1> HIDE DEF tail, n
<1>7. CASE Len(vaults.items) > 1
  <2>1. NextItem(vaults) = [vaults EXCEPT !.items = tail]
    BY <1>6, <1>7
  <2>2. NextItem(vaults) \in VaultsRun
    BY <1>1, <1>5, <2>1 DEF VaultsRun
  <2>3. QED
    BY <1>1, <1>4, <1>7, <2>1, <2>2 DEF VaultsRun, tail
<1>8. CASE ~(Len(vaults.items) > 1)
  <2>1. NextItem(vaults) = [[vaults EXCEPT !.offset = n] EXCEPT !.items = << >>, !.pc = "batch"]
    BY <1>6, <1>8
  <2>2. NextItem(vaults) \in VaultsRun
    BY <1>1, <1>5, <2>1 DEF VaultsRun
  <2>3. QED
    BY <1>1, <1>4, <1>8, <2>1, <2>2 DEF VaultsRun, n
<1>9. QED
  BY <1>7, <1>8

\* A vault of the batch is saved: it is as new as the run now.
LEMMA SaveItemKeeps == ASSUME IInv, SaveItem PROVE IInv'
<1> DEFINE v == vaults.items[1]
           b == vaults.block
           new == ConnectedRow(v, b)
           next == NextItem(vaults)
           seen == next.seen \cup {v}
<1>1. /\ UNCHANGED <<lists, reading, settings, missed, faults>> /\ Serves /\ vaults.pc = "item"
      /\ vaults' = [next EXCEPT !.seen = seen] /\ Write(v, new)
  BY DEF SaveItem, ConnectedRow, Serves, chain
<1>2. /\ next \in VaultsRun /\ v \in Vaults /\ Listed(v, b)
      /\ next.block = b /\ next.limit = vaults.limit
      /\ next.seen = vaults.seen /\ next.unsaved = vaults.unsaved /\ next.late = vaults.late
      /\ \/ /\ Len(vaults.items) > 1 /\ next.pc = "item" /\ next.offset = vaults.offset
            /\ next.items = Tail(vaults.items)
         \/ /\ ~(Len(vaults.items) > 1) /\ next.pc = "batch"
            /\ next.offset = vaults.offset + BatchSize
  BY <1>1, NextItemFacts
<1>3. /\ ChainOK /\ TableOK /\ ReadingOK /\ VaultsOK /\ SeenOK /\ SettingsOK /\ Grows
      /\ b \in 1..Latest
  BY <1>1, SameChain, RunFacts DEF IInv
<1> HIDE DEF next
<1>4. seen \in SUBSET Vaults
  BY <1>2 DEF VaultsRun
<1> HIDE DEF seen
<1>5. /\ vaults' \in VaultsRun /\ vaults'.block = b /\ vaults'.limit = vaults.limit
      /\ vaults'.seen = seen /\ vaults'.unsaved = vaults.unsaved /\ vaults'.late = vaults.late
      /\ vaults'.pc = next.pc /\ vaults'.offset = next.offset /\ vaults'.items = next.items
  BY <1>1, <1>2, <1>4 DEF VaultsRun
<1>6. vaults'.seen = vaults.seen \cup {v}
  BY <1>2, <1>5 DEF seen
<1>7. VaultsOK'
  <2>1. \/ /\ Len(vaults.items) > 1 /\ vaults'.pc = "item" /\ vaults'.offset = vaults.offset
           /\ vaults'.items = Tail(vaults.items)
        \/ /\ ~(Len(vaults.items) > 1) /\ vaults'.pc = "batch"
           /\ vaults'.offset = vaults.offset + BatchSize
    BY <1>2, <1>5
  <2>2. QED
    BY <1>1, <1>3, <1>5, <1>6, <2>1, ItemDone
<1>8. NextRow(v, new) /\ new.id # 0 /\ new.state = b /\ new.block >= b
  BY <1>2, <1>3, ConnectedRowFacts
<1> HIDE DEF new, v
<1>9. ASSUME TableOK' PROVE SeenOK'
  <2>1. row \in [Vaults -> Row] /\ row' = [row EXCEPT ![v] = new] /\ b \in Int
    BY <1>1, <1>3 DEF TableOK, Write
  <2>2. row'[v] = new /\ \A w \in Vaults \ {v} : row'[w] = row[w]
    BY <1>2, <2>1
  <2>3. ASSUME NEW w \in vaults'.seen
        PROVE  \/ Reached(w, vaults', row'[w])
               \/ /\ w \in vaults.seen
                  /\ row[w].id # 0 => /\ row'[w].id # 0 /\ row'[w].block >= row[w].block
                                      /\ row'[w].state >= row[w].state
    <3>1. CASE w = v
      <4>1. row'[w].id # 0 /\ row'[w].block >= vaults'.block /\ row'[w].state >= vaults'.block
        BY <1>5, <1>8, <2>1, <2>2, <3>1
      <4>2. QED
        BY <4>1 DEF Reached
    <3>2. CASE w # v
      <4>1. w \in vaults.seen /\ w \in Vaults
        BY <1>4, <1>5, <1>6, <2>3, <3>2
      <4>2. row'[w] = row[w] /\ row[w].block \in Int /\ row[w].state \in Int
        BY <2>1, <2>2, <3>2, <4>1 DEF Row
      <4>3. QED
        BY <4>1, <4>2
    <3>3. QED
      BY <3>1, <3>2
  <2>4. QED
    BY <1>3, <1>4, <1>5, <1>9, <2>3, SeenStays
<1>10. ReadingOK' /\ SettingsOK'
  BY <1>1, <1>3, ReadingStays, SettingsStay
<1>11. QED
  BY <1>1, <1>2, <1>7, <1>8, <1>9, <1>10, WriteKeeps

\* A vault of the batch fails: it counts as seen, and is excused.
LEMMA ItemFailsKeeps == ASSUME IInv, ItemFails PROVE IInv'
<1> DEFINE v == vaults.items[1]
           b == vaults.block
           next == NextItem(vaults)
           seen == next.seen \cup {v}
           unsaved == next.unsaved \cup {v}
           stated == [GetOrCreate(v) EXCEPT !.state = b]
<1>1. /\ UNCHANGED <<lists, reading, settings, missed>> /\ Serves /\ vaults.pc = "item" /\ Fault
      /\ vaults' = [next EXCEPT !.seen = seen, !.unsaved = unsaved]
  BY DEF ItemFails, Serves, chain
<1>2. /\ next \in VaultsRun /\ v \in Vaults
      /\ next.block = b /\ next.limit = vaults.limit
      /\ next.seen = vaults.seen /\ next.unsaved = vaults.unsaved /\ next.late = vaults.late
      /\ \/ /\ Len(vaults.items) > 1 /\ next.pc = "item" /\ next.offset = vaults.offset
            /\ next.items = Tail(vaults.items)
         \/ /\ ~(Len(vaults.items) > 1) /\ next.pc = "batch"
            /\ next.offset = vaults.offset + BatchSize
  BY <1>1, NextItemFacts
<1>3. /\ ChainOK /\ TableOK /\ ReadingOK /\ VaultsOK /\ SeenOK /\ SettingsOK /\ Grows
      /\ b \in 1..Latest
  BY <1>1, SameChain, RunFacts DEF IInv
<1>4. PICK new : Write(v, new) /\ new \in {row[v], GetOrCreate(v), stated}
  BY DEF ItemFails
<1>5. NextRow(v, new)
  <2>1. NextRow(v, row[v]) /\ NextRow(v, GetOrCreate(v))
    BY <1>2, <1>3, SameRow, CreatedRow
  <2>2. PICK g : g = GetOrCreate(v)
    OBVIOUS
  <2>3. NextRow(v, [g EXCEPT !.state = b])
    BY <1>2, <1>3, <2>1, <2>2, StateRow
  <2>4. QED
    BY <1>4, <2>1, <2>2, <2>3
<1> HIDE DEF next, stated, v
<1>6. seen \in SUBSET Vaults /\ unsaved \in SUBSET Vaults
  BY <1>2 DEF VaultsRun
<1> HIDE DEF seen, unsaved
<1>7. /\ vaults' \in VaultsRun /\ vaults'.block = b /\ vaults'.limit = vaults.limit
      /\ vaults'.seen = seen /\ vaults'.unsaved = unsaved /\ vaults'.late = vaults.late
      /\ vaults'.pc = next.pc /\ vaults'.offset = next.offset /\ vaults'.items = next.items
  BY <1>1, <1>2, <1>6 DEF VaultsRun
<1>8. vaults'.seen = vaults.seen \cup {v} /\ vaults'.unsaved = vaults.unsaved \cup {v}
  BY <1>2, <1>7 DEF seen, unsaved
<1>9. VaultsOK'
  <2>1. \/ /\ Len(vaults.items) > 1 /\ vaults'.pc = "item" /\ vaults'.offset = vaults.offset
           /\ vaults'.items = Tail(vaults.items)
        \/ /\ ~(Len(vaults.items) > 1) /\ vaults'.pc = "batch"
           /\ vaults'.offset = vaults.offset + BatchSize
    BY <1>2, <1>7
  <2>2. vaults'.seen = vaults.seen \cup {vaults.items[1]}
    BY <1>8 DEF v
  <2>3. QED
    BY <1>1, <1>3, <1>7, <2>1, <2>2, ItemDone
<1>10. ASSUME TableOK' PROVE SeenOK'
  <2>1. row \in [Vaults -> Row] /\ row' = [row EXCEPT ![v] = new]
    BY <1>3, <1>4 DEF TableOK, Write
  <2>2. \A w \in Vaults \ {v} : row'[w] = row[w]
    BY <1>2, <2>1
  <2>3. ASSUME NEW w \in vaults'.seen
        PROVE  \/ Reached(w, vaults', row'[w])
               \/ /\ w \in vaults.seen
                  /\ row[w].id # 0 => /\ row'[w].id # 0 /\ row'[w].block >= row[w].block
                                      /\ row'[w].state >= row[w].state
    <3>1. CASE w = v
      BY <1>8, <3>1 DEF Reached
    <3>2. CASE w # v
      <4>1. w \in vaults.seen /\ w \in Vaults
        BY <1>6, <1>7, <1>8, <2>3, <3>2
      <4>2. row'[w] = row[w] /\ row[w].block \in Int /\ row[w].state \in Int
        BY <2>1, <2>2, <3>2, <4>1 DEF Row
      <4>3. QED
        BY <4>1, <4>2
    <3>3. QED
      BY <3>1, <3>2
  <2>4. vaults'.seen \subseteq Vaults /\ vaults.unsaved \subseteq vaults'.unsaved
    BY <1>6, <1>7, <1>8
  <2>5. QED
    BY <1>3, <1>7, <1>10, <2>3, <2>4, SeenStays
<1>11. ReadingOK' /\ SettingsOK'
  BY <1>1, <1>3, ReadingStays, SettingsStay
<1>12. QED
  BY <1>1, <1>2, <1>4, <1>5, <1>9, <1>10, <1>11, WriteKeeps

\* The detection looks at the rows no batch has returned, and only after a full list.
LEMMA DetectKeeps == ASSUME IInv, Detect PROVE IInv'
<1> DEFINE rest == Connected \ vaults.seen
           unseen == ById(rest)
<1>1. /\ UNCHANGED <<lists, row, reading, members, settings, missed, faults>> /\ Serves
      /\ vaults.pc = "batch" /\ vaults.offset >= vaults.limit
      /\ vaults' = IF DetectsDisconnected /\ unseen # << >>
                   THEN [vaults EXCEPT !.pc = "disconnect", !.items = unseen]
                   ELSE [vaults EXCEPT !.pc = "end"]
  BY DEF Detect, Serves, chain
<1>2. ChainOK /\ TableOK /\ ReadingOK /\ VaultsOK /\ SeenOK /\ SettingsOK /\ Grows
  BY <1>1, SameChain DEF IInv
<1>3. /\ vaults.block \in 1..Latest /\ Len(lists[vaults.block]) \in Nat
      /\ vaults.limit <= Len(lists[vaults.block]) /\ vaults.limit \in Nat /\ vaults.offset \in Nat
  BY <1>1, RunFacts
<1>4. unseen \in Seq(Vaults) /\ \A i \in 1..Len(unseen) : unseen[i] \notin vaults.seen
  <2>1. /\ rest \in SUBSET Vaults /\ row \in [Vaults -> Row]
        /\ \A v, w \in rest : v # w => row[v].id # row[w].id
    BY <1>2, ConnectedRows DEF TableOK
  <2> HIDE DEF rest
  <2>2. /\ unseen \in Seq(Vaults) /\ Len(unseen) = Cardinality(rest)
        /\ \A i \in 1..Cardinality(rest) : unseen[i] \in rest
    BY <2>1, ByIdFacts
  <2>3. QED
    BY <2>2 DEF rest
<1> HIDE DEF unseen
<1>5. /\ vaults' \in VaultsRun /\ vaults'.block = vaults.block /\ vaults'.limit = vaults.limit
      /\ vaults'.seen = vaults.seen /\ vaults'.unsaved = vaults.unsaved
      /\ vaults'.late = vaults.late
      /\ \/ DetectsDisconnected /\ unseen # << >> /\ vaults'.pc = "disconnect"
            /\ vaults'.items = unseen
         \/ vaults'.pc = "end"
  <2>1. vaults \in VaultsRun
    BY <1>2 DEF VaultsOK
  <2>2. CASE DetectsDisconnected /\ unseen # << >>
    BY <1>1, <1>4, <2>1, <2>2 DEF VaultsRun
  <2>3. CASE ~(DetectsDisconnected /\ unseen # << >>)
    BY <1>1, <2>1, <2>3 DEF VaultsRun
  <2>4. QED
    BY <2>2, <2>3
<1>6. VaultsOK'
  <2>1. Covered(vaults, vaults.limit)'
    <3>1. Covered(vaults, vaults.limit)
      BY <1>1, <1>2, <1>3 DEF VaultsOK, Covered
    <3>2. QED
      BY <1>1, <1>5, <3>1 DEF Covered
  <2>2. vaults'.block \in 1..Latest' /\ vaults'.limit <= Len(lists'[vaults'.block])
    BY <1>1, <1>3, <1>5 DEF Latest
  <2>3. ASSUME vaults'.pc = "disconnect"
        PROVE  /\ vaults'.limit = Len(lists'[vaults'.block]) /\ vaults'.items # << >>
               /\ \A i \in 1..Len(vaults'.items) : vaults'.items[i] \notin vaults'.seen
    BY <1>1, <1>4, <1>5, <2>3 DEF DetectsDisconnected
  <2>4. QED
    BY <1>5, <2>1, <2>2, <2>3 DEF VaultsOK
<1>7. SeenOK'
  BY <1>1, <1>2, <1>5 DEF SeenOK, Reached
<1>8. ReadingOK' /\ SettingsOK'
  BY <1>1, <1>2, ReadingStays, SettingsStay
<1>9. QED
  BY <1>1, <1>6, <1>7, <1>8, NoWriteKeeps

\* After an unlisted vault the next one.
LEMMA UnseenDone ==
  ASSUME IInv, Grows, lists' = lists, vaults.pc = "disconnect", vaults' = NextUnseen(vaults)
  PROVE  /\ VaultsOK' /\ vaults'.block = vaults.block /\ vaults'.seen = vaults.seen
         /\ vaults'.unsaved = vaults.unsaved /\ vaults'.late = vaults.late
<1> DEFINE tail == Tail(vaults.items)
<1>1. /\ vaults \in VaultsRun /\ Covered(vaults, vaults.limit) /\ vaults.items # << >>
      /\ vaults.limit = Len(lists[vaults.block])
      /\ \A i \in 1..Len(vaults.items) : vaults.items[i] \notin vaults.seen
  BY DEF IInv, VaultsOK
<1>2. vaults.block \in 1..Latest /\ vaults.items \in Seq(Vaults) /\ vaults.limit \in Nat
  BY RunFacts
<1>3. /\ tail \in Seq(Vaults) /\ Len(tail) = Len(vaults.items) - 1
      /\ \A i \in 1..Len(tail) : tail[i] = vaults.items[i + 1]
  BY <1>1, <1>2
<1>4. \A i \in 1..Len(tail) : tail[i] \notin vaults.seen
  <2>1. SUFFICES ASSUME NEW i \in 1..Len(tail) PROVE tail[i] \notin vaults.seen
    OBVIOUS
  <2>2. i + 1 \in 1..Len(vaults.items)
    BY <1>2, <1>3
  <2>3. QED
    BY <1>1, <1>3, <2>2
<1>5. vaults' = IF Len(vaults.items) > 1 THEN [vaults EXCEPT !.items = tail]
                ELSE [vaults EXCEPT !.items = << >>, !.pc = "end"]
  BY DEF NextUnseen
<1> HIDE DEF tail
<1>6. /\ vaults' \in VaultsRun /\ vaults'.block = vaults.block /\ vaults'.limit = vaults.limit
      /\ vaults'.seen = vaults.seen /\ vaults'.unsaved = vaults.unsaved
      /\ vaults'.late = vaults.late
      /\ \/ Len(vaults.items) > 1 /\ vaults'.pc = "disconnect" /\ vaults'.items = tail
         \/ vaults'.pc = "end"
  <2>1. CASE Len(vaults.items) > 1
    BY <1>1, <1>3, <1>5, <2>1 DEF VaultsRun
  <2>2. CASE ~(Len(vaults.items) > 1)
    <3>1. vaults' = [vaults EXCEPT !.items = << >>, !.pc = "end"] /\ << >> \in Seq(Vaults)
      BY <1>5, <2>2
    <3>2. QED
      BY <1>1, <3>1 DEF VaultsRun
  <2>3. QED
    BY <2>1, <2>2
<1>7. Covered(vaults, vaults.limit)'
  <2>1. PICK run, k : run = vaults /\ k = vaults.limit
    OBVIOUS
  <2>2. Covered(vaults, k)'
    BY <1>1, <1>2, <1>6, <2>1, CoveredStays DEF IInv
  <2>3. QED
    BY <1>6, <2>1, <2>2
<1>8. vaults'.block \in 1..Latest' /\ vaults'.limit = Len(lists'[vaults'.block])
  BY <1>1, <1>2, <1>6 DEF Latest
<1>9. ASSUME vaults'.pc = "disconnect"
      PROVE  vaults'.items # << >> /\ \A i \in 1..Len(vaults'.items) : vaults'.items[i] \notin vaults'.seen
  <2>1. vaults'.items = tail /\ Len(vaults.items) > 1
    BY <1>6, <1>9
  <2>2. tail # << >>
    BY <1>2, <1>3, <2>1
  <2>3. QED
    BY <1>4, <1>6, <2>1, <2>2
<1>10. VaultsOK'
  <2>1. vaults'.limit <= Len(lists'[vaults'.block])
    BY <1>2, <1>6, <1>8
  <2>2. QED
    BY <1>6, <1>7, <1>8, <1>9, <2>1 DEF VaultsOK
<1>11. QED
  BY <1>6, <1>10

\* A vault that a full list did not return was not listed, unless its batch was missed.
LEMMA DisconnectUnlistedKeeps == ASSUME IInv, DisconnectUnlisted PROVE IInv'
<1> DEFINE v == vaults.items[1]
           b == vaults.block
           new == SetFlag(row[v], b, TRUE)
<1>1. /\ UNCHANGED <<lists, reading, settings, missed, faults>> /\ Serves
      /\ vaults.pc = "disconnect" /\ vaults' = NextUnseen(vaults) /\ Write(v, new)
  BY DEF DisconnectUnlisted, Serves, chain
<1>2. /\ ChainOK /\ TableOK /\ ReadingOK /\ VaultsOK /\ SeenOK /\ SettingsOK /\ Grows
      /\ b \in 1..Latest /\ lists[b] \in Seq(Vaults)
  BY <1>1, SameChain, RunFacts DEF IInv
<1>3. v \in Vaults /\ v \notin vaults.seen
  <2>1. vaults.items \in Seq(Vaults) /\ vaults.items # << >>
    BY <1>1, <1>2, RunFacts DEF VaultsOK
  <2>2. 1 \in 1..Len(vaults.items)
    BY <2>1
  <2>3. QED
    BY <1>1, <1>2, <2>1, <2>2 DEF VaultsOK
<1>4. Listed(v, b) => <<v, b>> \in missed
  <2>1. SUFFICES ASSUME Listed(v, b) PROVE <<v, b>> \in missed
    OBVIOUS
  <2>2. PICK i \in 1..Len(lists[b]) : lists[b][i] = v
    BY <1>2, <2>1 DEF Listed, Range
  <2>3. Covered(vaults, vaults.limit) /\ vaults.limit = Len(lists[b])
    BY <1>1, <1>2 DEF VaultsOK
  <2>4. i <= vaults.limit
    BY <1>2, <2>2, <2>3
  <2>5. QED
    BY <1>3, <2>2, <2>3, <2>4 DEF Covered
<1>5. row[v] \in Row /\ b \in 0..MaxBlock
  BY <1>2, <1>3, Blocks DEF TableOK
<1>6. NextRow(v, new)
  <2>1. NextRow(v, row[v])
    BY <1>2, <1>3, SameRow
  <2>2. (TRUE <=> ~Listed(v, b)) \/ <<v, b>> \in missed
    BY <1>4
  <2>3. PICK r : r = row[v]
    OBVIOUS
  <2>4. NextRow(v, SetFlag(r, b, TRUE))
    BY <1>2, <1>3, <2>1, <2>2, <2>3, FlagRow
  <2>5. QED
    BY <2>3, <2>4
<1>7. new.state = row[v].state /\ row[v].state \in Int
  <2>1. new.state = row[v].state
    BY <1>5, SetFlagFacts
  <2>2. row[v].state \in Int
    BY <1>5 DEF Row
  <2>3. QED
    BY <2>1, <2>2
<1> HIDE DEF new, v
<1>8. /\ VaultsOK' /\ vaults'.block = b /\ vaults'.seen = vaults.seen
      /\ vaults'.unsaved = vaults.unsaved /\ vaults'.late = vaults.late
  BY <1>1, <1>2, UnseenDone
<1>9. ASSUME TableOK' PROVE SeenOK'
  <2>1. row \in [Vaults -> Row] /\ row' = [row EXCEPT ![v] = new]
    BY <1>1, <1>2 DEF TableOK, Write
  <2>2. \A w \in Vaults \ {v} : row'[w] = row[w]
    BY <1>3, <2>1
  <2>3. vaults.seen \subseteq Vaults
    BY <1>2 DEF VaultsOK, VaultsRun
  <2>4. \A w \in vaults.seen : row'[w] = row[w]
    BY <1>3, <2>2, <2>3
  <2>5. QED
    BY <1>2, <1>8, <2>4 DEF SeenOK, Reached
<1>10. ReadingOK' /\ SettingsOK'
  BY <1>1, <1>2, ReadingStays, SettingsStay
<1>11. QED
  BY <1>1, <1>3, <1>6, <1>8, <1>9, <1>10, WriteKeeps

\* A vault whose owner cannot be read is passed over, its row stays.
LEMMA DisconnectFailsKeeps == ASSUME IInv, DisconnectFails PROVE IInv'
<1>1. /\ UNCHANGED <<lists, row, reading, members, settings, missed>> /\ Serves /\ Fault
      /\ vaults.pc = "disconnect" /\ vaults' = NextUnseen(vaults)
  BY DEF DisconnectFails, Serves, chain
<1>2. ChainOK /\ ReadingOK /\ SeenOK /\ SettingsOK /\ Grows
  BY <1>1, SameChain DEF IInv
<1>3. /\ VaultsOK' /\ vaults'.block = vaults.block /\ vaults'.seen = vaults.seen
      /\ vaults'.unsaved = vaults.unsaved /\ vaults'.late = vaults.late
  BY <1>1, <1>2, UnseenDone
<1>4. SeenOK'
  BY <1>1, <1>2, <1>3 DEF SeenOK, Reached
<1>5. ReadingOK' /\ SettingsOK'
  BY <1>1, <1>2, ReadingStays, SettingsStay
<1>6. QED
  BY <1>1, <1>3, <1>4, <1>5, NoWriteKeeps

\* No run.
LEMMA NoRunTypes == NoVaultsRun \in VaultsRun /\ NoMembersRun \in MembersRun
<1>1. 0 \in 0..MaxBlock /\ 0 \in 0..Cardinality(Vaults) /\ << >> \in Seq(Vaults)
  BY CronBatchesAssumption, FS_CardinalityType
<1>2. NoVaultsRun \in VaultsRun
  BY <1>1 DEF NoVaultsRun, VaultsRun
<1>3. NoMembersRun \in MembersRun
  BY <1>1 DEF NoMembersRun, MembersRun
<1>4. QED
  BY <1>2, <1>3

\* Without a run nothing is left to keep.
LEMMA EndVaultsKeeps == ASSUME IInv, EndVaults PROVE IInv'
<1>1. /\ UNCHANGED <<lists, row, reading, members, settings, missed, faults>> /\ Serves
      /\ vaults' = NoVaultsRun
  BY DEF EndVaults, Serves, chain
<1>2. ChainOK /\ ReadingOK /\ SettingsOK /\ Grows
  BY <1>1, SameChain DEF IInv
<1>3. vaults' \in VaultsRun /\ vaults'.pc = "idle" /\ vaults'.seen = {}
  BY <1>1, NoRunTypes DEF NoVaultsRun
<1>4. VaultsOK' /\ SeenOK'
  BY <1>3 DEF VaultsOK, SeenOK
<1>5. ReadingOK' /\ SettingsOK'
  BY <1>1, <1>2, ReadingStays, SettingsStay
<1>6. QED
  BY <1>1, <1>4, <1>5, NoWriteKeeps

-----------------------------------------------------------------------------
(***************************************************************************)
(* The run of the members cron.                                            *)
(***************************************************************************)
\* The filtered rows: a vault stands at the place of its rank.
LEMMA FilteredFacts ==
  ASSUME TableOK
  PROVE  /\ Filtered \in Seq(Vaults) /\ Len(Filtered) = Cardinality(Connected)
         /\ Len(Filtered) \in 0..Cardinality(Vaults)
         /\ \A i \in 1..Len(Filtered) : Filtered[i] \in Connected /\ Rank(Filtered[i], Connected) = i
         /\ \A w \in Connected : /\ Rank(w, Connected) \in 1..Len(Filtered)
                                 /\ Filtered[Rank(w, Connected)] = w
<1>1. /\ Connected \in SUBSET Vaults /\ row \in [Vaults -> Row]
      /\ \A v, w \in Connected : v # w => row[v].id # row[w].id
  BY ConnectedRows DEF TableOK
<1>2. /\ Filtered \in Seq(Vaults) /\ Len(Filtered) = Cardinality(Connected)
      /\ \A i \in 1..Cardinality(Connected) :
           Filtered[i] \in Connected /\ Rank(Filtered[i], Connected) = i
  BY <1>1, ByIdFacts DEF Filtered
<1>3. /\ \A w \in Connected : Rank(w, Connected) \in 1..Cardinality(Connected)
      /\ \A v, w \in Connected : Rank(v, Connected) = Rank(w, Connected) => v = w
  BY <1>1, Ranks
<1>4. Cardinality(Connected) \in Nat /\ Cardinality(Connected) <= Cardinality(Vaults)
      /\ Cardinality(Vaults) \in Nat
  BY <1>1, Counts, CronBatchesAssumption, FS_CardinalityType
<1>5. \A w \in Connected : Filtered[Rank(w, Connected)] = w
  BY <1>2, <1>3
<1>6. QED
  BY <1>2, <1>3, <1>4, <1>5

\* The run as it is between its steps.
LEMMA MembersFacts ==
  ASSUME MembersOK
  PROVE  /\ members \in MembersRun /\ members.offset \in Nat /\ members.limit \in Nat
         /\ members.page \in Seq(Vaults) /\ members.visited \in SUBSET Vaults
         /\ members.moves \in Nat /\ members.stayed \in SUBSET Vaults
BY CronBatchesAssumption, FS_CardinalityType DEF MembersOK, MembersRun

\* A page has the rows whose places it covers, and none only when no place is left.
LEMMA PageFacts ==
  ASSUME IInv, members.pc = "page", members.offset < members.limit
  PROVE  /\ Page \in Seq(Vaults)
         /\ \A w \in Connected :
              /\ Rank(w, Connected) > members.offset /\ Rank(w, Connected) <= members.limit
              /\ Rank(w, Connected) <= members.offset + MembersBatch
              => w \in Range(Page)
         /\ Page = << >> => \A w \in Connected : Rank(w, Connected) <= members.offset
<1> DEFINE list == Filtered
           offset == members.offset
           limit == members.limit
           size == Min(MembersBatch, limit - offset)
           e == IF offset + size < Len(list) THEN offset + size ELSE Len(list)
           page == Slice(list, offset, size)
<1>1. /\ list \in Seq(Vaults) /\ Len(list) \in Nat
      /\ \A w \in Connected : Rank(w, Connected) \in 1..Len(list) /\ list[Rank(w, Connected)] = w
  BY FilteredFacts DEF IInv
<1>2. offset \in Nat /\ limit \in Nat /\ offset < limit
  BY MembersFacts DEF IInv
<1>3. MembersBatch \in Nat /\ MembersBatch # 0
  BY CronBatchesAssumption
<1>4. Page = page
  BY DEF Page
<1> HIDE DEF list, offset, limit
<1>5. size \in Nat /\ size # 0 /\ e \in Nat
      /\ \A i \in Nat : i <= limit /\ i <= offset + MembersBatch <=> i <= offset + size
  BY <1>1, <1>2, <1>3 DEF Min
<1> HIDE DEF size
<1>6. /\ page = SubSeq(list, offset + 1, e) /\ page \in Seq(Vaults)
      /\ Len(page) = IF offset < e THEN e - offset ELSE 0
      /\ \A i \in 1..Len(page) : offset + i \in 1..e /\ page[i] = list[offset + i]
  <2>1. list \in Seq(Vaults) /\ offset \in Nat /\ size \in Nat
    BY <1>1, <1>2, <1>5
  <2>2. QED
    BY <2>1, SliceFacts, Zenon
<1> HIDE DEF page
<1>7. ASSUME NEW i \in 1..Len(list), offset < i, i <= limit, i <= offset + MembersBatch
      PROVE  list[i] \in Range(page)
  <2>1. i <= offset + size
    BY <1>1, <1>5, <1>7
  <2>2. i <= e
    BY <1>1, <1>2, <1>5, <1>7, <2>1
  <2> HIDE DEF e
  <2>3. i - offset \in 1..Len(page) /\ offset + (i - offset) = i
    BY <1>1, <1>2, <1>5, <1>6, <1>7, <2>2
  <2>4. page[i - offset] = list[i]
    BY <1>6, <2>3
  <2>5. DOMAIN page = 1..Len(page)
    BY <1>6
  <2>6. QED
    BY <2>3, <2>4, <2>5 DEF Range
<1>8. ASSUME page = << >> PROVE Len(list) <= offset
  <2>1. Len(page) = 0 /\ e \in Nat
    BY <1>5, <1>8
  <2> HIDE DEF e
  <2>2. ~(offset < e)
    BY <1>2, <1>6, <2>1
  <2>3. QED
    BY <1>1, <1>2, <1>5, <2>1, <2>2 DEF e
<1>9. ASSUME NEW w \in Connected, Rank(w, Connected) > offset, Rank(w, Connected) <= limit,
             Rank(w, Connected) <= offset + MembersBatch
      PROVE  w \in Range(page)
  BY <1>1, <1>2, <1>7, <1>9
<1>10. ASSUME page = << >>, NEW w \in Connected PROVE Rank(w, Connected) <= offset
  BY <1>1, <1>2, <1>8, <1>10
<1>11. QED
  BY <1>4, <1>6, <1>9, <1>10 DEF offset, limit

\* A run that reads no place without loading its vault skips nobody more.
LEMMA PageStep ==
  ASSUME MembersOK, members.pc \in {"page", "save"}, members' \in MembersRun,
         members'.pc \in {"page", "save"}, Latest' = Latest,
         Connected' = Connected, \A w \in Connected : row'[w].id = row[w].id,
         members'.block = members.block, members'.limit = members.limit,
         members'.stayed = members.stayed, members'.moves = members.moves,
         members'.pc = "page" => members'.page = << >>,
         members'.pc = "save" => members'.page # << >>,
         Loaded(members) \subseteq Loaded(members'),
         \A w \in Connected \ Loaded(members') :
           Rank(w, Connected) <= Read(members') =>
             Rank(w, Connected) <= Read(members) \/ Rank(w, Connected) > members.limit
  PROVE  MembersOK'
<1>1. members.stayed \subseteq Connected /\ members.block \in 1..Latest
      /\ Cardinality(Skipped(members)) <= members.moves
  BY DEF MembersOK
<1>2. \A w \in Connected : Rank(w, Connected)' = Rank(w, Connected)
  BY SameRanks
<1>3. Loaded(members)' = Loaded(members') /\ Read(members)' = Read(members')
  BY DEF Loaded, Read
<1>4. Skipped(members)' \subseteq Skipped(members)
  BY <1>1, <1>2, <1>3 DEF Skipped
<1>5. Cardinality(Skipped(members)') <= members'.moves
  <2> DEFINE A == Skipped(members)
             B == Skipped(members)'
  <2>1. A \in SUBSET Vaults /\ B \in SUBSET Vaults /\ B \in SUBSET A
    BY <1>4, SkippedAreVaults
  <2> HIDE DEF A, B
  <2>2. IsFiniteSet(A) /\ Cardinality(A) \in Nat /\ Cardinality(B) \in Nat
    BY <2>1, Counts
  <2>3. Cardinality(B) <= Cardinality(A)
    BY <2>1, <2>2, FS_Subset
  <2>4. Cardinality(A) <= members.moves /\ members.moves \in Nat
    BY <1>1, MembersFacts DEF A
  <2>5. Cardinality(B) <= members'.moves
    BY <2>2, <2>3, <2>4
  <2>6. QED
    BY <2>5 DEF B
<1>6. SkipsAreBoundedByMoves'
  BY DEF SkipsAreBoundedByMoves
<1>7. QED
  BY <1>1, <1>5, <1>6 DEF MembersOK

\* The end of the run: all that it has not visited are the ones it skipped.
LEMMA RunEnds ==
  ASSUME TableOK, MembersOK, members.pc = "page", Latest' = Latest, row' = row,
         members' = [members EXCEPT !.pc = "end"],
         \A w \in Connected :
           Rank(w, Connected) <= members.offset \/ Rank(w, Connected) > members.limit
  PROVE  MembersOK'
<1>1. /\ members \in MembersRun /\ members.stayed \subseteq Connected /\ members.page = << >>
      /\ members.block \in 1..Latest /\ Cardinality(Skipped(members)) <= members.moves
  BY DEF MembersOK
<1>2. /\ members' \in MembersRun /\ members'.pc = "end" /\ members'.block = members.block
      /\ members'.stayed = members.stayed /\ members'.moves = members.moves
      /\ members'.visited = members.visited
  BY <1>1 DEF MembersRun
<1>3. Skipped(members) = members.stayed \ members.visited
  <2>1. Loaded(members) = members.visited /\ Read(members) = members.offset
    BY <1>1 DEF Loaded, Range, Read
  <2>2. QED
    BY <1>1, <2>1 DEF Skipped
<1>4. SkipsAreBoundedByMoves'
  BY <1>1, <1>2, <1>3 DEF SkipsAreBoundedByMoves
<1>5. Connected' = Connected
  BY DEF Connected
<1>6. QED
  BY <1>1, <1>2, <1>4, <1>5 DEF MembersOK

\* A step of the members run that writes no row.
LEMMA MembersOnlyKeeps ==
  ASSUME IInv, Serves, UNCHANGED <<row, reading, vaults, settings, missed>>,
         faults' = faults \/ Fault, MembersOK'
  PROVE  IInv'
<1>1. ChainOK /\ TableOK /\ ReadingOK /\ VaultsOK /\ SeenOK /\ SettingsOK
  BY DEF IInv
<1>2. ChainOK' /\ Grows
  BY <1>1, SameChain
<1>3. TableOK' /\ ReadingOK' /\ VaultsOK' /\ SettingsOK'
  BY <1>1, <1>2, TableStays, ReadingStays, RunStays, SettingsStay
<1>4. SeenOK'
  BY <1>1 DEF SeenOK, Reached
<1>5. QED
  BY <1>2, <1>3, <1>4 DEF IInv

\* The run begins with the first rows of the filter, as many as its limit.
LEMMA StartMembersKeeps == ASSUME IInv, StartMembers PROVE IInv'
<1> DEFINE b == SafeBlock
           list == Filtered
           limit == Limit(Len(list))
           first == Slice(list, 0, limit)
           stayed == Range(first)
<1>1. /\ UNCHANGED <<lists, row, reading, vaults, settings, missed, faults>> /\ Serves
      /\ members' = [NoMembersRun EXCEPT !.pc = "page", !.block = b, !.limit = limit,
                                         !.stayed = stayed]
  BY DEF StartMembers, Serves, chain
<1>2. ChainOK /\ TableOK /\ SettingsOK
  BY DEF IInv
<1>3. b \in 1..Latest /\ b \in 0..MaxBlock
  BY <1>2, Blocks DEF SafeBlock, ChainOK
<1>4. /\ list \in Seq(Vaults) /\ Len(list) \in 0..Cardinality(Vaults)
      /\ Cardinality(Vaults) \in Nat
      /\ \A i \in 1..Len(list) : list[i] \in Connected /\ Rank(list[i], Connected) = i
  BY <1>2, FilteredFacts, CronBatchesAssumption, FS_CardinalityType
<1>5. minimal \in Nat
  BY <1>2, CronBatchesAssumption DEF SettingsOK, settings
<1> HIDE DEF b, list
<1>6. limit \in 0..Cardinality(Vaults) /\ limit \in Nat /\ limit <= Len(list)
  BY <1>4, <1>5 DEF Limit, Min
<1> HIDE DEF limit
<1>7. stayed \in SUBSET Connected /\ \A w \in stayed : Rank(w, Connected) \in 1..limit
  <2>1. PICK z \in Nat : z = 0
    OBVIOUS
  <2> DEFINE e == IF z + limit < Len(list) THEN z + limit ELSE Len(list)
             cut == Slice(list, z, limit)
  <2>2. /\ cut = SubSeq(list, z + 1, e) /\ cut \in Seq(Vaults)
        /\ Len(cut) = IF z < e THEN e - z ELSE 0
        /\ \A i \in 1..Len(cut) : z + i \in 1..e /\ cut[i] = list[z + i]
    <3>1. list \in Seq(Vaults) /\ z \in Nat /\ limit \in Nat
      BY <1>4, <1>6
    <3>2. QED
      BY <3>1, SliceFacts, Zenon
  <2>3. first = cut
    BY <2>1
  <2> HIDE DEF first, cut
  <2>4. e = limit
    BY <1>4, <1>6, <2>1
  <2> HIDE DEF e
  <2>5. SUFFICES ASSUME NEW w \in stayed PROVE w \in Connected /\ Rank(w, Connected) \in 1..limit
    OBVIOUS
  <2>6. PICK i \in 1..Len(cut) : cut[i] = w
    BY <2>2, <2>3, <2>5 DEF Range
  <2>7. z + i = i /\ i \in 1..limit /\ i \in 1..Len(list)
    BY <1>4, <1>6, <2>1, <2>2, <2>4, <2>6
  <2>8. w = list[i]
    BY <2>2, <2>6, <2>7
  <2>9. QED
    BY <1>4, <2>7, <2>8
<1>8. stayed \in SUBSET Vaults
  BY <1>2, <1>7, ConnectedRows
<1> HIDE DEF stayed
<1>9. /\ members' \in MembersRun /\ members'.pc = "page" /\ members'.block = b
      /\ members'.limit = limit /\ members'.stayed = stayed /\ members'.offset = 0
      /\ members'.page = << >> /\ members'.moves = 0
  <2>1. NoMembersRun \in MembersRun
    BY NoRunTypes
  <2>2. NoMembersRun.offset = 0 /\ NoMembersRun.page = << >> /\ NoMembersRun.moves = 0
    BY DEF NoMembersRun
  <2> HIDE DEF NoMembersRun
  <2>3. QED
    BY <1>1, <1>3, <1>6, <1>8, <2>1, <2>2 DEF MembersRun
<1>10. Connected' = Connected /\ Latest' = Latest
  BY <1>1 DEF Connected, Latest
<1>11. \A w \in Connected : Rank(w, Connected)' = Rank(w, Connected)
  BY <1>1, <1>10, SameRanks
<1>12. Skipped(members)' = {}
  <2>1. Read(members)' = 0
    BY <1>9 DEF Read
  <2>2. \A w \in stayed : ~(Rank(w, Connected) <= 0 \/ Rank(w, Connected) > limit)
    BY <1>6, <1>7
  <2>3. QED
    BY <1>7, <1>9, <1>11, <2>1, <2>2 DEF Skipped
<1>13. Cardinality(Skipped(members)') <= members'.moves
  BY <1>9, <1>12, FS_EmptySet
<1>14. MembersOK'
  BY <1>3, <1>7, <1>9, <1>10, <1>13 DEF MembersOK, SkipsAreBoundedByMoves
<1>15. QED
  BY <1>1, <1>14, MembersOnlyKeeps

\* A page is loaded, or there is none left.
LEMMA LoadPageKeeps == ASSUME IInv, LoadPage PROVE IInv'
<1> DEFINE page == Page
<1>1. /\ UNCHANGED <<lists, row, reading, vaults, settings, missed, faults>> /\ Serves
      /\ members.pc = "page" /\ members.offset < members.limit
      /\ members' = IF page = << >> THEN [members EXCEPT !.pc = "end"]
                    ELSE [members EXCEPT !.pc = "save", !.page = page]
  BY DEF LoadPage, Serves, chain
<1>2. TableOK /\ MembersOK /\ members \in MembersRun
  BY DEF IInv, MembersOK
<1>3. /\ page \in Seq(Vaults)
      /\ \A w \in Connected :
           /\ Rank(w, Connected) > members.offset /\ Rank(w, Connected) <= members.limit
           /\ Rank(w, Connected) <= members.offset + MembersBatch
           => w \in Range(page)
      /\ page = << >> => \A w \in Connected : Rank(w, Connected) <= members.offset
  BY <1>1, PageFacts
<1>4. Latest' = Latest /\ Connected' = Connected
  BY <1>1 DEF Latest, Connected
<1>5. members.page = << >> /\ members.offset \in Nat /\ members.limit \in Nat
      /\ \A w \in Connected : Rank(w, Connected) \in Int
  BY <1>1, <1>2, MembersFacts, FilteredFacts DEF MembersOK
<1> HIDE DEF page
<1>6. ASSUME page = << >> PROVE MembersOK'
  <2>1. members' = [members EXCEPT !.pc = "end"]
    BY <1>1, <1>6
  <2>2. QED
    BY <1>1, <1>2, <1>3, <1>4, <1>6, <2>1, RunEnds
<1>7. ASSUME page # << >> PROVE MembersOK'
  <2>1. members' = [members EXCEPT !.pc = "save", !.page = page]
    BY <1>1, <1>7
  <2>2. /\ members' \in MembersRun /\ members'.pc = "save" /\ members'.block = members.block
        /\ members'.limit = members.limit /\ members'.stayed = members.stayed
        /\ members'.moves = members.moves /\ members'.page = page
        /\ members'.visited = members.visited /\ members'.offset = members.offset
    BY <1>2, <1>3, <2>1 DEF MembersRun
  <2>3. Loaded(members') = members.visited \cup Range(page)
        /\ Loaded(members) \subseteq Loaded(members')
    BY <1>5, <2>2 DEF Loaded, Range
  <2>4. Read(members) = members.offset /\ Read(members') = members.offset + MembersBatch
    BY <1>1, <2>2 DEF Read
  <2>5. \A w \in Connected \ Loaded(members') :
          Rank(w, Connected) <= Read(members') =>
            Rank(w, Connected) <= Read(members) \/ Rank(w, Connected) > members.limit
    BY <1>3, <1>5, <2>3, <2>4
  <2>6. QED
    BY <1>1, <1>2, <1>4, <1>7, <2>2, <2>3, <2>5, PageStep
<1>8. QED
  BY <1>1, <1>6, <1>7, MembersOnlyKeeps

\* A page that cannot be read counts as visited.
LEMMA LoadPageFailsKeeps == ASSUME IInv, LoadPageFails PROVE IInv'
<1> DEFINE page == Page
           n == members.offset + MembersBatch
           visited == members.visited \cup Range(page)
<1>1. /\ UNCHANGED <<lists, row, reading, vaults, settings, missed>> /\ Serves /\ Fault
      /\ members.pc = "page" /\ members.offset < members.limit
      /\ members' = [[members EXCEPT !.offset = n] EXCEPT !.visited = visited]
  <2>1. members' = [Advance(members, MembersBatch) EXCEPT !.visited = @ \cup Range(page)]
    BY DEF LoadPageFails, Serves, chain
  <2>2. Advance(members, MembersBatch) = [members EXCEPT !.offset = n]
    BY DEF Advance
  <2>3. [members EXCEPT !.offset = n].visited = members.visited
    BY DEF IInv, MembersOK, MembersRun
  <2>4. QED
    BY <2>1, <2>2, <2>3 DEF LoadPageFails, Serves, chain
<1>2. MembersOK /\ TableOK /\ members \in MembersRun
  BY DEF IInv, MembersOK
<1>3. /\ page \in Seq(Vaults)
      /\ \A w \in Connected :
           /\ Rank(w, Connected) > members.offset /\ Rank(w, Connected) <= members.limit
           /\ Rank(w, Connected) <= members.offset + MembersBatch
           => w \in Range(page)
  BY <1>1, PageFacts
<1>4. Latest' = Latest /\ Connected' = Connected
  BY <1>1 DEF Latest, Connected
<1>5. members.page = << >> /\ members.offset \in Nat /\ members.limit \in Nat
      /\ members.visited \in SUBSET Vaults /\ \A w \in Connected : Rank(w, Connected) \in Int
  BY <1>1, <1>2, MembersFacts, FilteredFacts DEF MembersOK
<1> HIDE DEF page
<1>6. n \in Nat /\ visited \in SUBSET Vaults
  BY <1>3, <1>5, CronBatchesAssumption DEF Range
<1> HIDE DEF n, visited
<1>7. /\ members' \in MembersRun /\ members'.pc = "page" /\ members'.block = members.block
      /\ members'.limit = members.limit /\ members'.stayed = members.stayed
      /\ members'.moves = members.moves /\ members'.page = << >>
      /\ members'.visited = visited /\ members'.offset = n
  BY <1>1, <1>2, <1>5, <1>6 DEF MembersRun
<1>8. Loaded(members') = members.visited \cup Range(page)
      /\ Loaded(members) \subseteq Loaded(members')
  BY <1>5, <1>7 DEF Loaded, Range, visited
<1>9. Read(members) = members.offset /\ Read(members') = members.offset + MembersBatch
  BY <1>1, <1>7 DEF Read, n
<1>10. \A w \in Connected \ Loaded(members') :
         Rank(w, Connected) <= Read(members') =>
           Rank(w, Connected) <= Read(members) \/ Rank(w, Connected) > members.limit
  BY <1>3, <1>5, <1>8, <1>9
<1>11. MembersOK'
  BY <1>1, <1>2, <1>4, <1>7, <1>8, <1>10, PageStep
<1>12. QED
  BY <1>1, <1>11, MembersOnlyKeeps

\* Nothing is left after the last one.
LEMMA LastOfPage ==
  ASSUME NEW s \in Seq(Vaults), s # << >>, ~(Len(s) > 1) PROVE Range(Tail(s)) = {}
<1>1. Len(s) \in Nat /\ Len(s) <= 1
  OBVIOUS
<1>2. DOMAIN Tail(s) = 1..(Len(s) - 1)
  OBVIOUS
<1>3. \A i \in 1..(Len(s) - 1) : FALSE
  BY <1>1
<1>4. QED
  BY <1>2, <1>3 DEF Range

\* The loop over a page: what was loaded stays loaded, and no further place is read.
LEMMA MemberDone ==
  ASSUME IInv, members.pc = "save", members' = NextMember(members), lists' = lists,
         Connected' = Connected, \A w \in Connected : row'[w].id = row[w].id
  PROVE  MembersOK'
<1> DEFINE v == members.page[1]
           tail == Tail(members.page)
           n == members.offset + MembersBatch
           visited == members.visited \cup {v}
<1>1. MembersOK /\ members \in MembersRun /\ members.page # << >>
  BY DEF IInv, MembersOK
<1>2. members.offset \in Nat /\ members.page \in Seq(Vaults) /\ members.visited \in SUBSET Vaults
  BY <1>1, MembersFacts
<1>3. /\ v \in Vaults /\ tail \in Seq(Vaults) /\ Len(tail) = Len(members.page) - 1
      /\ \A i \in 1..Len(tail) : tail[i] = members.page[i + 1]
  BY <1>1, <1>2
<1>4. n \in Nat /\ visited \in SUBSET Vaults /\ << >> \in Seq(Vaults)
  BY <1>2, <1>3, CronBatchesAssumption
<1>5. Range(members.page) \subseteq {v} \cup Range(tail)
  <2>1. SUFFICES ASSUME NEW i \in 1..Len(members.page), i # 1
                 PROVE  members.page[i] \in Range(tail)
    BY <1>2 DEF Range
  <2>2. i - 1 \in 1..Len(tail) /\ (i - 1) + 1 = i /\ DOMAIN tail = 1..Len(tail)
    BY <1>2, <1>3, <2>1
  <2>3. tail[i - 1] = members.page[i]
    BY <1>3, <2>2
  <2>4. QED
    BY <2>2, <2>3 DEF Range
<1>6. members' = IF Len(members.page) > 1
                 THEN [members EXCEPT !.page = tail, !.visited = visited]
                 ELSE [[members EXCEPT !.offset = n] EXCEPT
                         !.page = << >>, !.pc = "page", !.visited = visited]
  <2>1. [members EXCEPT !.offset = n].visited = members.visited
    BY <1>1 DEF MembersRun
  <2>2. Advance(members, MembersBatch) = [members EXCEPT !.offset = n]
    BY DEF Advance
  <2>3. QED
    BY <2>1, <2>2 DEF NextMember
<1>7. Latest' = Latest
  BY DEF Latest
<1>8. Loaded(members) = members.visited \cup Range(members.page) /\ Read(members) = n
  BY DEF Loaded, Read
<1>9. members.visited \subseteq visited /\ v \in visited
  OBVIOUS
<1> HIDE DEF n, visited, tail, v
<1>10. ASSUME Len(members.page) > 1 PROVE MembersOK'
  <2>1. members' = [members EXCEPT !.page = tail, !.visited = visited]
    BY <1>6, <1>10
  <2>2. /\ members' \in MembersRun /\ members'.pc = "save" /\ members'.block = members.block
        /\ members'.limit = members.limit /\ members'.stayed = members.stayed
        /\ members'.moves = members.moves /\ members'.page = tail
        /\ members'.visited = visited /\ members'.offset = members.offset
    BY <1>1, <1>3, <1>4, <2>1 DEF MembersRun
  <2>3. tail # << >>
    BY <1>2, <1>3, <1>10
  <2>4. Loaded(members) \subseteq Loaded(members') /\ Read(members') = n
    BY <1>5, <1>8, <1>9, <2>2 DEF Loaded, Read, n
  <2>5. QED
    BY <1>1, <1>7, <1>8, <2>2, <2>3, <2>4, PageStep
<1>11. ASSUME ~(Len(members.page) > 1) PROVE MembersOK'
  <2>1. members' = [[members EXCEPT !.offset = n] EXCEPT
                      !.page = << >>, !.pc = "page", !.visited = visited]
    BY <1>6, <1>11
  <2>2. /\ members' \in MembersRun /\ members'.pc = "page" /\ members'.block = members.block
        /\ members'.limit = members.limit /\ members'.stayed = members.stayed
        /\ members'.moves = members.moves /\ members'.page = << >>
        /\ members'.visited = visited /\ members'.offset = n
    BY <1>1, <1>4, <2>1 DEF MembersRun
  <2>3. Range(tail) = {}
    BY <1>1, <1>2, <1>11, LastOfPage DEF tail
  <2>4. Loaded(members) \subseteq Loaded(members') /\ Read(members') = n
    BY <1>5, <1>8, <1>9, <2>2, <2>3 DEF Loaded, Read
  <2>5. QED
    BY <1>1, <1>7, <1>8, <2>2, <2>4, PageStep
<1>12. QED
  BY <1>10, <1>11

\* The members of a vault of the page, for the run's block, if it was connected there.
LEMMA SaveMembersKeeps == ASSUME IInv, SaveMembers PROVE IInv'
<1> DEFINE v == members.page[1]
           b == members.block
           new == IF IsResolved(v, b) THEN SetMembers(row[v], b) ELSE row[v]
<1>1. /\ UNCHANGED <<lists, reading, vaults, settings, missed, faults>> /\ Serves
      /\ members.pc = "save" /\ members' = NextMember(members)
      /\ row' = IF IsResolved(v, b) THEN [row EXCEPT ![v] = SetMembers(row[v], b)] ELSE row
  BY DEF SaveMembers, Serves, chain
<1>2. /\ ChainOK /\ TableOK /\ ReadingOK /\ VaultsOK /\ SeenOK /\ MembersOK /\ SettingsOK
      /\ ChainOK' /\ Grows
  BY <1>1, SameChain DEF IInv
<1>3. v \in Vaults /\ b \in 1..Latest /\ row \in [Vaults -> Row]
  BY <1>1, <1>2, MembersFacts DEF MembersOK, TableOK
<1>4. /\ NextRow(v, new) /\ new.id = row[v].id /\ new.block = row[v].block
      /\ new.state = row[v].state /\ (new.disconnected <=> row[v].disconnected)
  <2>1. CASE IsResolved(v, b)
    <3>1. Listed(v, b) /\ new = SetMembers(row[v], b)
      BY <2>1 DEF IsResolved
    <3>2. /\ NextRow(v, SetMembers(row[v], b)) /\ SetMembers(row[v], b).id = row[v].id
          /\ SetMembers(row[v], b).block = row[v].block
          /\ SetMembers(row[v], b).state = row[v].state
          /\ SetMembers(row[v], b).disconnected <=> row[v].disconnected
      BY <1>2, <1>3, <3>1, MembersRow
    <3> HIDE DEF new
    <3>3. QED
      BY <3>1, <3>2
  <2>2. CASE ~IsResolved(v, b)
    <3>1. NextRow(v, row[v]) /\ new = row[v]
      BY <1>2, <1>3, <2>2, SameRow
    <3> HIDE DEF new
    <3>2. QED
      BY <3>1
  <2>3. QED
    BY <2>1, <2>2
<1>5. row' = [row EXCEPT ![v] = new]
  BY <1>1, <1>3
<1> HIDE DEF new
<1>6. row'[v] = new /\ \A w \in Vaults \ {v} : row'[w] = row[w]
  BY <1>3, <1>5
<1>7. Connected' = Connected /\ \A w \in Connected : row'[w].id = row[w].id
  <2>1. \A w \in Vaults : row'[w].id = row[w].id
    BY <1>4, <1>6
  <2>2. \A w \in Vaults : row'[w].disconnected <=> row[w].disconnected
    BY <1>4, <1>6
  <2>3. Connected' = Connected
    BY <2>1, <2>2 DEF Connected, InFilter
  <2>4. QED
    BY <2>1, <2>3 DEF Connected
<1>8. TableOK'
  BY <1>2, <1>3, <1>4, <1>5, WriteTable
<1>9. MembersOK'
  BY <1>1, <1>7, MemberDone
<1>10. SeenOK'
  <2>1. new.state >= row[v].state
    BY <1>3, <1>4 DEF Row
  <2>2. QED
    BY <1>1, <1>2, <1>3, <1>4, <1>5, <1>8, <2>1, SeenAfterWrite
<1>11. ReadingOK' /\ VaultsOK' /\ SettingsOK'
  BY <1>1, <1>2, ReadingStays, RunStays, SettingsStay
<1>12. QED
  BY <1>2, <1>8, <1>9, <1>10, <1>11 DEF IInv

\* A vault of the page that cannot be saved was visited all the same.
LEMMA SaveMembersFailsKeeps == ASSUME IInv, SaveMembersFails PROVE IInv'
<1>1. /\ UNCHANGED <<lists, row, reading, vaults, settings, missed>> /\ Serves /\ Fault
      /\ members.pc = "save" /\ members' = NextMember(members)
  BY DEF SaveMembersFails, Serves, chain
<1>2. Connected' = Connected
  BY <1>1 DEF Connected
<1>3. MembersOK'
  BY <1>1, <1>2, MemberDone
<1>4. QED
  BY <1>1, <1>3, MembersOnlyKeeps

\* The run is over when its offset has reached its limit.
LEMMA EndMembersKeeps == ASSUME IInv, EndMembers PROVE IInv'
<1>1. UNCHANGED <<lists, row, reading, vaults, settings, missed, faults>> /\ Serves
  BY DEF EndMembers, Serves, chain
<1>2. TableOK /\ MembersOK /\ Latest' = Latest
  BY <1>1 DEF IInv, Latest
<1>3. CASE /\ members.pc = "page" /\ members.offset >= members.limit
           /\ members' = [members EXCEPT !.pc = "end"]
  <2>1. /\ members.offset \in Nat /\ members.limit \in Nat
        /\ \A w \in Connected : Rank(w, Connected) \in Int
    BY <1>2, MembersFacts, FilteredFacts
  <2>2. \A w \in Connected :
          Rank(w, Connected) <= members.offset \/ Rank(w, Connected) > members.limit
    BY <1>3, <2>1
  <2>3. MembersOK'
    BY <1>1, <1>2, <1>3, <2>2, RunEnds
  <2>4. QED
    BY <1>1, <2>3, MembersOnlyKeeps
<1>4. CASE members' = NoMembersRun
  <2>1. members' \in MembersRun /\ members'.pc = "idle"
    BY <1>4, NoRunTypes DEF NoMembersRun
  <2>2. MembersOK'
    BY <2>1 DEF MembersOK, SkipsAreBoundedByMoves
  <2>3. QED
    BY <1>1, <2>2, MembersOnlyKeeps
<1>5. QED
  BY <1>3, <1>4 DEF EndMembers

-----------------------------------------------------------------------------
(***************************************************************************)
(* The invariant and what follows from it.                                 *)
(***************************************************************************)
\* The first rows have the places of VaultHub's first list as ids.
LEMMA FirstIds ==
  ASSUME Init
  PROVE  /\ row \in [Vaults -> Row] /\ IdsOK
         /\ \A v \in Vaults : row[v].id # 0 => /\ v \in Range(FirstList) /\ row[v].block = 1
                                               /\ row[v].members = 1 /\ ~row[v].disconnected
                                               /\ row[v].flag = 1
         /\ \A v \in Vaults : row[v].id = 0 =>
              row[v].block = 0 /\ row[v].members = 0 /\ row[v].flag = 0
<1> DEFINE first == Range(FirstList)
           n == Len(FirstList)
           made(v) == [id |-> Position(v), disconnected |-> FALSE, flag |-> 1,
                       block |-> 1, state |-> 1, members |-> 1]
<1>1. /\ FirstList \in Seq(Vaults) /\ n \in Nat /\ DOMAIN FirstList = 1..n
      /\ \A i, j \in 1..n : i # j => FirstList[i] # FirstList[j]
  BY CronBatchesAssumption
<1>2. Injective(FirstList)
  BY <1>1 DEF Injective
<1>3. n \in 0..Cardinality(Vaults) /\ Cardinality(Vaults) \in Nat
  BY <1>1, <1>2, ListIsShort, CronBatchesAssumption, FS_CardinalityType
<1>4. first \in SUBSET Vaults /\ first = {FirstList[i] : i \in 1..n}
  BY <1>1 DEF Range
<1>5. \A v \in first : Position(v) \in 1..n /\ FirstList[Position(v)] = v
  <2>1. SUFFICES ASSUME NEW v \in first
                 PROVE  Position(v) \in 1..n /\ FirstList[Position(v)] = v
    OBVIOUS
  <2>2. \E i \in DOMAIN FirstList : FirstList[i] = v
    BY <1>1, <1>4
  <2>3. Position(v) \in DOMAIN FirstList /\ FirstList[Position(v)] = v
    BY <2>2, Zenon DEF Position
  <2>4. QED
    BY <1>1, <2>3
<1>6. row = [v \in Vaults |-> IF v \in first THEN made(v) ELSE NoRow]
  BY DEF Init
<1> HIDE DEF first, n, Position
<1>7. NoRow \in Row /\ NoRow.id = 0 /\ NoRow.block = 0 /\ NoRow.members = 0 /\ NoRow.flag = 0
  <2>1. 0 \in 0..MaxBlock /\ 0 \in 0..Cardinality(Vaults)
    BY <1>3, CronBatchesAssumption
  <2>2. NoRow \in Row
    BY <2>1, Zenon DEF NoRow, Row
  <2>3. QED
    BY <2>2 DEF NoRow
<1>8. \A v \in first : /\ made(v) \in Row /\ made(v).id = Position(v) /\ made(v).block = 1
                       /\ made(v).members = 1 /\ ~made(v).disconnected /\ made(v).flag = 1
  <2>1. SUFFICES ASSUME NEW v \in first
                 PROVE  /\ made(v) \in Row /\ made(v).id = Position(v) /\ made(v).block = 1
                        /\ made(v).members = 1 /\ ~made(v).disconnected /\ made(v).flag = 1
    OBVIOUS
  <2>2. Position(v) \in 0..Cardinality(Vaults) /\ 1 \in 0..MaxBlock
    BY <1>1, <1>3, <1>5, CronBatchesAssumption
  <2>3. made(v) \in Row
    BY <2>2, Zenon DEF Row
  <2>4. made(v).id = Position(v) /\ made(v).block = 1 /\ made(v).members = 1 /\ made(v).flag = 1
    OBVIOUS
  <2>5. ~made(v).disconnected
    BY Zenon
  <2>6. QED
    BY <2>3, <2>4, <2>5
<1> HIDE DEF made, NoRow
<1>9. \A v \in Vaults : row[v] = IF v \in first THEN made(v) ELSE NoRow
  BY <1>6
<1>10. row \in [Vaults -> Row]
  BY <1>6, <1>7, <1>8
<1>11. /\ \A v \in first : row[v].id = Position(v) /\ row[v].id # 0
       /\ \A v \in Vaults \ first : row[v].id = 0
  BY <1>1, <1>4, <1>5, <1>7, <1>8, <1>9
<1>12. Known = first
  BY <1>4, <1>11 DEF Known
<1>13. Cardinality(first) = n
  <2> DEFINE f == [i \in 1..n |-> FirstList[i]]
  <2>1. \A i \in 1..n : f[i] = FirstList[i] /\ FirstList[i] \in first
    BY <1>4
  <2>2. f \in [1..n -> first]
    BY <2>1
  <2> HIDE DEF f
  <2>3. f \in Bijection(1..n, first)
    <3>1. \A i, j \in 1..n : f[i] = f[j] => i = j
      BY <1>1, <2>1 DEF n
    <3>2. \A v \in first : \E i \in 1..n : f[i] = v
      BY <1>4, <2>1
    <3>3. f \in Injection(1..n, first) /\ f \in Surjection(1..n, first)
      BY <2>2, <3>1, <3>2, Zenon DEF Injection, IsInjective, Surjection
    <3>4. QED
      BY <3>3, Zenon DEF Bijection
  <2>4. IsFiniteSet(1..n) /\ Cardinality(1..n) = n
    BY <1>3, FS_Interval
  <2>5. QED
    BY <2>3, <2>4, FS_Bijection, Zenon DEF ExistsBijection
<1>14. \A v \in Vaults : row[v].id <= Cardinality(Known)
  BY <1>3, <1>5, <1>11, <1>12, <1>13
<1>15. \A v, w \in Vaults : v # w /\ row[v].id # 0 => row[v].id # row[w].id
  BY <1>5, <1>11
<1>16. IdsOK
  BY <1>14, <1>15 DEF IdsOK
<1>17. \A v \in Vaults : row[v].id # 0 => v \in first /\ row[v] = made(v)
  BY <1>9, <1>11
<1>18. \A v \in Vaults : row[v].id = 0 => row[v] = NoRow
  BY <1>9, <1>11
<1>19. \A v \in Vaults : row[v].id # 0 => /\ v \in first /\ row[v].block = 1
                                          /\ row[v].members = 1 /\ ~row[v].disconnected
                                          /\ row[v].flag = 1
  BY <1>8, <1>17
<1>20. QED
  BY <1>7, <1>10, <1>16, <1>18, <1>19 DEF first

\* The first state: the rows of the vaults VaultHub lists.
LEMMA InitIInv == ASSUME Init PROVE IInv
<1>1. /\ lists = <<FirstList>> /\ events = {} /\ transfers = {} /\ sent = 0
      /\ vaults = NoVaultsRun /\ members = NoMembersRun /\ missed = {} /\ faults = 0
      /\ reading = [v \in Vaults |-> [attempt |-> 0, block |-> 0]]
  BY DEF Init
<1>2. /\ FirstList \in Seq(Vaults) /\ Injective(FirstList)
  BY CronBatchesAssumption DEF Injective
<1>3. lists \in Seq(Seq(Vaults)) /\ Latest = 1 /\ lists[1] = FirstList /\ 1 \in 1..MaxBlock
  BY <1>1, <1>2, CronBatchesAssumption DEF Latest
<1>4. ChainOK
  BY <1>1, <1>2, <1>3 DEF ChainOK
<1>5. TableOK
  <2>1. /\ row \in [Vaults -> Row] /\ IdsOK
        /\ \A v \in Vaults : row[v].id # 0 => /\ v \in Range(FirstList) /\ row[v].block = 1
                                              /\ row[v].members = 1 /\ ~row[v].disconnected
                                              /\ row[v].flag = 1
        /\ \A v \in Vaults : row[v].id = 0 =>
             row[v].block = 0 /\ row[v].members = 0 /\ row[v].flag = 0
    BY FirstIds
  <2>2. ASSUME NEW v \in Vaults PROVE RowOK(v, row[v])
    <3>1. CASE row[v].id = 0
      BY <1>3, <2>1, <3>1 DEF RowOK
    <3>2. CASE row[v].id # 0
      <4>1. /\ row[v].block = 1 /\ row[v].members = 1 /\ ~row[v].disconnected /\ Listed(v, 1)
            /\ row[v].flag = 1
        BY <1>3, <2>1, <3>2 DEF Listed
      <4>2. QED
        BY <1>3, <4>1 DEF RowOK
    <3>3. QED
      BY <3>1, <3>2
  <2>3. QED
    BY <2>1, <2>2 DEF TableOK
<1>6. ReadingOK
  BY <1>1, CronBatchesAssumption DEF ReadingOK
<1>7. VaultsOK /\ SeenOK
  <2>1. vaults \in VaultsRun /\ vaults.pc = "idle" /\ vaults.seen = {}
    BY <1>1, NoRunTypes DEF NoVaultsRun
  <2>2. QED
    BY <2>1 DEF VaultsOK, SeenOK
<1>8. MembersOK
  <2>1. members \in MembersRun /\ members.pc = "idle"
    BY <1>1, NoRunTypes DEF NoMembersRun
  <2>2. QED
    BY <2>1 DEF MembersOK, SkipsAreBoundedByMoves
<1>9. SettingsOK
  <2>1. PICK s \in Settings : crons = s[1] /\ minimal = s[2]
    BY DEF Init
  <2>2. s \in (SUBSET {"vaults", "members"}) \X Nat
    BY <2>1, CronBatchesAssumption
  <2>3. settings = s
    BY <2>1, <2>2 DEF settings
  <2>4. QED
    BY <1>1, <2>3, CronBatchesAssumption DEF SettingsOK
<1>10. QED
  BY <1>4, <1>5, <1>6, <1>7, <1>8, <1>9 DEF IInv

\* One case for each action.
LEMMA NextIInv == ASSUME IInv, [Next]_vars PROVE IInv'
<1>1. CASE \E v \in Vaults : HubConnects(v) \/ HubDisconnects(v) \/ AttemptSucceeds(v)
  BY <1>1, ChainKeeps, AttemptKeeps
<1>2. CASE HubKeepsList
  BY <1>2, ChainKeeps
<1>3. CASE \/ \E e \in events : Deliver(e[1], e[2])
           \/ \E e \in transfers : DeliverTransfer(e[1], e[2])
           \/ \E v \in Vaults, block \in DOMAIN lists : SyncOwner(v, block)
  BY <1>3, DeliverKeeps, DeliverTransferKeeps, SyncOwnerKeeps
<1>4. CASE StartVaults \/ VaultsStep
  BY <1>4, StartVaultsKeeps, ReadBatchKeeps, SaveItemKeeps, DetectKeeps,
     DisconnectUnlistedKeeps, EndVaultsKeeps DEF VaultsStep
<1>5. CASE StartMembers \/ MembersStep
  BY <1>5, StartMembersKeeps, LoadPageKeeps, SaveMembersKeeps, EndMembersKeeps DEF MembersStep
<1>6. CASE Faults
  <2>1. CASE BatchFails \/ ItemFails \/ DisconnectFails \/ LoadPageFails \/ SaveMembersFails
    BY <2>1, BatchFailsKeeps, ItemFailsKeeps, DisconnectFailsKeeps, LoadPageFailsKeeps,
       SaveMembersFailsKeeps
  <2>2. CASE \E v \in Vaults : AttemptFails(v)
    BY <2>2, AttemptKeeps
  <2>3. QED
    BY <1>6, <2>1, <2>2 DEF Faults
<1>7. CASE UNCHANGED vars
  <2>1. /\ UNCHANGED <<lists, row, reading, vaults, settings, missed>> /\ Serves
        /\ members' = members /\ faults' = faults
    BY <1>7 DEF vars, settings, Serves
  <2>2. ChainOK /\ TableOK /\ MembersOK /\ Grows /\ Connected' = Connected
    BY <2>1, SameChain DEF IInv, Connected
  <2>3. MembersOK'
    BY <2>1, <2>2, MembersStay
  <2>4. QED
    BY <2>1, <2>3, MembersOnlyKeeps
<1>8. QED
  BY <1>1, <1>2, <1>3, <1>4, <1>5, <1>6, <1>7 DEF Next

\* The invariant: lists without repetitions, rows that tell their blocks, the places each
\* run has covered, what was seen is reached, and who a members run has skipped.
THEOREM CronBatchesInvariance == Spec => []IInv
<1>1. Init => IInv
  BY InitIInv
<1>2. IInv /\ [Next]_vars => IInv'
  BY NextIInv
<1>3. QED
  BY <1>1, <1>2, PTL DEF Spec

\* The types of the two crons, of the rows and of the handlers' reads; ids are given once
\* and never beyond the number of vaults.
THEOREM CronBatchesTypeCorrect == Spec => []TypeOK
<1>1. IInv => TypeOK
  <2>1. SUFFICES ASSUME IInv PROVE TypeOK
    OBVIOUS
  <2>2. /\ lists \in Seq(Seq(Vaults)) /\ Latest \in 1..MaxBlock /\ sent \in 0..MaxBlock
        /\ events \cup transfers \subseteq Vaults \X (1..MaxBlock)
    <3>1. /\ lists \in Seq(Seq(Vaults)) /\ Latest \in 1..MaxBlock
          /\ sent \in Nat /\ Latest + sent <= MaxBlock
          /\ events \cup transfers \subseteq Vaults \X (1..Latest)
      BY <2>1 DEF IInv, ChainOK
    <3>2. 1..Latest \subseteq 1..MaxBlock
      BY <3>1, CronBatchesAssumption
    <3>3. sent \in 0..MaxBlock
      BY <3>1, CronBatchesAssumption
    <3>4. QED
      BY <3>1, <3>2, <3>3
  <2>3. row \in [Vaults -> Row] /\ IdsOK
    BY <2>1 DEF IInv, TableOK
  <2>4. /\ reading \in [Vaults -> [attempt : 0..Attempts, block : 0..MaxBlock]]
        /\ vaults \in VaultsRun /\ members \in MembersRun
    BY <2>1 DEF IInv, ReadingOK, VaultsOK, MembersOK
  <2>5. QED
    BY <2>1, <2>2, <2>3, <2>4 DEF TypeOK, IInv, IdsOK, SettingsOK
<1>2. QED
  BY <1>1, CronBatchesInvariance, PTL

\* Whoever wrote the flag last (the cron, the detection after a full list, a handler of an
\* event that came late), it says what VaultHub listed at the block it was written for,
\* unless the vault's batch could not be read.  That block is the one stored beside it until
\* an ownership transfer or a followed owner moves it on; a connected flag still was right at
\* some time in the newer block.
THEOREM FlagsTellTheirBlock == Spec => []FlagsAreOfTheirBlock
<1>1. IInv => FlagsAreOfTheirBlock
  <2>1. SUFFICES ASSUME IInv, NEW v \in Vaults, row[v].id # 0
                 PROVE  /\ row[v].flag # 0 => \/ row[v].disconnected = ~Listed(v, row[v].flag)
                                              \/ <<v, row[v].flag>> \in missed
                        /\ row[v].flag # row[v].block =>
                             /\ row[v].flag < row[v].block
                             /\ row[v].disconnected \/ ListedDuring(v, row[v].block)
    BY Zenon DEF FlagsAreOfTheirBlock
  <2>2. /\ row[v].disconnected \in BOOLEAN /\ RowOK(v, row[v])
        /\ row[v].flag \in Int /\ row[v].block \in Int
    BY <2>1 DEF IInv, TableOK, Row
  <2>3. row[v].flag # 0 =>
          (row[v].disconnected <=> ~Listed(v, row[v].flag)) \/ <<v, row[v].flag>> \in missed
    BY <2>1, <2>2 DEF RowOK
  <2>4. row[v].flag # row[v].block => row[v].flag < row[v].block
    BY <2>2 DEF RowOK
  <2>5. row[v].flag < row[v].block => row[v].disconnected \/ ListedDuring(v, row[v].block)
    BY <2>1, <2>2 DEF RowOK
  <2>6. QED
    BY <2>2, <2>3, <2>4, <2>5, Zenon DEF Listed
<1>2. QED
  BY <1>1, CronBatchesInvariance, PTL

\* A run of fetchAllVaultsAndCalculateStates passes over no vault within its limit: the
\* batches cut the list of its block without gaps, whatever fails in between.
THEOREM RunsReachTheirVaults == Spec => []RunReachesEveryVault
<1>1. IInv => RunReachesEveryVault
  <2>1. SUFFICES ASSUME IInv, vaults.pc = "end",
                        NEW v \in Range(Slice(lists[vaults.block], 0, vaults.limit))
                 PROVE  \/ <<v, vaults.block>> \in missed \/ v \in vaults.unsaved
                        \/ /\ row[v].id # 0 /\ row[v].block >= vaults.block
                           /\ row[v].state >= vaults.block \/ v \in vaults.late
    BY DEF RunReachesEveryVault
  <2> DEFINE list == lists[vaults.block]
             limit == vaults.limit
  <2>2. list \in Seq(Vaults) /\ Len(list) \in Nat /\ limit \in Nat /\ limit <= Len(list)
    BY <2>1, RunFacts
  <2>3. \A i \in 1..Len(list) : i <= limit =>
          list[i] \in vaults.seen \/ <<list[i], vaults.block>> \in missed
    <3>1. Covered(vaults, vaults.limit)
      BY <2>1 DEF IInv, VaultsOK
    <3>2. QED
      BY <2>2, <3>1 DEF Covered
  <2>4. PICK i \in 1..Len(list) : i <= limit /\ list[i] = v
    <3>1. PICK z \in Nat : z = 0
      OBVIOUS
    <3> DEFINE e == IF z + limit < Len(list) THEN z + limit ELSE Len(list)
               cut == Slice(list, z, limit)
    <3>2. v \in Range(cut)
      BY <2>1, <3>1
    <3> HIDE DEF list, limit
    <3>3. /\ cut = SubSeq(list, z + 1, e) /\ cut \in Seq(Vaults)
          /\ Len(cut) = IF z < e THEN e - z ELSE 0
          /\ \A i \in 1..Len(cut) : z + i \in 1..e /\ cut[i] = list[z + i]
      <4>1. list \in Seq(Vaults) /\ z \in Nat /\ limit \in Nat
        BY <2>2, <3>1
      <4>2. QED
        BY <4>1, SliceFacts, Zenon
    <3> HIDE DEF cut
    <3>4. PICK i \in 1..Len(cut) : cut[i] = v
      <4>1. DOMAIN cut = 1..Len(cut)
        BY <3>3
      <4>2. QED
        BY <3>2, <4>1, Zenon DEF Range
    <3>5. e = limit
      BY <2>2, <3>1
    <3> HIDE DEF e
    <3>6. z + i = i /\ i \in 1..limit /\ i \in 1..Len(list)
      BY <2>2, <3>1, <3>3, <3>4, <3>5
    <3>7. list[i] = v /\ i <= limit
      BY <2>2, <3>3, <3>4, <3>6
    <3>8. QED
      BY <3>6, <3>7
  <2>5. CASE v \in vaults.seen
    <3>1. Reached(v, vaults, row[v])
      BY <2>1, <2>5 DEF IInv, SeenOK
    <3>2. QED
      BY <3>1 DEF Reached
  <2>6. CASE v \notin vaults.seen
    BY <2>3, <2>4, <2>6
  <2>7. QED
    BY <2>5, <2>6
<1>2. QED
  BY <1>1, CronBatchesInvariance, PTL

\* fetchAllVaultsRoleMembers pages by offset over rows that come and go: each row that
\* enters or leaves the filter shifts the others by one place and costs the run at most
\* one vault, so a quiet run skips none.
THEOREM SkipsAreBounded == Spec => []SkipsAreBoundedByMoves
<1>1. IInv => SkipsAreBoundedByMoves
  BY DEF IInv, MembersOK
<1>2. QED
  BY <1>1, CronBatchesInvariance, PTL

\* Role members are of a block at which the vault was connected, from the cron as from a
\* handler's retries: neither stores the zero addresses of an unresolved answer.
THEOREM StoredMembersAreResolved == Spec => []MembersAreResolved
<1>1. IInv => MembersAreResolved
  BY DEF IInv, TableOK, RowOK, MembersAreResolved
<1>2. QED
  BY <1>1, CronBatchesInvariance, PTL
=============================================================================
