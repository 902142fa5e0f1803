--------------------------- MODULE LifecycleProofs ---------------------------
(***************************************************************************)
(* Proofs about the life of the processes: how replicas and worker start   *)
(* while the schema is migrated (Startup) and how a container ends when    *)
(* its secrets are rotated (SecretsRotation, as the instance Rotation).    *)
(***************************************************************************)
EXTENDS Startup, FiniteSetTheorems, SequenceTheorems, TLAPS

-----------------------------------------------------------------------------
(***************************************************************************)
(* Startup, for any set of replicas, any old image and any number of       *)
(* faults.                                                                 *)
(***************************************************************************)
\* The migrations after a, up to b.
Span(a, b) == [i \in 1..(b - a) |-> a + i]

\* The newest migration that a table names, which names all up to it.
TopOf(table) == IF table = << >> THEN 0 ELSE table[Len(table)]
NamesAll(table) ==
  /\ TopOf(table) \in 0..12
  /\ \A m \in 1..12 : m <= TopOf(table) <=> \E i \in DOMAIN table : table[i] = m

Top == TopOf(applied)
TableOK == NamesAll(applied)

NeverLost == \A r \in Replicas : lost[r] = "never"

\* A migrating replica found a applied and has got to b.  Its first statement has shown
\* that nobody was ahead of it, unless it is the UPDATE, which succeeds again.
Progress(r, a, b) ==
  /\ a <= b /\ b <= image[r] /\ a <= Top
  /\ done[r] = Span(a, b) /\ pending[r] = Span(b, image[r])
  /\ a < b => Top = a \/ (a + 1 = Newest /\ Top = Newest)
  /\ NeverLost => a \in {Top, image[r]}

ProgressOK == \A r \in Replicas : pc[r] = "migrate" => \E a, b \in 0..Newest : Progress(r, a, b)

\* Nothing is open outside a migration, and no two open transactions alter the same tables.
OpenOK ==
  /\ \A r \in Replicas : pc[r] # "migrate" => done[r] = << >> /\ flagged[r] = {}
  /\ \A r, q \in Replicas : \A i \in DOMAIN done[r], j \in DOMAIN done[q] :
       done[r][i] = done[q][j] /\ done[r][i] < Newest => r = q

\* As long as no connection breaks, the lock is held by the replica that relies on it.
LockOK ==
  NeverLost => \A r \in Replicas : pc[r] \in {"check", "migrate", "unlock"} => lock = r

\* What a replica has passed on its way to serving.
BootOK ==
  \A r \in Replicas :
    /\ pc[r] \in {"unlock", "configure", "contracts", "init", "listen", "serving"} => image[r] <= Top
    /\ pc[r] \in {"contracts", "init", "listen", "serving"} => Configures
    /\ pc[r] \in {"init", "listen", "serving"} => ContractsResolve
    /\ pc[r] \in {"listen", "serving"} => ValidateNetwork

\* A row that the UPDATE has missed is late.
FlagsOK ==
  /\ Top = Newest => unflagged \subseteq late
  /\ \A r \in Replicas : (\E i \in DOMAIN done[r] : done[r][i] = Newest) => unflagged \ flagged[r] \subseteq late

StartupIInv ==
  /\ TypeOK /\ AppliedInOrderOnce /\ TableOK /\ ProgressOK /\ OpenOK /\ LockOK /\ BootOK /\ FlagsOK

\* Of the migrations: all but the last add something, and only the last is of data.
LEMMA MigrationFacts ==
  /\ Newest = 12
  /\ \A m \in 1..11 : Migrations[m].adds # {} /\ ~Migrations[m].data
  /\ Migrations[12].data
<1>1. Newest = 12
  BY DEF Newest, Migrations
<1>2. Migrations[12].data
  BY DEF Migrations, MarkNetAndCarryAprAnomalies
<1>3. ASSUME NEW m \in 1..11
      PROVE  Migrations[m].adds # {} /\ ~Migrations[m].data
  <2>1. \/ Migrations[m] = CreateVaultsTable
        \/ Migrations[m] = CreateVaultMembersTable
        \/ Migrations[m] = CreateVaultStatesTable
        \/ Migrations[m] = CreateReportsAndReportLeavesTables
        \/ Migrations[m] = CreateVaultReportStatsTable
        \/ Migrations[m] = AddIsDisconnectedFieldToVaultsTable
        \/ Migrations[m] = AddAccruedFeeFieldToVaultStatesTable
        \/ Migrations[m] = AddAnomalyFieldToVaultReportStatTable
        \/ Migrations[m] = AddVaultOwnershipFields
        \/ Migrations[m] = AddOwnershipLookupIndexes
        \/ Migrations[m] = AddVaultMembersOwnerBlockNumber
    BY DEF Migrations
  <2>2. \E needs, adds : adds # {} /\ Migrations[m] = Ddl(needs, adds)
    BY <2>1, SMT
       DEF CreateVaultsTable, CreateVaultMembersTable, CreateVaultStatesTable,
           CreateReportsAndReportLeavesTables, CreateVaultReportStatsTable,
           AddIsDisconnectedFieldToVaultsTable, AddAccruedFeeFieldToVaultStatesTable,
           AddAnomalyFieldToVaultReportStatTable, AddVaultOwnershipFields,
           AddOwnershipLookupIndexes, AddVaultMembersOwnerBlockNumber
  <2>3. QED
    BY <2>2 DEF Ddl
<1>4. QED
  BY <1>1, <1>2, <1>3

\* What the first k migrations add.
AddedUpTo(k) == UNION {Migrations[m].adds : m \in 1..k}

\* Later migrations add to what earlier ones made.
LEMMA AddedGrows ==
  ASSUME NEW k \in Nat, NEW n \in Nat, k <= n
  PROVE  AddedUpTo(k) \subseteq AddedUpTo(n)
BY DEF AddedUpTo

\* All twelve together make every table and column the entities use.
LEMMA EntitiesAdded == Entities \subseteq AddedUpTo(12)
<1>1. \A m \in 1..12 : Migrations[m].adds \subseteq AddedUpTo(12)
  BY DEF AddedUpTo
<1>2. /\ Migrations[1] = CreateVaultsTable /\ Migrations[2] = CreateVaultMembersTable
      /\ Migrations[3] = CreateVaultStatesTable /\ Migrations[4] = CreateReportsAndReportLeavesTables
      /\ Migrations[5] = CreateVaultReportStatsTable /\ Migrations[6] = AddIsDisconnectedFieldToVaultsTable
      /\ Migrations[7] = AddAccruedFeeFieldToVaultStatesTable
      /\ Migrations[8] = AddAnomalyFieldToVaultReportStatTable
      /\ Migrations[9] = AddVaultOwnershipFields /\ Migrations[11] = AddVaultMembersOwnerBlockNumber
  BY DEF Migrations
<1>3. {"vaults", "vault_members", "vault_states"} \subseteq AddedUpTo(12)
  BY <1>1, <1>2 DEF CreateVaultsTable, CreateVaultMembersTable, CreateVaultStatesTable, Ddl
<1>4. {"reports", "report_leaves", "vault_report_stats", "vaults.is_disconnected"} \subseteq AddedUpTo(12)
  BY <1>1, <1>2 DEF CreateReportsAndReportLeavesTables, CreateVaultReportStatsTable,
                    AddIsDisconnectedFieldToVaultsTable, Ddl
<1>5. {"vault_states.accrued_fee", "vault_report_stats.anomaly"} \subseteq AddedUpTo(12)
  BY <1>1, <1>2 DEF AddAccruedFeeFieldToVaultStatesTable, AddAnomalyFieldToVaultReportStatTable, Ddl
<1>6. {"vaults.effective_owner_address", "vaults.members_owner_address",
       "vaults.ownership_block_number", "vaults.members_owner_block_number"} \subseteq AddedUpTo(12)
  BY <1>1, <1>2 DEF AddVaultOwnershipFields, AddVaultMembersOwnerBlockNumber, Ddl
<1>7. QED
  BY <1>3, <1>4, <1>5, <1>6
     DEF Entities, VaultEntity, VaultMemberEntity, VaultStateEntity, VaultReportStatEntity,
         ReportEntity, ReportLeafEntity

\* An image finds what it requires once its migrations are applied.
LEMMA RequiresAdded ==
  ASSUME NEW n \in {OldImage, Newest}, NEW k \in 0..Newest, n <= k
  PROVE  Requires(n) \subseteq AddedUpTo(k)
<1>1. n \in 1..12 /\ k \in 0..12 /\ Newest = 12
  BY MigrationFacts, StartupAssumption
<1>2. CASE n = Newest
  <2>1. k = 12
    BY <1>1, <1>2
  <2>2. QED
    BY <1>2, <2>1, EntitiesAdded DEF Requires
<1>3. CASE n # Newest
  <2>1. AddedBy([i \in 1..n |-> i]) \subseteq AddedUpTo(n)
    BY <1>1 DEF AddedBy, AddedUpTo
  <2>2. AddedUpTo(n) \subseteq AddedUpTo(k)
    BY <1>1, AddedGrows
  <2>3. QED
    BY <1>3, <2>1, <2>2 DEF Requires
<1>4. QED
  BY <1>2, <1>3

-----------------------------------------------------------------------------
\* Consecutive migrations.
LEMMA SpanTyped ==
  ASSUME NEW a \in Nat, NEW b \in Nat, a <= b, NEW n \in Nat, b <= n
  PROVE  /\ Span(a, b) \in Seq(1..n) /\ Len(Span(a, b)) = b - a
         /\ DOMAIN Span(a, b) = 1..(b - a) /\ \A i \in 1..(b - a) : Span(a, b)[i] = a + i
BY DEF Span

\* No migrations between a number and itself.
LEMMA SpanEmpty ==
  ASSUME NEW a \in Nat
  PROVE  Span(a, a) = << >>
BY DEF Span

\* The first pending migration, and the ones after it.
LEMMA SpanNext ==
  ASSUME NEW b \in Nat, NEW n \in Nat, b < n
  PROVE  Span(b, n) # << >> /\ Head(Span(b, n)) = b + 1 /\ Tail(Span(b, n)) = Span(b + 1, n)
<1>1. Span(b, n) \in Seq(Nat) /\ Len(Span(b, n)) = n - b
  BY DEF Span
<1>2. Span(b, n) # << >> /\ Head(Span(b, n)) = b + 1
  BY <1>1 DEF Span
<1>3. /\ Tail(Span(b, n)) \in Seq(Nat) /\ Len(Tail(Span(b, n))) = n - b - 1
      /\ \A i \in 1..(n - b - 1) : Tail(Span(b, n))[i] = Span(b, n)[i + 1]
  BY <1>1, <1>2
<1>4. \A i \in 1..(n - b - 1) : Span(b, n)[i + 1] = (b + 1) + i
  BY DEF Span
<1>5. /\ Span(b + 1, n) \in Seq(Nat) /\ Len(Span(b + 1, n)) = n - b - 1
      /\ \A i \in 1..(n - b - 1) : Span(b + 1, n)[i] = (b + 1) + i
  BY DEF Span
<1>6. Tail(Span(b, n)) = Span(b + 1, n)
  <2> DEFINE t == Tail(Span(b, n))
             u == Span(b + 1, n)
  <2>1. t \in Seq(Nat) /\ u \in Seq(Nat) /\ Len(t) = Len(u) /\ \A i \in 1..Len(t) : t[i] = u[i]
    BY <1>3, <1>4, <1>5
  <2> HIDE DEF t, u
  <2>2. t = u
    BY <2>1, SeqEqual
  <2>3. QED
    BY <2>2 DEF t, u
<1>7. QED
  BY <1>2, <1>6

\* One more migration at the end.
LEMMA SpanAppend ==
  ASSUME NEW a \in Nat, NEW b \in Nat, a <= b
  PROVE  Append(Span(a, b), b + 1) = Span(a, b + 1)
BY DEF Span

\* Two runs of migrations that meet.
LEMMA SpanConcat ==
  ASSUME NEW a \in Nat, NEW b \in Nat, NEW n \in Nat, a <= b, b <= n
  PROVE  Span(a, b) \o Span(b, n) = Span(a, n)
BY DEF Span

\* A span is a prefix of nothing: it is empty only when it is.
LEMMA SpanIsEmpty ==
  ASSUME NEW a \in Nat, NEW b \in Nat, a <= b, Span(a, b) = << >>
  PROVE  a = b
<1>1. Len(Span(a, b)) = b - a
  BY DEF Span
<1>2. QED
  BY <1>1

-----------------------------------------------------------------------------
\* What the table names, and what a replica therefore finds missing.
LEMMA SchemaIs ==
  ASSUME TypeOK, TableOK
  PROVE  schema = AddedUpTo(Top)
<1>1. applied \in Seq(1..Newest) /\ schema = AddedBy(applied)
  BY Zenon DEF TypeOK
<1>2. /\ \A i \in DOMAIN applied : applied[i] \in 1..Top
      /\ \A m \in 1..Top : \E i \in DOMAIN applied : applied[i] = m
  <2>1. \A i \in DOMAIN applied : applied[i] \in 1..12
    BY <1>1, MigrationFacts
  <2>2. Top \in 0..12 /\ \A m \in 1..12 : m <= Top <=> \E i \in DOMAIN applied : applied[i] = m
    BY Zenon DEF TableOK, NamesAll, Top
  <2>3. QED
    BY <2>1, <2>2
<1>3. {Migrations[applied[i]].adds : i \in DOMAIN applied} = {Migrations[m].adds : m \in 1..Top}
  BY <1>2
<1>4. QED
  BY <1>1, <1>3, Zenon DEF AddedBy, AddedUpTo

First(r) == IF Top < image[r] THEN Top ELSE image[r]

\* runMigrations asks for the migrations after the newest one in the table.
LEMMA PendingIs ==
  ASSUME TypeOK, TableOK, NEW r \in Replicas
  PROVE  /\ First(r) \in 0..Newest /\ First(r) <= image[r] /\ First(r) <= Top
         /\ PendingOf(r) = Span(First(r), image[r])
<1> DEFINE n == image[r]
           k == First(r)
           S == Missing(r)
<1>1. n \in {OldImage, Newest}
  BY Zenon DEF TypeOK
<1>2. n \in 1..12 /\ Newest = 12 /\ Top \in 0..12
  BY <1>1, MigrationFacts, StartupAssumption DEF TableOK, NamesAll, Top
<1>3. k \in 0..12 /\ k <= n /\ k <= Top /\ (k < n => k = Top)
  BY <1>2 DEF First
<1>4. S = (k + 1)..n
  <2>1. \A m \in 1..n : m \in S <=> ~(\E i \in DOMAIN applied : applied[i] = m)
    BY DEF Missing
  <2>2. \A m \in 1..n : m \in S <=> m > Top
    BY <1>2, <2>1 DEF TableOK, NamesAll, Top
  <2>3. \A m \in 1..n : m > Top <=> m > k
    BY <1>2, <1>3
  <2>4. S \subseteq 1..n
    BY DEF Missing
  <2> HIDE DEF S, k, n
  <2>5. \A m \in 1..n : m \in S <=> m > k
    BY <2>2, <2>3
  <2>6. \A m : m \in (k + 1)..n <=> m \in 1..n /\ m > k
    BY <1>2, <1>3
  <2>7. QED
    BY <2>4, <2>5, <2>6, Zenon
<1> HIDE DEF S, k, n
<1>5. Cardinality(S) = n - k
  <2>1. (k + 1) \in Int /\ n \in Int /\ n - (k + 1) + 1 = n - k /\ (k + 1 <= n \/ k = n)
    BY <1>2, <1>3
  <2>2. Cardinality((k + 1)..n) = IF k + 1 > n THEN 0 ELSE n - (k + 1) + 1
    BY <2>1, FS_Interval, Zenon
  <2>3. QED
    BY <1>2, <1>3, <1>4, <2>1, <2>2
<1>6. ASSUME NEW m \in S
      PROVE  Cardinality({j \in S : j <= m}) = m - k
  <2>1. {j \in S : j <= m} = (k + 1)..m
    BY <1>2, <1>3, <1>4
  <2>2. (k + 1) \in Int /\ m \in Int /\ m - (k + 1) + 1 = m - k /\ ~(k + 1 > m)
    BY <1>2, <1>3, <1>4
  <2>3. Cardinality((k + 1)..m) = IF k + 1 > m THEN 0 ELSE m - (k + 1) + 1
    BY <2>2, FS_Interval, Zenon
  <2>4. QED
    BY <2>1, <2>2, <2>3
<1>7. ASSUME NEW i \in 1..(n - k)
      PROVE  (CHOOSE m \in S : Cardinality({j \in S : j <= m}) = i) = k + i
  <2>1. k + i \in S /\ Cardinality({j \in S : j <= k + i}) = i
    BY <1>2, <1>3, <1>4, <1>6
  <2>2. \A m \in S : Cardinality({j \in S : j <= m}) = i => m = k + i
    BY <1>2, <1>3, <1>4, <1>6
  <2>3. QED
    BY <2>1, <2>2, Zenon
<1>8. PendingOf(r) = [i \in 1..Cardinality(S) |-> CHOOSE m \in S : Cardinality({j \in S : j <= m}) = i]
  BY Zenon DEF PendingOf, S
<1>9. PendingOf(r) = Span(k, n)
  BY <1>5, <1>7, <1>8, Zenon DEF Span
<1>10. QED
  BY <1>2, <1>3, <1>9 DEF k, n

\* AppliedInOrderOnce of any table.
InOrder(table) ==
  \A i \in DOMAIN table :
    table[i] = IF i = 1 THEN 1
               ELSE IF Migrations[table[i]].data /\ table[i - 1] = table[i] THEN table[i]
               ELSE table[i - 1] + 1

\* A commit adds the migrations after a up to b to the table s, which becomes t.
Extended(s, a, b, t) ==
  /\ s \in Seq(1..12) /\ NamesAll(s) /\ InOrder(s) /\ a \in 0..12 /\ b \in 0..12 /\ a <= b
  /\ a < b => TopOf(s) = a \/ (a = 11 /\ TopOf(s) = 12)
  /\ t = s \o Span(a, b)

\* A commit extends the table in order, and its schema by what the migrations add.
LEMMA TableGrows ==
  ASSUME NEW s, NEW a, NEW b, NEW t, Extended(s, a, b, t)
  PROVE  /\ t \in Seq(1..12) /\ NamesAll(t) /\ InOrder(t)
         /\ TopOf(t) = IF a < b THEN b ELSE TopOf(s)
         /\ AddedBy(t) = AddedBy(s) \cup AddedBy(Span(a, b))
<1> DEFINE n == Len(s)
           d == b - a
           top == TopOf(s)
<1> SUFFICES ASSUME s \in Seq(1..12), NamesAll(s), InOrder(s), a \in 0..12, b \in 0..12, a <= b,
                    a < b => TopOf(s) = a \/ (a = 11 /\ TopOf(s) = 12), t = s \o Span(a, b)
             PROVE  /\ t \in Seq(1..12) /\ NamesAll(t) /\ InOrder(t)
                    /\ TopOf(t) = IF a < b THEN b ELSE TopOf(s)
                    /\ AddedBy(t) = AddedBy(s) \cup AddedBy(Span(a, b))
  BY Zenon DEF Extended
<1>1. /\ Span(a, b) \in Seq(1..12) /\ Len(Span(a, b)) = d /\ DOMAIN Span(a, b) = 1..d
      /\ \A i \in 1..d : Span(a, b)[i] = a + i
  <2>1. a \in Nat /\ b \in Nat /\ 12 \in Nat /\ b <= 12
    OBVIOUS
  <2>2. QED
    BY <2>1, SpanTyped, Zenon
<1>2. n \in Nat /\ DOMAIN s = 1..n /\ (\A i \in 1..n : s[i] \in 1..12) /\ d \in 0..12
  OBVIOUS
<1>3. top \in 0..12 /\ top = IF n = 0 THEN 0 ELSE s[n]
  BY DEF NamesAll, TopOf
<1> HIDE DEF n, d, top
<1>4. /\ t \in Seq(1..12) /\ Len(t) = n + d
      /\ \A i \in 1..(n + d) : t[i] = IF i <= n THEN s[i] ELSE Span(a, b)[i - n]
  BY <1>1, ConcatProperties DEF n
<1>5. DOMAIN t = 1..(n + d) /\ (\A i \in 1..n : t[i] = s[i])
  BY <1>2, <1>4
<1>6. \A i \in 1..d : n + i \in 1..(n + d) /\ t[n + i] = a + i
  <2> TAKE i \in 1..d
  <2>1. n + i \in 1..(n + d) /\ ~(n + i <= n) /\ (n + i) - n = i
    BY <1>2
  <2>2. QED
    BY <2>1, <1>1, <1>4
<1>7. \A i \in 1..(n + d) : i \in 1..n \/ \E j \in 1..d : i = n + j
  <2> TAKE i \in 1..(n + d)
  <2>1. CASE i > n
    <3>1. i - n \in 1..d /\ i = n + (i - n)
      BY <1>2, <2>1
    <3>2. QED
      BY <3>1
  <2>2. QED
    BY <1>2, <2>1
<1>8. 1..n \subseteq 1..(n + d)
  BY <1>2
<1>9. TopOf(t) = IF a < b THEN b ELSE top
  <2>1. CASE a < b
    <3>1. d \in 1..d /\ n + d # 0 /\ a + d = b
      BY <1>2, <2>1 DEF d
    <3>2. t # << >> /\ t[Len(t)] = b
      BY <3>1, <1>2, <1>4, <1>6
    <3>3. QED
      BY <2>1, <3>2 DEF TopOf
  <2>2. CASE a = b
    <3>1. d = 0
      BY <2>2 DEF d
    <3>2. Len(t) = n /\ (t = << >> <=> n = 0)
      BY <3>1, <1>2, <1>4
    <3>3. n # 0 => t[n] = s[n]
      BY <1>2, <1>5
    <3>4. QED
      BY <2>2, <3>2, <3>3, <1>3 DEF TopOf
  <2>3. QED
    BY <2>1, <2>2
<1>10. NamesAll(t)
  <2>1. TopOf(t) \in 0..12
    BY <1>3, <1>9
  <2>2. ASSUME NEW m \in 1..12
        PROVE  m <= TopOf(t) <=> \E i \in DOMAIN t : t[i] = m
    <3>1. m <= top <=> \E i \in 1..n : s[i] = m
      BY <1>2, Zenon DEF NamesAll, top
    <3>2. (\E i \in DOMAIN t : t[i] = m) <=> (\E i \in 1..n : s[i] = m) \/ (\E j \in 1..d : a + j = m)
      <4>1. ASSUME NEW i \in 1..n, s[i] = m
            PROVE  \E k \in DOMAIN t : t[k] = m
        BY <1>5, <1>8, <4>1, Zenon
      <4>2. ASSUME NEW j \in 1..d, a + j = m
            PROVE  \E k \in DOMAIN t : t[k] = m
        BY <1>5, <1>6, <4>2, Zenon
      <4>3. ASSUME NEW i \in DOMAIN t, t[i] = m
            PROVE  (\E k \in 1..n : s[k] = m) \/ (\E j \in 1..d : a + j = m)
        <5>1. CASE i \in 1..n
          BY <4>3, <5>1, <1>5, Zenon
        <5>2. CASE \E j \in 1..d : i = n + j
          BY <4>3, <5>2, <1>6, Zenon
        <5>3. QED
          BY <5>1, <5>2, <1>5, <1>7, Zenon
      <4>4. QED
        BY <4>1, <4>2, <4>3, Zenon
    <3>3. (\E j \in 1..d : a + j = m) <=> a < m /\ m <= b
      <4>1. a < m /\ m <= b => m - a \in 1..d /\ a + (m - a) = m
        BY DEF d
      <4>2. \A j \in 1..d : a + j = m => a < m /\ m <= b
        BY DEF d
      <4>3. QED
        BY <4>1, <4>2, Zenon
    <3>4. m <= TopOf(t) <=> m <= top \/ (a < m /\ m <= b)
      BY <1>3, <1>9 DEF top
    <3>5. QED
      BY <3>1, <3>2, <3>3, <3>4, Zenon
  <2>3. QED
    BY <2>1, <2>2 DEF NamesAll
<1>11. InOrder(t)
  <2> SUFFICES ASSUME NEW i \in 1..(n + d)
               PROVE  t[i] = IF i = 1 THEN 1
                             ELSE IF Migrations[t[i]].data /\ t[i - 1] = t[i] THEN t[i]
                             ELSE t[i - 1] + 1
    BY <1>5, Zenon DEF InOrder
  <2>1. CASE i \in 1..n
    <3>1. t[i] = s[i] /\ (i # 1 => t[i - 1] = s[i - 1])
      BY <2>1, <1>2, <1>5
    <3>2. s[i] = IF i = 1 THEN 1
                 ELSE IF Migrations[s[i]].data /\ s[i - 1] = s[i] THEN s[i]
                 ELSE s[i - 1] + 1
      BY <2>1, <1>2, Zenon DEF InOrder
    <3>3. QED
      BY <3>1, <3>2, Zenon
  <2>2. CASE \E j \in 1..d : i = n + j
    <3>1. PICK j \in 1..d : i = n + j
      BY <2>2
    <3>2. t[i] = a + j /\ a < b
      <4>1. t[n + j] = a + j
        BY <1>6
      <4>2. a < b
        BY DEF d
      <4>3. QED
        BY <3>1, <4>1, <4>2
    <3>3. CASE j = 1
      <4>1. CASE n = 0
        BY <3>1, <3>2, <3>3, <4>1, <1>3 DEF top
      <4>2. CASE n # 0
        <5>1. i # 1 /\ t[i - 1] = top /\ t[i] = a + 1
          BY <3>1, <3>2, <3>3, <4>2, <1>2, <1>3, <1>5
        <5>2. CASE top = a
          <6>1. t[i - 1] # t[i] /\ t[i] = t[i - 1] + 1
            BY <5>1, <5>2
          <6>2. QED
            BY <5>1, <6>1, Zenon
        <5>3. CASE a = 11 /\ top = 12
          BY <5>1, <5>3, MigrationFacts
        <5>4. QED
          BY <3>2, <5>2, <5>3 DEF top
      <4>3. QED
        BY <4>1, <4>2
    <3>4. CASE j # 1
      <4>1. j - 1 \in 1..d /\ i - 1 = n + (j - 1) /\ i # 1
        BY <3>1, <3>4, <1>2
      <4>2. t[i - 1] = a + (j - 1)
        BY <4>1, <1>6
      <4>3. t[i - 1] # t[i] /\ t[i] = t[i - 1] + 1
        BY <3>2, <4>2
      <4>4. QED
        BY <4>1, <4>3, Zenon
    <3>5. QED
      BY <3>3, <3>4
  <2>3. QED
    BY <2>1, <2>2, <1>7
<1>12. AddedBy(t) = AddedBy(s) \cup AddedBy(Span(a, b))
  <2>1. ASSUME NEW x
        PROVE  x \in AddedBy(t) <=> x \in AddedBy(s) \/ x \in AddedBy(Span(a, b))
    <3>1. x \in AddedBy(t) <=> \E i \in 1..(n + d) : x \in Migrations[t[i]].adds
      BY <1>5, Zenon DEF AddedBy
    <3>2. x \in AddedBy(s) <=> \E i \in 1..n : x \in Migrations[s[i]].adds
      BY <1>2, Zenon DEF AddedBy
    <3>3. x \in AddedBy(Span(a, b)) <=> \E i \in 1..d : x \in Migrations[a + i].adds
      BY <1>1, Zenon DEF AddedBy
    <3>4. ASSUME NEW i \in 1..n, x \in Migrations[s[i]].adds PROVE x \in AddedBy(t)
      BY <1>5, <1>8, <3>1, <3>4, Zenon
    <3>5. ASSUME NEW j \in 1..d, x \in Migrations[a + j].adds PROVE x \in AddedBy(t)
      BY <1>6, <3>1, <3>5, Zenon
    <3>6. ASSUME NEW i \in 1..(n + d), x \in Migrations[t[i]].adds
          PROVE  x \in AddedBy(s) \/ x \in AddedBy(Span(a, b))
      <4>1. CASE i \in 1..n
        BY <1>5, <3>2, <3>6, <4>1, Zenon
      <4>2. CASE \E j \in 1..d : i = n + j
        BY <1>6, <3>3, <3>6, <4>2, Zenon
      <4>3. QED
        BY <1>7, <4>1, <4>2, Zenon
    <3>7. QED
      BY <3>1, <3>2, <3>3, <3>4, <3>5, <3>6, Zenon
  <2>2. QED
    BY <2>1
<1>13. QED
  BY <1>4, <1>9, <1>10, <1>11, <1>12 DEF top

-----------------------------------------------------------------------------
\* The parts of TypeOK.
MigratorTyped ==
  /\ lock \in Replicas \cup {None} /\ pc \in [Replicas -> Phases]
  /\ pending \in [Replicas -> Seq(1..Newest)] /\ done \in [Replicas -> Seq(1..Newest)]
  /\ flagged \in [Replicas -> SUBSET Rows] /\ lost \in [Replicas -> {"never", "before", "now"}]
DatabaseTyped ==
  /\ applied \in Seq(1..Newest) /\ schema = AddedBy(applied)
  /\ unflagged \subseteq Rows /\ late \subseteq Rows
OthersTyped ==
  /\ image \in [Replicas \cup {Worker} -> {OldImage, Newest}]
  /\ worker \in {"down", "running"} /\ backfill \in BOOLEAN
  /\ env \in Env /\ faults \in 0..MaxFaults

\* The type invariant in three parts.
LEMMA StartupTypes == TypeOK <=> MigratorTyped /\ DatabaseTyped /\ OthersTyped
BY Zenon DEF TypeOK, MigratorTyped, DatabaseTyped, OthersTyped

\* The same of the next state.
LEMMA StartupTypesNext == MigratorTyped' /\ DatabaseTyped' /\ OthersTyped' => TypeOK'
BY Zenon DEF TypeOK, MigratorTyped, DatabaseTyped, OthersTyped

\* What holds of every replica and number in a state of the invariant.
LEMMA AtReplica ==
  ASSUME StartupIInv, NEW r \in Replicas
  PROVE  /\ MigratorTyped /\ DatabaseTyped /\ OthersTyped
         /\ image[r] \in 1..12 /\ Newest = 12 /\ Top \in 0..12
<1>1. MigratorTyped /\ DatabaseTyped /\ OthersTyped
  BY StartupTypes, Zenon DEF StartupIInv
<1>2. image[r] \in {OldImage, Newest}
  BY <1>1, Zenon DEF OthersTyped
<1>3. Top \in 0..12
  BY Zenon DEF StartupIInv, TableOK, NamesAll, Top
<1>4. QED
  BY <1>1, <1>2, <1>3, MigrationFacts, StartupAssumption

\* Faults stay within their bound.
LEMMA FaultCounted ==
  ASSUME faults \in 0..MaxFaults, Fault \/ UNCHANGED faults
  PROVE  faults' \in 0..MaxFaults
BY StartupAssumption DEF Fault

\* A step that commits nothing and in which no replica comes to migrate.
LEMMA QuietStep ==
  ASSUME StartupIInv, UNCHANGED <<applied, schema, unflagged, late>>, MigratorTyped', OthersTyped',
         NeverLost' => NeverLost, LockOK', BootOK',
         \A q \in Replicas :
           \/ /\ pc'[q] = "migrate" /\ pc[q] = "migrate" /\ done'[q] = done[q]
              /\ pending'[q] = pending[q] /\ image'[q] = image[q] /\ flagged'[q] = flagged[q]
           \/ pc'[q] # "migrate" /\ done'[q] = << >> /\ flagged'[q] = {}
  PROVE  StartupIInv'
<1>1. UNCHANGED <<applied, schema, unflagged, late, Top>>
  BY Zenon DEF Top
<1>2. TypeOK'
  <2>1. DatabaseTyped'
    BY <1>1, StartupTypes, Zenon DEF StartupIInv, DatabaseTyped
  <2>2. QED
    BY <2>1, StartupTypesNext, Zenon
<1>3. AppliedInOrderOnce' /\ TableOK'
  BY <1>1, Zenon DEF StartupIInv, AppliedInOrderOnce, TableOK
<1>4. ProgressOK'
  <2> SUFFICES ASSUME NEW r \in Replicas, pc'[r] = "migrate"
               PROVE  \E a, b \in 0..Newest : Progress(r, a, b)'
    BY Zenon DEF ProgressOK
  <2>1. /\ pc[r] = "migrate" /\ done'[r] = done[r] /\ pending'[r] = pending[r] /\ image'[r] = image[r]
    BY Zenon
  <2>2. PICK a \in 0..Newest, b \in 0..Newest : Progress(r, a, b)
    BY <2>1, Zenon DEF StartupIInv, ProgressOK
  <2>3. Progress(r, a, b)'
    BY <1>1, <2>1, <2>2, Zenon DEF Progress
  <2>4. QED
    BY <2>3, Zenon
<1>5. \A q \in Replicas : (done'[q] = done[q] /\ flagged'[q] = flagged[q]) \/ DOMAIN done'[q] = {}
  <2>1. DOMAIN << >> = {}
    OBVIOUS
  <2>2. QED
    BY <2>1
<1>6. OpenOK'
  <2>1. \A r \in Replicas : pc'[r] # "migrate" => done'[r] = << >> /\ flagged'[r] = {}
    BY Zenon
  <2>2. \A r, q \in Replicas : \A i \in DOMAIN done'[r], j \in DOMAIN done'[q] :
          done'[r][i] = done'[q][j] /\ done'[r][i] < Newest => r = q
    BY <1>5, Zenon DEF StartupIInv, OpenOK
  <2>3. QED
    BY <2>1, <2>2, Zenon DEF OpenOK
<1>7. FlagsOK'
  <2>1. \A r \in Replicas :
          (\E i \in DOMAIN done'[r] : done'[r][i] = Newest) => unflagged' \ flagged'[r] \subseteq late'
    BY <1>1, <1>5, Zenon DEF StartupIInv, FlagsOK
  <2>2. QED
    BY <1>1, <2>1, Zenon DEF StartupIInv, FlagsOK
<1>8. QED
  BY <1>2, <1>3, <1>4, <1>6, <1>7, Zenon DEF StartupIInv

\* The conditions of the server's steps are of the environment only.
LEMMA BootKept ==
  ASSUME StartupIInv, UNCHANGED <<applied, env>>,
         \A q \in Replicas : \/ pc'[q] = pc[q] /\ image'[q] = image[q]
                             \/ pc'[q] \in {"down", "lock", "check", "migrate"}
  PROVE  BootOK'
<1>1. (Configures <=> Configures') /\ (ContractsResolve <=> ContractsResolve')
      /\ (ValidateNetwork <=> ValidateNetwork') /\ Top' = Top
  BY Zenon DEF Configures, Validate, ConfigService, NetworkConfigFound, ContractsResolve,
     VaultHubResolves, LazyOracleResolves, LidoResolves, VaultViewerResolves, ReadsLocator, RpcAnswers,
     LocatorKnows, AddressMap, ValidateNetwork, Top
<1>2. BootOK
  BY DEF StartupIInv
<1> SUFFICES ASSUME NEW r \in Replicas
             PROVE  /\ pc'[r] \in {"unlock", "configure", "contracts", "init", "listen", "serving"} => image'[r] <= Top
                    /\ pc'[r] \in {"contracts", "init", "listen", "serving"} => Configures
                    /\ pc'[r] \in {"init", "listen", "serving"} => ContractsResolve
                    /\ pc'[r] \in {"listen", "serving"} => ValidateNetwork
  BY <1>1, Zenon DEF BootOK
<1>3. CASE pc'[r] = pc[r] /\ image'[r] = image[r]
  BY <1>2, <1>3, Zenon DEF BootOK
<1>4. CASE pc'[r] \in {"down", "lock", "check", "migrate"}
  BY <1>4
<1>5. QED
  BY <1>3, <1>4

\* A process that ends leaves nothing behind.
LEMMA ExitKeeps ==
  ASSUME StartupIInv, NEW r \in Replicas, Exit(r), UNCHANGED <<applied, schema, unflagged, late, env>>,
         OthersTyped', \A q \in Replicas : q # r => image'[q] = image[q]
  PROVE  StartupIInv'
<1>1. MigratorTyped
  BY AtReplica
<1>2. /\ pc' = [pc EXCEPT ![r] = "down"] /\ lock' = IF lock = r THEN None ELSE lock
      /\ pending' = [pending EXCEPT ![r] = << >>] /\ done' = [done EXCEPT ![r] = << >>]
      /\ flagged' = [flagged EXCEPT ![r] = {}]
      /\ lost' = [lost EXCEPT ![r] = IF lost[r] = "now" THEN "before" ELSE lost[r]]
  BY Zenon DEF Exit, Goto
<1>3. MigratorTyped'
  <2>1. "down" \in Phases /\ << >> \in Seq(1..Newest) /\ {} \in SUBSET Rows
    BY DEF Phases
  <2>2. (IF lost[r] = "now" THEN "before" ELSE lost[r]) \in {"never", "before", "now"}
    BY <1>1 DEF MigratorTyped
  <2>3. QED
    BY <1>1, <1>2, <2>1, <2>2, Zenon DEF MigratorTyped
<1>4. \A q \in Replicas :
        /\ q = r => pc'[q] = "down" /\ done'[q] = << >> /\ flagged'[q] = {}
        /\ q # r => /\ pc'[q] = pc[q] /\ done'[q] = done[q] /\ flagged'[q] = flagged[q]
                    /\ pending'[q] = pending[q]
  BY <1>1, <1>2, Zenon DEF MigratorTyped
<1>5. NeverLost' => NeverLost
  <2>1. \A q \in Replicas : lost'[q] = "never" => lost[q] = "never"
    BY <1>1, <1>2 DEF MigratorTyped
  <2>2. QED
    BY <2>1, Zenon DEF NeverLost
<1>6. LockOK'
  BY <1>2, <1>4, <1>5 DEF StartupIInv, LockOK
<1>7. BootOK'
  BY <1>4, BootKept
<1>8. \A q \in Replicas :
        \/ /\ pc'[q] = "migrate" /\ pc[q] = "migrate" /\ done'[q] = done[q]
           /\ pending'[q] = pending[q] /\ image'[q] = image[q] /\ flagged'[q] = flagged[q]
        \/ pc'[q] # "migrate" /\ done'[q] = << >> /\ flagged'[q] = {}
  BY <1>4 DEF StartupIInv, OpenOK
<1>9. QED
  BY <1>3, <1>5, <1>6, <1>7, <1>8, QuietStep

\* A step outside the migration moves a replica or nobody.
LEMMA MoveKeeps ==
  ASSUME StartupIInv, NEW r \in Replicas, NEW p \in Phases, p # "migrate", pc[r] # "migrate",
         pc' = [pc EXCEPT ![r] = p], lock' \in Replicas \cup {None},
         UNCHANGED <<applied, schema, unflagged, late, image, pending, done, flagged, lost, worker,
                     backfill, env, faults>>,
         LockOK', BootOK'
  PROVE  StartupIInv'
<1>1. MigratorTyped /\ OthersTyped
  BY AtReplica
<1>2. \A q \in Replicas : pc'[q] = IF q = r THEN p ELSE pc[q]
  BY <1>1, Zenon DEF MigratorTyped
<1>3. MigratorTyped' /\ OthersTyped'
  BY <1>1, Zenon DEF MigratorTyped, OthersTyped
<1>4. NeverLost' => NeverLost
  BY Zenon DEF NeverLost
<1>5. \A q \in Replicas :
        \/ /\ pc'[q] = "migrate" /\ pc[q] = "migrate" /\ done'[q] = done[q]
           /\ pending'[q] = pending[q] /\ image'[q] = image[q] /\ flagged'[q] = flagged[q]
        \/ pc'[q] # "migrate" /\ done'[q] = << >> /\ flagged'[q] = {}
  BY <1>2, Zenon DEF StartupIInv, OpenOK
<1>6. QED
  BY <1>3, <1>4, <1>5, QuietStep

\* A replica starts: it waits for the lock and knows of no migration yet.
LEMMA StartKeeps ==
  ASSUME StartupIInv, NEW r \in Replicas, Start(r)
  PROVE  StartupIInv'
<1>1. /\ pc[r] = "down" /\ pc' = [pc EXCEPT ![r] = "lock"] /\ lock' = lock
      /\ UNCHANGED <<applied, schema, unflagged, late, image, pending, done, flagged, lost, worker,
                     backfill, env, faults>>
  BY Zenon DEF Start, Goto, database, migrator, workers
<1>2. MigratorTyped /\ "lock" \in Phases
  BY AtReplica DEF Phases
<1>3. \A q \in Replicas : pc'[q] = IF q = r THEN "lock" ELSE pc[q]
  BY <1>1, <1>2, Zenon DEF MigratorTyped
<1>4. LockOK'
  BY <1>1, <1>3 DEF StartupIInv, LockOK, NeverLost
<1>5. BootOK'
  BY <1>1, <1>3, BootKept
<1>6. QED
  BY <1>1, <1>2, <1>4, <1>5, MoveKeeps DEF MigratorTyped

\* The advisory lock goes to one replica.
LEMMA TakeLockKeeps ==
  ASSUME StartupIInv, NEW r \in Replicas, TakeLock(r)
  PROVE  StartupIInv'
<1>1. /\ pc[r] = "lock" /\ lock = None /\ pc' = [pc EXCEPT ![r] = "check"] /\ lock' = r
      /\ UNCHANGED <<applied, schema, unflagged, late, image, pending, done, flagged, lost, worker,
                     backfill, env, faults>>
  BY Zenon DEF TakeLock, Goto, database, migrator, workers
<1>2. MigratorTyped /\ "check" \in Phases
  BY AtReplica DEF Phases
<1>3. \A q \in Replicas : pc'[q] = IF q = r THEN "check" ELSE pc[q]
  BY <1>1, <1>2, Zenon DEF MigratorTyped
<1>4. LockOK'
  BY <1>1, <1>3, StartupAssumption DEF StartupIInv, LockOK, NeverLost
<1>5. BootOK'
  BY <1>1, <1>3, BootKept
<1>6. QED
  BY <1>1, <1>2, <1>4, <1>5, MoveKeeps DEF MigratorTyped

\* A replica gives the lock back after its migrations, its schema in place.
LEMMA UnlockKeeps ==
  ASSUME StartupIInv, NEW r \in Replicas, Unlock(r)
  PROVE  StartupIInv'
<1>1. /\ pc[r] = "unlock" /\ pc' = [pc EXCEPT ![r] = "configure"] /\ lock' = None
      /\ UNCHANGED <<applied, schema, unflagged, late, image, pending, done, flagged, lost, worker,
                     backfill, env, faults>>
  BY Zenon DEF Unlock, Goto, database, migrator, workers
<1>2. MigratorTyped /\ "configure" \in Phases
  BY AtReplica DEF Phases
<1>3. \A q \in Replicas : pc'[q] = IF q = r THEN "configure" ELSE pc[q]
  BY <1>1, <1>2, Zenon DEF MigratorTyped
<1>4. LockOK'
  <2>1. NeverLost' => NeverLost
    BY <1>1, Zenon DEF NeverLost
  <2>2. NeverLost => \A q \in Replicas : pc[q] \in {"check", "migrate", "unlock"} => q = r
    BY <1>1 DEF StartupIInv, LockOK
  <2>3. QED
    BY <1>3, <2>1, <2>2 DEF LockOK
<1>5. BootOK'
  <2>1. Top' = Top /\ image' = image /\ (Configures <=> Configures')
        /\ (ContractsResolve <=> ContractsResolve') /\ (ValidateNetwork <=> ValidateNetwork')
    BY <1>1, Zenon DEF Configures, Validate, ConfigService, NetworkConfigFound, ContractsResolve,
     VaultHubResolves, LazyOracleResolves, LidoResolves, VaultViewerResolves, ReadsLocator, RpcAnswers,
     LocatorKnows, AddressMap, ValidateNetwork, Top
  <2>2. BootOK
    BY DEF StartupIInv
  <2>3. QED
    BY <1>1, <1>3, <2>1, <2>2 DEF BootOK
<1>6. QED
  BY <1>1, <1>2, <1>4, <1>5, MoveKeeps

\* The modules of the application come up after the migrations.
LEMMA BootKeeps ==
  ASSUME StartupIInv, NEW r \in Replicas, Boot(r)
  PROVE  StartupIInv'
<1>1. /\ pc[r] \in DOMAIN AppModule /\ AppModule[pc[r]]
      /\ pc' = [pc EXCEPT ![r] = After(pc[r])] /\ lock' = lock
      /\ UNCHANGED <<applied, schema, unflagged, late, image, pending, done, flagged, lost, worker,
                     backfill, env, faults>>
  BY Zenon DEF Boot, Goto, database, migrator, workers
<1>2. pc[r] \in {"configure", "contracts", "init", "listen"}
  BY <1>1 DEF AppModule
<1>3. /\ pc[r] = "configure" => After(pc[r]) = "contracts" /\ Configures
      /\ pc[r] = "contracts" => After(pc[r]) = "init" /\ ContractsResolve
      /\ pc[r] = "init" => After(pc[r]) = "listen" /\ ValidateNetwork
      /\ pc[r] = "listen" => After(pc[r]) = "serving"
  <2>1. /\ pc[r] = "configure" => After(pc[r]) = "contracts"
        /\ pc[r] = "contracts" => After(pc[r]) = "init"
        /\ pc[r] = "init" => After(pc[r]) = "listen"
        /\ pc[r] = "listen" => After(pc[r]) = "serving"
    BY DEF After
  <2>2. /\ pc[r] = "configure" => Configures
        /\ pc[r] = "contracts" => ContractsResolve
        /\ pc[r] = "init" => ValidateNetwork
    <3>1. CASE pc[r] = "configure"
      <4>1. AppModule["configure"]
        BY <1>1, <3>1, Zenon
      <4>2. Configures
        BY <4>1, Zenon DEF AppModule
      <4>3. QED
        BY <3>1, <4>2
    <3>2. CASE pc[r] = "contracts"
      <4>1. AppModule["contracts"]
        BY <1>1, <3>2, Zenon
      <4>2. ContractsResolve
        BY <4>1, Zenon DEF AppModule
      <4>3. QED
        BY <3>2, <4>2
    <3>3. CASE pc[r] = "init"
      <4>1. AppModule["init"]
        BY <1>1, <3>3, Zenon
      <4>2. ValidateNetwork
        BY <4>1, Zenon DEF AppModule, OnModuleInit
      <4>3. QED
        BY <3>3, <4>2
    <3>4. QED
      BY <3>1, <3>2, <3>3, Zenon
  <2>3. QED
    BY <2>1, <2>2, Zenon
<1>4. MigratorTyped /\ After(pc[r]) \in Phases /\ After(pc[r]) # "migrate" /\ pc[r] # "migrate"
      /\ After(pc[r]) \in {"contracts", "init", "listen", "serving"}
  BY <1>2, <1>3, AtReplica DEF Phases
<1>5. \A q \in Replicas : pc'[q] = IF q = r THEN After(pc[r]) ELSE pc[q]
  BY <1>1, <1>4, Zenon DEF MigratorTyped
<1>6. LockOK'
  BY <1>1, <1>4, <1>5 DEF StartupIInv, LockOK, NeverLost
<1>7. BootOK'
  <2>1. Top' = Top /\ image' = image /\ (Configures <=> Configures')
        /\ (ContractsResolve <=> ContractsResolve') /\ (ValidateNetwork <=> ValidateNetwork')
    BY <1>1, Zenon DEF Configures, Validate, ConfigService, NetworkConfigFound, ContractsResolve,
     VaultHubResolves, LazyOracleResolves, LidoResolves, VaultViewerResolves, ReadsLocator, RpcAnswers,
     LocatorKnows, AddressMap, ValidateNetwork, Top
  <2>2. BootOK
    BY DEF StartupIInv
  <2>3. QED
    BY <1>2, <1>3, <1>5, <2>1, <2>2 DEF BootOK
<1>8. QED
  BY <1>1, <1>4, <1>6, <1>7, MoveKeeps DEF MigratorTyped

\* The steps that end a replica's process.
LEMMA FailureKeeps ==
  ASSUME StartupIInv, NEW r \in Replicas, UpFails(r) \/ UnlockFails(r) \/ BootFails(r) \/ Crash(r)
  PROVE  StartupIInv'
<1>1. /\ Exit(r) /\ UNCHANGED <<applied, schema, unflagged, late, image, worker, backfill, env>>
      /\ Fault \/ UNCHANGED faults
  BY Zenon DEF UpFails, UnlockFails, BootFails, Crash, database, workers
<1>2. OthersTyped
  BY AtReplica
<1>3. faults' \in 0..MaxFaults
  BY <1>1, <1>2, FaultCounted DEF OthersTyped
<1>4. OthersTyped'
  BY <1>1, <1>2, <1>3, Zenon DEF OthersTyped
<1>5. QED
  BY <1>1, <1>4, ExitKeeps

\* The database drops the lock with its connection; the replica goes on.
LEMMA LockConnectionLostKeeps ==
  ASSUME StartupIInv, NEW r \in Replicas, LockConnectionLost(r)
  PROVE  StartupIInv'
<1>1. /\ Fault /\ lock' = None /\ lost' = [lost EXCEPT ![r] = "now"]
      /\ UNCHANGED <<applied, schema, unflagged, late, pc, image, pending, done, flagged, worker,
                     backfill, env>>
  BY Zenon DEF LockConnectionLost, database, workers
<1>2. MigratorTyped /\ OthersTyped
  BY AtReplica
<1>3. faults' \in 0..MaxFaults
  BY <1>1, <1>2, FaultCounted DEF OthersTyped
<1>4. OthersTyped'
  BY <1>1, <1>2, <1>3, Zenon DEF OthersTyped
<1>5. MigratorTyped'
  BY <1>1, <1>2 DEF MigratorTyped
<1>6. ~NeverLost'
  <2>1. lost'[r] = "now"
    BY <1>1, <1>2 DEF MigratorTyped
  <2>2. QED
    BY <2>1 DEF NeverLost
<1>7. LockOK'
  BY <1>6 DEF LockOK
<1>8. BootOK'
  BY <1>1, BootKept
<1>9. \A q \in Replicas :
        \/ /\ pc'[q] = "migrate" /\ pc[q] = "migrate" /\ done'[q] = done[q]
           /\ pending'[q] = pending[q] /\ image'[q] = image[q] /\ flagged'[q] = flagged[q]
        \/ pc'[q] # "migrate" /\ done'[q] = << >> /\ flagged'[q] = {}
  BY <1>1, Zenon DEF StartupIInv, OpenOK
<1>10. QED
  BY <1>1, <1>4, <1>5, <1>6, <1>7, <1>8, <1>9, QuietStep

-----------------------------------------------------------------------------
\* The migrator: a replica finds out what is missing.
LEMMA LoadExecutedKeeps ==
  ASSUME StartupIInv, NEW r \in Replicas, LoadExecuted(r)
  PROVE  StartupIInv'
<1>1. /\ pc[r] = "check" /\ pc' = [pc EXCEPT ![r] = "migrate"]
      /\ pending' = [pending EXCEPT ![r] = PendingOf(r)]
      /\ UNCHANGED <<applied, schema, unflagged, late, lock, image, done, flagged, lost, worker,
                     backfill, env, faults>>
  BY Zenon DEF LoadExecuted, Goto, database, workers
<1>2. /\ MigratorTyped /\ DatabaseTyped /\ OthersTyped
      /\ image[r] \in 1..12 /\ Newest = 12 /\ Top \in 0..12
  BY AtReplica
<1>3. PICK k \in 0..12 :
        k <= image[r] /\ k <= Top /\ PendingOf(r) = Span(k, image[r]) /\ (k = Top \/ k = image[r])
  <2>1. /\ First(r) \in 0..12 /\ First(r) <= image[r] /\ First(r) <= Top
        /\ PendingOf(r) = Span(First(r), image[r])
    BY <1>2, PendingIs DEF StartupIInv
  <2>2. First(r) = Top \/ First(r) = image[r]
    BY DEF First
  <2>3. QED
    BY <2>1, <2>2, Zenon
<1>5. Span(k, image[r]) \in Seq(1..Newest)
  <2>1. k \in Nat /\ image[r] \in Nat /\ k <= image[r] /\ Newest \in Nat /\ image[r] <= Newest
    BY <1>2, <1>3
  <2>2. QED
    BY <2>1, SpanTyped, Zenon
<1>6. /\ \A q \in Replicas : pc'[q] = IF q = r THEN "migrate" ELSE pc[q]
      /\ \A q \in Replicas : pending'[q] = IF q = r THEN Span(k, image[r]) ELSE pending[q]
  BY <1>1, <1>2, <1>3, Zenon DEF MigratorTyped
<1>7. TypeOK'
  <2>1. "migrate" \in Phases
    BY DEF Phases
  <2>2. MigratorTyped'
    BY <1>1, <1>2, <1>3, <1>5, <2>1, Zenon DEF MigratorTyped
  <2>3. DatabaseTyped' /\ OthersTyped'
    BY <1>1, <1>2, Zenon DEF DatabaseTyped, OthersTyped
  <2>4. QED
    BY <2>2, <2>3, StartupTypesNext, Zenon
<1>8. Top' = Top /\ (NeverLost' <=> NeverLost)
  BY <1>1, Zenon DEF Top, NeverLost
<1>9. AppliedInOrderOnce' /\ TableOK'
  BY <1>1, Zenon DEF StartupIInv, AppliedInOrderOnce, TableOK
<1>10. done[r] = << >> /\ flagged[r] = {}
  BY <1>1 DEF StartupIInv, OpenOK
<1>11. ProgressOK'
  <2> SUFFICES ASSUME NEW q \in Replicas, pc'[q] = "migrate"
               PROVE  \E a, b \in 0..Newest : Progress(q, a, b)'
    BY Zenon DEF ProgressOK
  <2>1. CASE q = r
    <3>1. done'[r] = Span(k, k) /\ pending'[r] = Span(k, image'[r])
      BY <1>1, <1>3, <1>6, <1>10, SpanEmpty
    <3>2. k <= k /\ ~(k < k) /\ k \in 0..Newest
      BY <1>2, <1>3
    <3>3. k <= image'[r] /\ k <= Top' /\ (k = Top' \/ k = image'[r])
      BY <1>1, <1>3, <1>8, Zenon
    <3>4. Progress(r, k, k)'
      BY <3>1, <3>2, <3>3, Zenon DEF Progress
    <3>5. QED
      BY <2>1, <3>2, <3>4, Zenon
  <2>2. CASE q # r
    <3>1. pc[q] = "migrate" /\ pending'[q] = pending[q] /\ done'[q] = done[q] /\ image'[q] = image[q]
      BY <1>1, <1>6, <2>2, Zenon
    <3>2. PICK a \in 0..Newest, b \in 0..Newest : Progress(q, a, b)
      BY <3>1, Zenon DEF StartupIInv, ProgressOK
    <3>3. Progress(q, a, b)'
      BY <1>8, <3>1, <3>2, Zenon DEF Progress
    <3>4. QED
      BY <3>3, Zenon
  <2>3. QED
    BY <2>1, <2>2
<1>12. OpenOK'
  BY <1>1, <1>6, Zenon DEF StartupIInv, OpenOK
<1>13. LockOK'
  BY <1>1, <1>6, <1>8 DEF StartupIInv, LockOK
<1>14. BootOK'
  BY <1>1, <1>6, BootKept
<1>15. FlagsOK'
  BY <1>1, <1>8, Zenon DEF StartupIInv, FlagsOK
<1>16. QED
  BY <1>7, <1>9, <1>11, <1>12, <1>13, <1>14, <1>15, Zenon DEF StartupIInv

\* One migration: its statements fail unless nobody else has executed it.
LEMMA UpKeeps ==
  ASSUME StartupIInv, NEW r \in Replicas, Up(r)
  PROVE  StartupIInv'
<1>1. PICK a \in 0..Newest, b \in 0..Newest : Progress(r, a, b)
  BY Zenon DEF Up, StartupIInv, ProgressOK
<1>2. /\ MigratorTyped /\ DatabaseTyped /\ OthersTyped
      /\ image[r] \in 1..12 /\ Newest = 12 /\ Top \in 0..12
  BY AtReplica
<1>3. /\ a <= b /\ b <= image[r] /\ a <= Top
      /\ done[r] = Span(a, b) /\ pending[r] = Span(b, image[r])
      /\ a < b => Top = a \/ (a + 1 = Newest /\ Top = Newest)
      /\ NeverLost => a \in {Top, image[r]}
  BY <1>1, Zenon DEF Progress
<1>4. b < image[r]
  <2>1. pending[r] # << >>
    BY Zenon DEF Up
  <2>2. b # image[r]
    BY <1>2, <1>3, <2>1, SpanEmpty
  <2>3. QED
    BY <1>2, <1>3, <2>2
<1> DEFINE m == b + 1
<1>5. a \in 0..12 /\ b \in 0..12 /\ m \in 1..12 /\ m <= image[r]
  BY <1>2, <1>3, <1>4
<1>6. Head(pending[r]) = m /\ Tail(pending[r]) = Span(m, image[r])
  <2>1. b \in Nat /\ image[r] \in Nat /\ b < image[r]
    BY <1>2, <1>4, <1>5
  <2>2. QED
    BY <1>3, <2>1, SpanNext, Zenon
<1>7. Append(done[r], m) = Span(a, m)
  <2>1. a \in Nat /\ b \in Nat /\ a <= b
    BY <1>3, <1>5
  <2>2. QED
    BY <1>3, <2>1, SpanAppend, Zenon
<1> DEFINE f == IF Migrations[m].data THEN unflagged ELSE flagged[r]
<1>8. /\ pc[r] = "migrate" /\ ~Blocked(r, m) /\ Migrations[m].adds \cap Sees(r) = {}
      /\ pending' = [pending EXCEPT ![r] = Span(m, image[r])]
      /\ done' = [done EXCEPT ![r] = Span(a, m)]
      /\ flagged' = [flagged EXCEPT ![r] = f]
      /\ UNCHANGED <<applied, schema, unflagged, late, lock, pc, image, lost, worker, backfill, env, faults>>
  <2>1. /\ pc[r] = "migrate" /\ ~Blocked(r, Head(pending[r]))
        /\ Migrations[Head(pending[r])].adds \cap Sees(r) = {}
        /\ pending' = [pending EXCEPT ![r] = Tail(pending[r])]
        /\ done' = [done EXCEPT ![r] = Append(done[r], Head(pending[r]))]
        /\ flagged' = [flagged EXCEPT ![r] = IF Migrations[Head(pending[r])].data THEN unflagged ELSE flagged[r]]
        /\ UNCHANGED <<applied, schema, unflagged, late, lock, pc, image, lost, worker, backfill, env, faults>>
    BY Zenon DEF Up, database, workers
  <2>2. QED
    BY <1>6, <1>7, <2>1, Zenon
<1>9. (Migrations[m].data <=> m = 12) /\ (m # 12 => Migrations[m].adds # {})
  <2>1. m \in 1..11 \/ m = 12
    BY <1>5
  <2>2. QED
    BY <2>1, MigrationFacts
<1>10. /\ Span(m, image[r]) \in Seq(1..Newest)
       /\ Span(a, b) \in Seq(1..Newest) /\ DOMAIN Span(a, b) = 1..(b - a)
       /\ \A i \in 1..(b - a) : Span(a, b)[i] = a + i
  <2>1. a \in Nat /\ b \in Nat /\ a <= b /\ Newest \in Nat /\ b <= Newest
    BY <1>2, <1>3, <1>5
  <2>2. m \in Nat /\ image[r] \in Nat /\ m <= image[r] /\ image[r] <= Newest
    BY <1>2, <1>3, <1>5
  <2>3. Span(m, image[r]) \in Seq(1..Newest)
    BY <2>1, <2>2, SpanTyped, Zenon
  <2>4. QED
    BY <2>1, <2>3, SpanTyped, Zenon
<1>11. /\ Span(a, m) \in Seq(1..Newest) /\ DOMAIN Span(a, m) = 1..(m - a)
       /\ \A i \in 1..(m - a) : Span(a, m)[i] = a + i
  <2>1. a \in Nat /\ m \in Nat /\ a <= m /\ Newest \in Nat /\ m <= Newest
    BY <1>2, <1>3, <1>5
  <2>2. QED
    BY <2>1, SpanTyped
<1> HIDE DEF m, f
\* The entries of the open transaction are the old ones and m.
<1>12. \A i \in DOMAIN Span(a, m) :
         Span(a, m)[i] = m \/ (i \in DOMAIN Span(a, b) /\ Span(a, m)[i] = Span(a, b)[i])
  <2> TAKE i \in DOMAIN Span(a, m)
  <2>1. i \in 1..(m - a) /\ Span(a, m)[i] = a + i
    BY <1>11
  <2>2. i \in 1..(b - a) \/ a + i = m
    BY <1>3, <1>5, <2>1 DEF m
  <2>3. QED
    BY <1>10, <2>1, <2>2
<1>13. f \in SUBSET Rows
  BY <1>2, Zenon DEF f, DatabaseTyped, MigratorTyped
<1>14. /\ \A q \in Replicas : done'[q] = IF q = r THEN Span(a, m) ELSE done[q]
       /\ \A q \in Replicas : pending'[q] = IF q = r THEN Span(m, image[r]) ELSE pending[q]
       /\ \A q \in Replicas : flagged'[q] = IF q = r THEN f ELSE flagged[q]
  BY <1>2, <1>8, Zenon DEF MigratorTyped
<1>15. TypeOK'
  <2>1. MigratorTyped'
    BY <1>2, <1>8, <1>10, <1>11, <1>13, Zenon DEF MigratorTyped
  <2>2. DatabaseTyped' /\ OthersTyped'
    BY <1>2, <1>8, Zenon DEF DatabaseTyped, OthersTyped
  <2>3. QED
    BY <2>1, <2>2, StartupTypesNext, Zenon
<1>16. Top' = Top /\ (NeverLost' <=> NeverLost)
  BY <1>8, Zenon DEF Top, NeverLost
<1>17. AppliedInOrderOnce' /\ TableOK'
  BY <1>8, Zenon DEF StartupIInv, AppliedInOrderOnce, TableOK
<1>18. Top = a \/ (a + 1 = Newest /\ Top = Newest)
  <2>1. CASE a < b
    BY <1>3, <2>1
  <2>2. CASE a = b /\ m = 12
    BY <1>2, <1>3, <1>5, <2>2 DEF m
  <2>3. CASE a = b /\ m # 12
    <3>1. schema = AddedUpTo(Top)
      BY SchemaIs DEF StartupIInv
    <3>2. ~(m <= Top)
      <4> SUFFICES ASSUME m <= Top PROVE FALSE
        OBVIOUS
      <4>1. Migrations[m].adds \subseteq AddedUpTo(Top)
        BY <1>2, <1>5 DEF AddedUpTo
      <4>2. Migrations[m].adds # {} /\ Migrations[m].adds \cap schema = {}
        BY <1>8, <1>9, <2>3, Zenon DEF Sees
      <4>3. QED
        BY <3>1, <4>1, <4>2
    <3>3. QED
      BY <1>2, <1>3, <1>5, <2>3, <3>2 DEF m
  <2>4. QED
    BY <1>3, <1>5, <2>1, <2>2, <2>3
<1>19. ProgressOK'
  <2> SUFFICES ASSUME NEW q \in Replicas, pc'[q] = "migrate"
               PROVE  \E c, d \in 0..Newest : Progress(q, c, d)'
    BY Zenon DEF ProgressOK
  <2>1. CASE q = r
    <3>1. a <= m /\ m \in 0..Newest
      BY <1>2, <1>3, <1>5 DEF m
    <3>2. done'[r] = Span(a, m) /\ pending'[r] = Span(m, image'[r]) /\ image'[r] = image[r]
      BY <1>8, <1>14, Zenon
    <3>3. Progress(r, a, m)'
      BY <1>3, <1>5, <1>16, <1>18, <3>1, <3>2, Zenon DEF Progress, m
    <3>4. QED
      BY <2>1, <3>1, <3>3, Zenon
  <2>2. CASE q # r
    <3>1. pc[q] = "migrate" /\ pending'[q] = pending[q] /\ done'[q] = done[q] /\ image'[q] = image[q]
      BY <1>8, <1>14, <2>2, Zenon
    <3>2. PICK c \in 0..Newest, d \in 0..Newest : Progress(q, c, d)
      BY <3>1, Zenon DEF StartupIInv, ProgressOK
    <3>3. Progress(q, c, d)'
      BY <1>16, <3>1, <3>2, Zenon DEF Progress
    <3>4. QED
      BY <3>3, Zenon
  <2>3. QED
    BY <2>1, <2>2
<1>20. OpenOK'
  <2>1. \A q \in Replicas : pc'[q] # "migrate" => done'[q] = << >> /\ flagged'[q] = {}
    BY <1>8, <1>14, Zenon DEF StartupIInv, OpenOK
  <2>2. ASSUME NEW q \in Replicas, q # r, NEW i \in DOMAIN done'[r], NEW j \in DOMAIN done'[q],
               done'[r][i] = done'[q][j], done'[r][i] < Newest
        PROVE  FALSE
    <3>1. done'[r] = Span(a, m) /\ done'[q] = done[q]
      BY <1>14, <2>2, Zenon
    <3>2. CASE Span(a, m)[i] = m
      <4>1. done[q][j] = m /\ m # 12
        BY <1>2, <1>5, <2>2, <3>1, <3>2
      <4>2. ~Migrations[m].data
        BY <1>9, <4>1
      <4>3. QED
        BY <1>8, <2>2, <3>1, <4>1, <4>2, Zenon DEF Blocked
    <3>3. CASE i \in DOMAIN Span(a, b) /\ Span(a, m)[i] = Span(a, b)[i]
      BY <1>3, <2>2, <3>1, <3>3, Zenon DEF StartupIInv, OpenOK
    <3>4. QED
      BY <1>12, <3>1, <3>2, <3>3
  <2>3. ASSUME NEW p \in Replicas, NEW q \in Replicas, NEW i \in DOMAIN done'[p], NEW j \in DOMAIN done'[q],
               done'[p][i] = done'[q][j], done'[p][i] < Newest
        PROVE  p = q
    <3>1. CASE p = r
      BY <2>2, <2>3, <3>1, Zenon
    <3>2. CASE q = r
      <4>1. done'[q][j] < Newest
        BY <2>3
      <4>2. QED
        BY <2>2, <2>3, <3>2, <4>1, Zenon
    <3>3. CASE p # r /\ q # r
      BY <1>14, <2>3, <3>3, Zenon DEF StartupIInv, OpenOK
    <3>4. QED
      BY <3>1, <3>2, <3>3
  <2>4. QED
    BY <2>1, <2>3, Zenon DEF OpenOK
<1>21. LockOK'
  BY <1>8, <1>16, Zenon DEF StartupIInv, LockOK
<1>22. BootOK'
  BY <1>8, BootKept
<1>23. FlagsOK'
  <2>1. ASSUME NEW q \in Replicas, NEW i \in DOMAIN done'[q], done'[q][i] = Newest
        PROVE  unflagged \ flagged'[q] \subseteq late
    <3>1. CASE q # r
      BY <1>14, <2>1, <3>1, Zenon DEF StartupIInv, FlagsOK
    <3>2. CASE q = r /\ m = 12
      BY <1>9, <1>14, <3>2 DEF f
    <3>3. CASE q = r /\ m # 12
      <4>1. flagged'[r] = flagged[r] /\ done'[r] = Span(a, m)
        BY <1>9, <1>14, <3>3, Zenon DEF f
      <4>2. i \in DOMAIN done[r] /\ done[r][i] = Newest
        BY <1>2, <1>3, <1>12, <2>1, <3>3, <4>1
      <4>3. QED
        BY <3>3, <4>1, <4>2, Zenon DEF StartupIInv, FlagsOK
    <3>4. QED
      BY <3>1, <3>2, <3>3
  <2>2. unflagged' = unflagged /\ late' = late
    BY <1>8
  <2>3. QED
    BY <1>16, <2>1, <2>2, Zenon DEF StartupIInv, FlagsOK
<1>24. QED
  BY <1>15, <1>17, <1>19, <1>20, <1>21, <1>22, <1>23, Zenon DEF StartupIInv

\* The commit: nobody else has committed what this replica commits, but for the UPDATE.
LEMMA CommitKeeps ==
  ASSUME StartupIInv, NEW r \in Replicas, CommitMigrations(r)
  PROVE  StartupIInv'
<1>1. /\ pc[r] = "migrate" /\ pending[r] = << >> /\ applied' = applied \o done[r]
      /\ schema' = Sees(r) /\ unflagged' = unflagged \ flagged[r]
      /\ done' = [done EXCEPT ![r] = << >>] /\ flagged' = [flagged EXCEPT ![r] = {}]
      /\ pc' = [pc EXCEPT ![r] = "unlock"]
      /\ UNCHANGED <<late, lock, image, pending, lost, worker, backfill, env, faults>>
  BY Zenon DEF CommitMigrations, Goto, workers
<1>2. PICK a \in 0..Newest, b \in 0..Newest : Progress(r, a, b)
  BY <1>1, Zenon DEF StartupIInv, ProgressOK
<1>3. /\ MigratorTyped /\ DatabaseTyped /\ OthersTyped
      /\ image[r] \in 1..12 /\ Newest = 12 /\ Top \in 0..12
  BY AtReplica
<1>4. /\ a <= b /\ b <= image[r] /\ a <= Top
      /\ done[r] = Span(a, b) /\ pending[r] = Span(b, image[r])
      /\ a < b => Top = a \/ (a + 1 = Newest /\ Top = Newest)
  BY <1>2, Zenon DEF Progress
<1>5. a \in 0..12 /\ b \in 0..12 /\ b = image[r]
  <2>1. a \in 0..12 /\ b \in 0..12
    BY <1>3
  <2>2. b \in Nat /\ image[r] \in Nat /\ b <= image[r] /\ Span(b, image[r]) = << >>
    BY <1>1, <1>3, <1>4, <2>1
  <2>3. b = image[r]
    BY <2>2, SpanIsEmpty, Zenon
  <2>4. QED
    BY <2>1, <2>3
<1>6. /\ applied' \in Seq(1..12) /\ NamesAll(applied') /\ InOrder(applied')
      /\ TopOf(applied') = IF a < b THEN b ELSE Top
      /\ AddedBy(applied') = AddedBy(applied) \cup AddedBy(done[r])
  <2>1. applied \in Seq(1..12) /\ NamesAll(applied) /\ InOrder(applied)
    BY <1>3, Zenon DEF StartupIInv, DatabaseTyped, TableOK, AppliedInOrderOnce, InOrder
  <2>2. a < b => TopOf(applied) = a \/ (a = 11 /\ TopOf(applied) = 12)
    BY <1>3, <1>4, <1>5 DEF Top
  <2>3. applied' = applied \o Span(a, b)
    BY <1>1, <1>4, Zenon
  <2>4. a <= b /\ a \in 0..12 /\ b \in 0..12
    BY <1>4, <1>5
  <2>5. /\ applied' \in Seq(1..12) /\ NamesAll(applied') /\ InOrder(applied')
        /\ TopOf(applied') = IF a < b THEN b ELSE TopOf(applied)
        /\ AddedBy(applied') = AddedBy(applied) \cup AddedBy(Span(a, b))
    <3>1. Extended(applied, a, b, applied')
      BY <2>1, <2>2, <2>3, <2>4, Zenon DEF Extended
    <3>2. QED
      BY <3>1, TableGrows
  <2>6. QED
    BY <1>4, <2>5, Zenon DEF Top
<1>7. Top' = (IF a < b THEN b ELSE Top) /\ Top' \in 0..12 /\ Top <= Top' /\ image[r] <= Top'
  <2>1. Top' = IF a < b THEN b ELSE Top
    BY <1>6, Zenon DEF Top
  <2>2. QED
    BY <1>3, <1>4, <1>5, <2>1
<1>8. /\ \A q \in Replicas : done'[q] = IF q = r THEN << >> ELSE done[q]
      /\ \A q \in Replicas : flagged'[q] = IF q = r THEN {} ELSE flagged[q]
      /\ \A q \in Replicas : pc'[q] = IF q = r THEN "unlock" ELSE pc[q]
  BY <1>1, <1>3, Zenon DEF MigratorTyped
<1>9. TypeOK'
  <2>1. "unlock" \in Phases /\ << >> \in Seq(1..Newest) /\ {} \in SUBSET Rows
    BY DEF Phases
  <2>2. MigratorTyped'
    BY <1>1, <1>3, <2>1, Zenon DEF MigratorTyped
  <2>3. DatabaseTyped'
    <3>1. applied' \in Seq(1..Newest) /\ schema' = AddedBy(applied')
      BY <1>1, <1>3, <1>6, Zenon DEF DatabaseTyped, Sees
    <3>2. unflagged' \subseteq Rows /\ late' \subseteq Rows
      BY <1>1, <1>3, Zenon DEF DatabaseTyped
    <3>3. QED
      BY <3>1, <3>2, Zenon DEF DatabaseTyped, AddedBy
  <2>4. OthersTyped'
    BY <1>1, <1>3, Zenon DEF OthersTyped
  <2>5. QED
    BY <2>2, <2>3, <2>4, StartupTypesNext, Zenon
<1>10. AppliedInOrderOnce' /\ TableOK'
  BY <1>6, Zenon DEF AppliedInOrderOnce, InOrder, TableOK, NamesAll, TopOf
<1>11. NeverLost' <=> NeverLost
  BY <1>1, Zenon DEF NeverLost
<1>12. ASSUME NEW q \in Replicas, q # r, NEW c \in 0..Newest, NEW d \in 0..Newest, pc[q] = "migrate",
              Progress(q, c, d)
       PROVE  c < d => Top' = c \/ (c + 1 = Newest /\ Top' = Newest)
  <2> HAVE c < d
  <2>1. done[q] = Span(c, d) /\ (Top = c \/ (c + 1 = Newest /\ Top = Newest)) /\ d <= image[q]
    BY <1>12, Zenon DEF Progress
  <2>2. CASE a = b
    BY <1>7, <2>1, <2>2
  <2>3. CASE a < b
    <3>1. (Top = a \/ (a = 11 /\ Top = 12)) /\ Top' = b
      BY <1>3, <1>4, <1>7, <2>3
    <3>2. c \in 0..12 /\ d \in 0..12
      BY <1>3
    <3>3. CASE a = c
      <4>1. /\ DOMAIN Span(a, b) = 1..(b - a) /\ \A i \in 1..(b - a) : Span(a, b)[i] = a + i
        <5>1. a \in Nat /\ b \in Nat /\ a <= b /\ 12 \in Nat /\ b <= 12
          BY <1>4, <1>5
        <5>2. QED
          BY <5>1, SpanTyped, Zenon
      <4>2. /\ DOMAIN Span(c, d) = 1..(d - c) /\ \A i \in 1..(d - c) : Span(c, d)[i] = c + i
        <5>1. c \in Nat /\ d \in Nat /\ c <= d /\ 12 \in Nat /\ d <= 12
          BY <3>2
        <5>2. QED
          BY <5>1, SpanTyped, Zenon
      <4>3. 1 \in 1..(b - a) /\ 1 \in 1..(d - c)
        BY <1>5, <2>3, <3>2
      <4>4. 1 \in DOMAIN done[r] /\ 1 \in DOMAIN done[q] /\ done[r][1] = a + 1 /\ done[q][1] = a + 1
        BY <1>4, <2>1, <3>3, <4>1, <4>2, <4>3
      <4>5. ~(a + 1 < Newest)
        BY <1>12, <4>4, Zenon DEF StartupIInv, OpenOK
      <4>6. QED
        BY <1>3, <1>5, <2>3, <3>1, <3>3, <4>5
    <3>4. CASE a # c
      BY <1>3, <1>4, <1>5, <2>1, <2>3, <3>1, <3>2, <3>4
    <3>5. QED
      BY <3>3, <3>4
  <2>4. QED
    BY <1>4, <1>5, <2>2, <2>3
<1>13. ProgressOK'
  <2> SUFFICES ASSUME NEW q \in Replicas, pc'[q] = "migrate"
               PROVE  \E c, d \in 0..Newest : Progress(q, c, d)'
    BY Zenon DEF ProgressOK
  <2>1. q # r /\ pc[q] = "migrate" /\ pending'[q] = pending[q] /\ done'[q] = done[q] /\ image'[q] = image[q]
    BY <1>1, <1>8
  <2>2. PICK c \in 0..Newest, d \in 0..Newest : Progress(q, c, d)
    BY <2>1, Zenon DEF StartupIInv, ProgressOK
  <2>3. c < d => Top' = c \/ (c + 1 = Newest /\ Top' = Newest)
    BY <1>12, <2>1, <2>2
  <2>4. ~NeverLost
    BY <1>1, <2>1 DEF StartupIInv, LockOK
  <2>5. c <= Top'
    <3>1. c <= Top
      BY <2>2, Zenon DEF Progress
    <3>2. QED
      BY <1>3, <1>7, <3>1
  <2>6. Progress(q, c, d)'
    BY <1>11, <2>1, <2>2, <2>3, <2>4, <2>5, Zenon DEF Progress
  <2>7. QED
    BY <2>6, Zenon
<1>14. OpenOK'
  <2>1. \A q \in Replicas : done'[q] = done[q] \/ DOMAIN done'[q] = {}
    <3>1. DOMAIN << >> = {}
      OBVIOUS
    <3>2. QED
      BY <1>8, <3>1
  <2>2. \A p, q \in Replicas : \A i \in DOMAIN done'[p], j \in DOMAIN done'[q] :
          done'[p][i] = done'[q][j] /\ done'[p][i] < Newest => p = q
    BY <2>1, Zenon DEF StartupIInv, OpenOK
  <2>3. \A q \in Replicas : pc'[q] # "migrate" => done'[q] = << >> /\ flagged'[q] = {}
    BY <1>8, Zenon DEF StartupIInv, OpenOK
  <2>4. QED
    BY <2>2, <2>3, Zenon DEF OpenOK
<1>15. LockOK'
  BY <1>1, <1>8, <1>11 DEF StartupIInv, LockOK
<1>16. BootOK'
  <2>1. image' = image /\ (Configures <=> Configures')
        /\ (ContractsResolve <=> ContractsResolve') /\ (ValidateNetwork <=> ValidateNetwork')
    BY <1>1, Zenon DEF Configures, Validate, ConfigService, NetworkConfigFound, ContractsResolve,
     VaultHubResolves, LazyOracleResolves, LidoResolves, VaultViewerResolves, ReadsLocator, RpcAnswers,
     LocatorKnows, AddressMap, ValidateNetwork
  <2>2. BootOK
    BY DEF StartupIInv
  <2>3. ASSUME NEW q \in Replicas, image[q] <= Top
        PROVE  image[q] <= Top'
    BY <1>3, <1>7, <2>3, AtReplica
  <2>4. QED
    BY <1>7, <1>8, <2>1, <2>2, <2>3 DEF BootOK
<1>17. FlagsOK'
  <2>1. \A q \in Replicas :
          (\E i \in DOMAIN done'[q] : done'[q][i] = Newest) => unflagged' \ flagged'[q] \subseteq late'
    <3> SUFFICES ASSUME NEW q \in Replicas, NEW i \in DOMAIN done'[q], done'[q][i] = Newest
                 PROVE  unflagged' \ flagged'[q] \subseteq late'
      BY Zenon
    <3>1. q # r /\ done'[q] = done[q] /\ flagged'[q] = flagged[q]
      BY <1>8
    <3>2. unflagged \ flagged[q] \subseteq late
      BY <3>1, Zenon DEF StartupIInv, FlagsOK
    <3>3. QED
      BY <1>1, <3>1, <3>2
  <2>2. ASSUME Top' = Newest
        PROVE  unflagged' \subseteq late'
    <3>1. CASE a = b
      BY <1>1, <1>7, <2>2, <3>1 DEF StartupIInv, FlagsOK
    <3>2. CASE a < b
      <4>1. b = Newest
        BY <1>7, <2>2, <3>2
      <4>2. /\ DOMAIN Span(a, b) = 1..(b - a) /\ \A i \in 1..(b - a) : Span(a, b)[i] = a + i
        <5>1. a \in Nat /\ b \in Nat /\ a <= b /\ 12 \in Nat /\ b <= 12
          BY <1>4, <1>5
        <5>2. QED
          BY <5>1, SpanTyped, Zenon
      <4>3. b - a \in 1..(b - a) /\ a + (b - a) = b
        BY <1>5, <3>2
      <4>4. b - a \in DOMAIN done[r] /\ done[r][b - a] = Newest
        BY <1>4, <4>1, <4>2, <4>3
      <4>5. unflagged \ flagged[r] \subseteq late
        BY <4>4, Zenon DEF StartupIInv, FlagsOK
      <4>6. QED
        BY <1>1, <4>5
    <3>3. QED
      BY <1>4, <1>5, <3>1, <3>2
  <2>3. QED
    BY <2>1, <2>2, Zenon DEF FlagsOK
<1>18. QED
  BY <1>9, <1>10, <1>13, <1>14, <1>15, <1>16, <1>17, Zenon DEF StartupIInv

-----------------------------------------------------------------------------
\* The worker and the orchestrator.
LEMMA WorkerKeeps ==
  ASSUME StartupIInv, OthersTyped',
         UNCHANGED <<applied, schema, unflagged, late, lock, pc, pending, done, flagged, lost, env>>,
         \A q \in Replicas : image'[q] = image[q]
  PROVE  StartupIInv'
<1>1. MigratorTyped'
  BY StartupTypes, Zenon DEF StartupIInv, MigratorTyped
<1>2. NeverLost' <=> NeverLost
  BY Zenon DEF NeverLost
<1>3. LockOK'
  BY <1>2, Zenon DEF StartupIInv, LockOK
<1>4. BootOK'
  BY BootKept
<1>5. \A q \in Replicas :
        \/ /\ pc'[q] = "migrate" /\ pc[q] = "migrate" /\ done'[q] = done[q]
           /\ pending'[q] = pending[q] /\ image'[q] = image[q] /\ flagged'[q] = flagged[q]
        \/ pc'[q] # "migrate" /\ done'[q] = << >> /\ flagged'[q] = {}
  BY Zenon DEF StartupIInv, OpenOK
<1>6. QED
  BY <1>1, <1>2, <1>3, <1>4, <1>5, QuietStep

\* The worker starts, flags rows or dies, and leaves migrations alone.
LEMMA WorkerStepsKeep ==
  ASSUME StartupIInv, WorkerStart \/ BackfillVaultOwnership \/ WorkerDies
  PROVE  StartupIInv'
<1>1. /\ UNCHANGED <<applied, schema, unflagged, late, lock, pc, pending, done, flagged, lost, env, image>>
      /\ Fault \/ UNCHANGED faults
      /\ worker' \in {"down", "running", worker} /\ backfill' \in BOOLEAN
  <2>1. CASE WorkerStart
    BY <2>1, Zenon DEF WorkerStart, database, migrator
  <2>2. CASE BackfillVaultOwnership
    <3>1. (backfill \/ VaultEntity \subseteq schema) \in BOOLEAN
      BY Zenon
    <3>2. QED
      BY <2>2, <3>1, Zenon DEF BackfillVaultOwnership, database, migrator
  <2>3. CASE WorkerDies
    BY <2>3, Zenon DEF WorkerDies, database, migrator
  <2>4. QED
    BY <2>1, <2>2, <2>3
<1>2. OthersTyped
  BY StartupTypes, Zenon DEF StartupIInv
<1>3. faults' \in 0..MaxFaults
  BY <1>1, <1>2, FaultCounted DEF OthersTyped
<1>4. worker' \in {"down", "running"}
  BY <1>1, <1>2 DEF OthersTyped
<1>5. OthersTyped'
  BY <1>1, <1>2, <1>3, <1>4, Zenon DEF OthersTyped
<1>6. QED
  BY <1>1, <1>5, WorkerKeeps

\* The row an old worker stores after the UPDATE is late.
LEMMA StoreMetricsKeeps ==
  ASSUME StartupIInv, StoreMetrics
  PROVE  StartupIInv'
<1>1. UNCHANGED <<applied, schema, lock, pc, image, pending, done, flagged, lost, worker, backfill, env, faults>>
  BY Zenon DEF StoreMetrics, migrator, workers
<1>2. MigratorTyped /\ DatabaseTyped /\ OthersTyped /\ Newest = 12
  BY StartupTypes, MigrationFacts, Zenon DEF StartupIInv
<1>3. CASE UNCHANGED <<unflagged, late>>
  <2>1. OthersTyped'
    BY <1>1, <1>2, Zenon DEF OthersTyped
  <2>2. QED
    BY <1>1, <1>3, <2>1, WorkerKeeps
<1>4. CASE MissesAnomaly /\ \E row \in Rows \ (unflagged \cup late) :
             /\ unflagged' = unflagged \cup {row}
             /\ late' = IF UpdateHasRun /\ image[Worker] = OldImage THEN late \cup {row} ELSE late
  <2>1. PICK row \in Rows : /\ unflagged' = unflagged \cup {row}
                            /\ late' = IF UpdateHasRun /\ image[Worker] = OldImage THEN late \cup {row} ELSE late
    BY <1>4, Zenon
  <2>2. image[Worker] = OldImage
    <3>1. image[Worker] \in {OldImage, Newest}
      BY <1>2, Zenon DEF OthersTyped
    <3>2. image[Worker] < Newest
      BY <1>4, Zenon DEF MissesAnomaly
    <3>3. QED
      BY <1>2, <3>1, <3>2
  <2>3. late \subseteq late' /\ (UpdateHasRun => row \in late')
    BY <2>1, <2>2
  <2>4. TypeOK'
    <3>1. MigratorTyped' /\ OthersTyped'
      BY <1>1, <1>2, Zenon DEF MigratorTyped, OthersTyped
    <3>2. unflagged' \subseteq Rows /\ late' \subseteq Rows
      BY <1>2, <2>1, Zenon DEF DatabaseTyped
    <3>3. DatabaseTyped'
      BY <1>1, <1>2, <3>2, Zenon DEF DatabaseTyped
    <3>4. QED
      BY <3>1, <3>3, StartupTypesNext, Zenon
  <2>5. Top' = Top /\ (NeverLost' <=> NeverLost)
    BY <1>1, Zenon DEF Top, NeverLost
  <2>6. AppliedInOrderOnce' /\ TableOK'
    BY <1>1, Zenon DEF StartupIInv, AppliedInOrderOnce, TableOK
  <2>7. ProgressOK'
    BY <1>1, <2>5, Zenon DEF StartupIInv, ProgressOK, Progress
  <2>8. OpenOK' /\ LockOK'
    BY <1>1, <2>5, Zenon DEF StartupIInv, OpenOK, LockOK
  <2>9. BootOK'
    BY <1>1, BootKept
  <2>10. Top = Newest => UpdateHasRun
    <3> HAVE Top = Newest
    <3>1. \E i \in DOMAIN applied : applied[i] = 12
      <4>1. Top = 12 /\ \A m \in 1..12 : m <= Top => \E i \in DOMAIN applied : applied[i] = m
        BY <1>2, Zenon DEF StartupIInv, TableOK, NamesAll, Top
      <4>2. 12 \in 1..12 /\ 12 <= 12
        OBVIOUS
      <4>3. QED
        BY <4>1, <4>2, Zenon
    <3>2. QED
      BY <3>1, MigrationFacts, Zenon DEF UpdateHasRun
  <2>11. \A r \in Replicas : (\E i \in DOMAIN done[r] : done[r][i] = Newest) => UpdateHasRun
    BY <1>2, MigrationFacts, Zenon DEF UpdateHasRun
  <2>12. FlagsOK'
    <3>1. Top' = Newest => unflagged' \subseteq late'
      BY <2>1, <2>3, <2>5, <2>10 DEF StartupIInv, FlagsOK
    <3>2. ASSUME NEW r \in Replicas, \E i \in DOMAIN done[r] : done[r][i] = Newest
          PROVE  unflagged' \ flagged[r] \subseteq late'
      <4>1. unflagged \ flagged[r] \subseteq late
        BY <3>2, Zenon DEF StartupIInv, FlagsOK
      <4>2. QED
        BY <2>1, <2>3, <2>11, <3>2, <4>1
    <3>3. QED
      BY <1>1, <3>1, <3>2, Zenon DEF FlagsOK
  <2>13. QED
    BY <2>4, <2>6, <2>7, <2>8, <2>9, <2>12, Zenon DEF StartupIInv
<1>5. QED
  BY <1>3, <1>4, Zenon DEF StoreMetrics

\* A new image replaces the process and what it had in memory.
LEMMA RolloutKeeps ==
  ASSUME StartupIInv, NEW p \in Replicas \cup {Worker}, Rollout(p)
  PROVE  StartupIInv'
<1>1. /\ image' = [image EXCEPT ![p] = Newest]
      /\ UNCHANGED <<applied, schema, unflagged, late, env, faults>>
  BY Zenon DEF Rollout, database
<1>2. MigratorTyped /\ OthersTyped
  BY StartupTypes, Zenon DEF StartupIInv
<1>3. /\ image' \in [Replicas \cup {Worker} -> {OldImage, Newest}]
      /\ \A q \in Replicas : q # p => image'[q] = image[q]
  BY <1>1, <1>2, Zenon DEF OthersTyped
<1>4. CASE Exit(p) /\ UNCHANGED workers /\ p # Worker
  <2>1. p \in Replicas /\ worker' = worker /\ backfill' = backfill
    BY <1>4, Zenon DEF workers
  <2>2. OthersTyped'
    BY <1>1, <1>2, <1>3, <2>1, Zenon DEF OthersTyped
  <2>3. QED
    BY <1>1, <1>3, <1>4, <2>1, <2>2, ExitKeeps
<1>5. CASE p = Worker /\ worker' = "down" /\ backfill' = FALSE /\ UNCHANGED <<lock, pc, migrator>>
  <2>1. UNCHANGED <<lock, pc, pending, done, flagged, lost>>
    BY <1>5, Zenon DEF migrator
  <2>2. OthersTyped'
    BY <1>1, <1>2, <1>3, <1>5 DEF OthersTyped
  <2>3. \A q \in Replicas : image'[q] = image[q]
    BY <1>3, <1>5, StartupAssumption DEF Worker
  <2>4. QED
    BY <1>1, <2>1, <2>2, <2>3, WorkerKeeps
<1>6. QED
  BY <1>4, <1>5, Zenon DEF Rollout

\* The operator corrects the environment and everything restarts.
LEMMA CorrectEnvKeeps ==
  ASSUME StartupIInv, CorrectEnv
  PROVE  StartupIInv'
<1>1. /\ env' = RightEnv /\ lock' = None /\ pc' = [r \in Replicas |-> "down"]
      /\ pending' = [r \in Replicas |-> << >>] /\ done' = [r \in Replicas |-> << >>]
      /\ flagged' = [r \in Replicas |-> {}]
      /\ lost' = [r \in Replicas |-> IF lost[r] = "now" THEN "before" ELSE lost[r]]
      /\ worker' = "down" /\ backfill' = FALSE
      /\ UNCHANGED <<applied, schema, unflagged, late, image, faults>>
  BY Zenon DEF CorrectEnv, database
<1>2. MigratorTyped /\ OthersTyped
  BY StartupTypes, Zenon DEF StartupIInv
<1>3. RightEnv \in Env
  BY DEF RightEnv, Env
<1>4. OthersTyped'
  BY <1>1, <1>2, <1>3, Zenon DEF OthersTyped
<1>5. \A r \in Replicas : /\ pc'[r] = "down" /\ done'[r] = << >> /\ flagged'[r] = {}
                          /\ lost'[r] = IF lost[r] = "now" THEN "before" ELSE lost[r]
  BY <1>1, Zenon
<1>6. MigratorTyped'
  BY <1>1, <1>2 DEF MigratorTyped, Phases
<1>7. NeverLost' => NeverLost
  <2>1. \A q \in Replicas : lost'[q] = "never" => lost[q] = "never"
    BY <1>2, <1>5 DEF MigratorTyped
  <2>2. QED
    BY <2>1, Zenon DEF NeverLost
<1>8. LockOK' /\ BootOK'
  BY <1>5 DEF LockOK, BootOK
<1>9. \A q \in Replicas : pc'[q] # "migrate" /\ done'[q] = << >> /\ flagged'[q] = {}
  BY <1>5
<1>10. QED
  BY <1>1, <1>4, <1>6, <1>7, <1>8, <1>9, QuietStep

-----------------------------------------------------------------------------
LEMMA StartupInit == Init => StartupIInv
<1> SUFFICES ASSUME Init PROVE StartupIInv
  OBVIOUS
<1>1. /\ applied \in {<< >>, [i \in 1..OldImage |-> i]} /\ schema = AddedBy(applied)
      /\ unflagged = {} /\ late = {} /\ lock = None /\ pc = [r \in Replicas |-> "down"]
      /\ image = [p \in Replicas \cup {Worker} |-> OldImage]
      /\ pending = [r \in Replicas |-> << >>] /\ done = [r \in Replicas |-> << >>]
      /\ flagged = [r \in Replicas |-> {}] /\ lost = [r \in Replicas |-> "never"]
      /\ worker = "down" /\ backfill = FALSE /\ env \in Env /\ faults = 0
  BY Zenon DEF Init, MistakenEnvs
<1>2. OldImage \in 1..11 /\ Newest = 12
  BY StartupAssumption, MigrationFacts
<1>3. applied \in Seq(1..12) /\ NamesAll(applied) /\ InOrder(applied)
  <2>1. CASE applied = << >>
    BY <2>1 DEF NamesAll, InOrder, TopOf
  <2>2. CASE applied = [i \in 1..OldImage |-> i]
    <3>1. /\ applied \in Seq(1..12) /\ Len(applied) = OldImage /\ DOMAIN applied = 1..OldImage
          /\ \A i \in 1..OldImage : applied[i] = i
      BY <1>2, <2>2
    <3>2. TopOf(applied) = OldImage
      BY <1>2, <3>1 DEF TopOf
    <3>3. NamesAll(applied)
      <4>1. \A m \in 1..12 : m <= OldImage <=> \E i \in 1..OldImage : i = m
        BY <1>2
      <4>2. \A m : (\E i \in 1..OldImage : i = m) <=> (\E i \in DOMAIN applied : applied[i] = m)
        BY <3>1, Zenon
      <4>3. OldImage \in 0..12
        BY <1>2
      <4>4. QED
        BY <3>2, <4>1, <4>2, <4>3, Zenon DEF NamesAll
    <3>4. InOrder(applied)
      BY <1>2, <3>1 DEF InOrder
    <3>5. QED
      BY <3>1, <3>3, <3>4
  <2>3. QED
    BY <1>1, <2>1, <2>2
<1>4. AppliedInOrderOnce /\ TableOK
  BY <1>3, Zenon DEF AppliedInOrderOnce, InOrder, TableOK
<1>5. \A r \in Replicas : pc[r] = "down" /\ done[r] = << >> /\ flagged[r] = {}
  BY <1>1, Zenon
<1>6. MigratorTyped
  BY <1>1 DEF MigratorTyped, Phases
<1>7. DatabaseTyped
  BY <1>1, <1>2, <1>3, Zenon DEF DatabaseTyped
<1>8. OthersTyped
  <2>1. 0 \in 0..MaxFaults
    BY StartupAssumption
  <2>2. QED
    BY <1>1, <2>1, Zenon DEF OthersTyped
<1>9. ProgressOK /\ LockOK /\ BootOK
  BY <1>5 DEF ProgressOK, LockOK, BootOK
<1>10. OpenOK
  BY <1>5 DEF OpenOK
<1>11. FlagsOK
  BY <1>1 DEF FlagsOK
<1>12. QED
  BY <1>4, <1>6, <1>7, <1>8, <1>9, <1>10, <1>11, StartupTypes DEF StartupIInv

\* One case for each action.
LEMMA StartupNext == StartupIInv /\ [Next]_vars => StartupIInv'
<1> SUFFICES ASSUME StartupIInv, [Next]_vars PROVE StartupIInv'
  OBVIOUS
<1>1. ASSUME NEW r \in Replicas,
             RunMigrations(r) \/ LockConnectionLost(r) \/ Boot(r) \/ BootFails(r) \/ Crash(r)
      PROVE  StartupIInv'
  BY <1>1, StartKeeps, TakeLockKeeps, LoadExecutedKeeps, UpKeeps, FailureKeeps, CommitKeeps,
     UnlockKeeps, LockConnectionLostKeeps, BootKeeps DEF RunMigrations
<1>2. CASE WorkerStart \/ BackfillVaultOwnership \/ WorkerDies
  BY <1>2, WorkerStepsKeep
<1>3. CASE StoreMetrics
  BY <1>3, StoreMetricsKeeps
<1>4. CASE \E p \in Replicas \cup {Worker} : Rollout(p)
  BY <1>4, RolloutKeeps
<1>5. CASE CorrectEnv
  BY <1>5, CorrectEnvKeeps
<1>6. CASE UNCHANGED vars
  <2>1. UNCHANGED <<applied, schema, unflagged, late, lock, pc, image, pending, done, flagged, lost,
                    worker, backfill, env, faults>>
    BY <1>6, Zenon DEF vars
  <2>2. OthersTyped'
    BY <2>1, StartupTypes, Zenon DEF StartupIInv, OthersTyped
  <2>3. QED
    BY <2>1, <2>2, WorkerKeeps
<1>7. QED
  BY <1>1, <1>2, <1>3, <1>4, <1>5, <1>6 DEF Next

\* The inductive invariant of the rollout: the table names the migrations up to the newest
\* one, and what a replica has open continues it, whoever else migrates.
THEOREM StartupInvariance == Spec => []StartupIInv
BY StartupInit, StartupNext, PTL DEF Spec

\* run-migrations under crashes, lost locks and a rollout: the state is well typed, and the
\* schema is what the migrations table says, for any number of replicas.
THEOREM StartupTypeCorrect == Spec => []TypeOK
<1>1. StartupIInv => TypeOK
  BY DEF StartupIInv
<1>2. QED
  BY <1>1, StartupInvariance, PTL

\* dataSource.runMigrations by any number of replicas, with or without the advisory lock:
\* the table has the migrations in their order, without a gap, and those of tables once.
THEOREM MigrationsAreInOrder == Spec => []AppliedInOrderOnce
<1>1. StartupIInv => AppliedInOrderOnce
  BY DEF StartupIInv
<1>2. QED
  BY <1>1, StartupInvariance, PTL

\* pg_advisory_xact_lock: as long as no lock connection breaks, what a replica found
\* missing is still missing when it migrates.
THEOREM LockKeepsPendingCurrent == Spec => []PendingIsCurrent
<1>1. StartupIInv => PendingIsCurrent
  <2> SUFFICES ASSUME StartupIInv, NeverLost, NEW r \in Replicas, pc[r] = "migrate"
               PROVE  done[r] \o pending[r] = PendingOf(r)
    BY Zenon DEF PendingIsCurrent, NeverLost
  <2>1. PICK a \in 0..Newest, b \in 0..Newest : Progress(r, a, b)
    BY Zenon DEF StartupIInv, ProgressOK
  <2>2. /\ a <= b /\ b <= image[r] /\ a <= Top /\ done[r] = Span(a, b)
        /\ pending[r] = Span(b, image[r]) /\ a \in {Top, image[r]}
    BY <2>1, Zenon DEF Progress
  <2>3. image[r] \in 1..12 /\ Newest = 12 /\ Top \in 0..12
    BY AtReplica
  <2>4. a \in Nat /\ b \in Nat /\ image[r] \in Nat /\ a <= b /\ b <= image[r]
    BY <2>2, <2>3
  <2>5. Span(a, b) \o Span(b, image[r]) = Span(a, image[r])
    BY <2>4, SpanConcat, Zenon
  <2>6. PendingOf(r) = Span(First(r), image[r])
    BY PendingIs DEF StartupIInv
  <2>7. First(r) = a
    BY <2>2, <2>3, <2>4 DEF First
  <2>8. QED
    BY <2>2, <2>5, <2>6, <2>7, Zenon
<1>2. QED
  BY <1>1, StartupInvariance, PTL

\* The entry points: a replica that listens has the tables and columns of its entities and
\* is configured for the chain it talks to, however far the rollout is.
THEOREM ServersHaveTheirSchema == Spec => []ServesItsSchema
<1>1. StartupIInv => ServesItsSchema
  <2> SUFFICES ASSUME StartupIInv, NEW r \in Replicas, pc[r] = "serving"
               PROVE  Requires(image[r]) \subseteq schema /\ env = RightEnv
    BY Zenon DEF ServesItsSchema
  <2>1. image[r] <= Top /\ Configures /\ ContractsResolve /\ ValidateNetwork
    BY DEF StartupIInv, BootOK
  <2>2. OthersTyped /\ Newest = 12 /\ Top \in 0..12
    BY AtReplica
  <2>3. Requires(image[r]) \subseteq schema
    <3>1. image[r] \in {OldImage, Newest}
      BY <2>2, Zenon DEF OthersTyped
    <3>2. Top \in 0..Newest
      BY <2>2
    <3>3. Requires(image[r]) \subseteq AddedUpTo(Top)
      BY <2>1, <3>1, <3>2, RequiresAdded, Zenon
    <3>4. QED
      BY <3>3, SchemaIs, Zenon DEF StartupIInv
  <2>4. env.urls = "given" /\ env.network = "file" /\ env.chain = "expected"
    <3>1. env.urls = "given"
      BY <2>1 DEF ContractsResolve, VaultHubResolves, ReadsLocator, RpcAnswers
    <3>2. env.network = "file"
      BY <2>1 DEF ContractsResolve, VaultViewerResolves, AddressMap
    <3>3. QED
      BY <2>1, <3>1, <3>2 DEF ValidateNetwork
  <2>5. env.minimal
    BY <2>1, Zenon DEF Configures, Validate
  <2>6. env \in Env
    BY <2>2, Zenon DEF OthersTyped
  <2>7. env = [urls |-> env.urls, minimal |-> env.minimal, network |-> env.network, chain |-> env.chain]
        /\ env.minimal \in BOOLEAN
    BY <2>6, Zenon DEF Env
  <2>8. env.minimal = TRUE
    BY <2>5, <2>7, Zenon
  <2>9. QED
    BY <2>3, <2>4, <2>7, <2>8, Zenon DEF RightEnv
<1>2. QED
  BY <1>1, StartupInvariance, PTL

\* MarkNetAndCarryAprAnomalies while old workers go on storing: what stays unflagged after
\* it was stored by an old worker after its UPDATE had run.
THEOREM MissedRowsAreLate == Spec => []OnlyLateRowsStayUnflagged
<1>1. StartupIInv => OnlyLateRowsStayUnflagged
  <2> SUFFICES ASSUME StartupIInv, NEW i \in DOMAIN applied, Migrations[applied[i]].data
               PROVE  unflagged \subseteq late
    BY Zenon DEF OnlyLateRowsStayUnflagged
  <2>1. applied \in Seq(1..Newest) /\ Newest = 12
    BY MigrationFacts, Zenon DEF StartupIInv, TypeOK
  <2>2. applied[i] \in 1..12
    BY <2>1
  <2>3. applied[i] = 12
    <3>1. applied[i] \in 1..11 \/ applied[i] = 12
      BY <2>2
    <3>2. QED
      BY <3>1, MigrationFacts
  <2>4. Top \in 0..12 /\ (12 <= Top <=> \E j \in DOMAIN applied : applied[j] = 12)
    <3>1. 12 \in 1..12
      OBVIOUS
    <3>2. QED
      BY <3>1, Zenon DEF StartupIInv, TableOK, NamesAll, Top
  <2>5. 12 <= Top
    BY <2>3, <2>4, Zenon
  <2>6. Top = Newest
    BY <2>1, <2>4, <2>5
  <2>7. QED
    BY <2>6, Zenon DEF StartupIInv, FlagsOK
<1>2. QED
  BY <1>1, StartupInvariance, PTL

-----------------------------------------------------------------------------
(***************************************************************************)
(* SecretsRotation, for any set of contents and any number of rotations.   *)
(***************************************************************************)
CONSTANTS
  Versions, Absent, MaxChanges

VARIABLES
  agent, pathSet, file, stamp, changes, written, rotations,
  phase, secrets, lastContent, restarting, watch, seen, due, closes, restarts

Rotation == INSTANCE SecretsRotation WITH env <- secrets

\* The latch counts the calls of app.close().
LatchOK == closes = IF restarting THEN 1 ELSE 0

\* A process that has exited leaves no watch and no listener behind.
WatchOK ==
  /\ watch # "off" => phase = "running"
  /\ watch # "on" => due = 0
  /\ restarting => watch = "on"

\* A process that has not read the content written last has a rotation left that no
\* restart stands for.
RotationsOK ==
  /\ restarts <= rotations
  /\ watch # "off" /\ ~restarting /\ written # lastContent => restarts < rotations
  /\ file # Absent => file = written

RotationIInv == Rotation!TypeOK /\ LatchOK /\ WatchOK /\ RotationsOK

\* The initial state satisfies the invariant.
LEMMA RotationInit == Rotation!Init => RotationIInv
<1> SUFFICES ASSUME Rotation!Init PROVE RotationIInv
  OBVIOUS
<1>1. Rotation!TypeOK
  <2>1. agent \in BOOLEAN /\ pathSet \in BOOLEAN /\ restarting \in BOOLEAN
    BY Zenon DEF Rotation!Init
  <2>2. file \in Rotation!Contents /\ written \in Rotation!Contents /\ secrets \in Rotation!Contents /\ lastContent \in Rotation!Contents
    BY Zenon DEF Rotation!Init, Rotation!Contents
  <2>3. /\ stamp \in Nat \ {0} /\ changes \in Nat
        /\ seen \in Nat /\ due \in Nat /\ closes \in Nat /\ restarts \in Nat /\ rotations \in Nat
    BY SMT DEF Rotation!Init
  <2>4. phase \in {"down", "sourced", "running"} /\ watch \in {"off", "starting", "on"}
    BY SMT DEF Rotation!Init
  <2> QED
    BY <2>1, <2>2, <2>3, <2>4, Zenon DEF Rotation!TypeOK
<1>2. LatchOK /\ WatchOK /\ RotationsOK
  BY DEF Rotation!Init, LatchOK, WatchOK, RotationsOK
<1> QED
  BY <1>1, <1>2 DEF RotationIInv

\* An exit resets everything the invariant speaks about.
LEMMA RotationExits ==
  ASSUME RotationIInv, Rotation!Exits, UNCHANGED Rotation!fileVars
  PROVE  RotationIInv'
  BY DEF RotationIInv, Rotation!TypeOK, LatchOK, WatchOK, RotationsOK, Rotation!Contents, Rotation!Exits, Rotation!fileVars

\* Every step of the agent, the watch and the process keeps the invariant.
LEMMA RotationNext == RotationIInv /\ [Rotation!Next]_Rotation!vars => RotationIInv'
<1> SUFFICES ASSUME RotationIInv, [Rotation!Next]_Rotation!vars PROVE RotationIInv'
  OBVIOUS
<1> USE DEF RotationIInv, Rotation!TypeOK, LatchOK, WatchOK, RotationsOK, Rotation!Contents
<1>1. ASSUME NEW v \in Versions, Rotation!Rotate(v) PROVE RotationIInv'
  BY <1>1 DEF Rotation!Rotate, Rotation!procVars
<1>2. CASE Rotation!Remove
  BY <1>2 DEF Rotation!Remove, Rotation!procVars
<1>3. CASE Rotation!Source
  BY <1>3 DEF Rotation!Source, Rotation!fileVars
<1>4. CASE Rotation!Register
  BY <1>4 DEF Rotation!Register, Rotation!fileVars
<1>5. CASE Rotation!RegisterUnreadable
  <2>1. CASE pathSet
    BY <1>5, <2>1, RotationExits DEF Rotation!RegisterUnreadable
  <2>2. CASE ~pathSet
    BY <1>5, <2>2 DEF Rotation!RegisterUnreadable, Rotation!fileVars
  <2> QED
    BY <2>1, <2>2
<1>6. CASE Rotation!WatchStarts
  BY <1>6 DEF Rotation!WatchStarts, Rotation!fileVars, Rotation!Stat
<1>7. CASE Rotation!Poll
  BY <1>7 DEF Rotation!Poll, Rotation!fileVars, Rotation!Stat
<1>8. CASE Rotation!Listener
  <2>1. watch = "on" /\ due' \in Nat /\ file \in Rotation!Contents
    BY <1>8, SMT DEF Rotation!Listener
  <2>2. CASE file = lastContent \/ restarting
    <3>1. restarting' = restarting /\ closes' = closes /\ restarts' = restarts
      BY <1>8, <2>2, Zenon DEF Rotation!Listener
    <3> QED
      BY <1>8, <2>1, <2>2, <3>1 DEF Rotation!Listener, Rotation!fileVars
  <2>3. CASE ~(file = lastContent \/ restarting)
    <3>1. restarting' = TRUE /\ closes' = closes + 1 /\ restarts' = restarts + 1 /\ ~restarting
      BY <1>8, <2>3, Zenon DEF Rotation!Listener
    <3>2. closes' = 1
      BY <3>1, SMT
    <3>3. restarts < rotations
      BY <1>8, <2>1, <2>3, <3>1 DEF Rotation!Listener
    <3>4. rotations' = rotations /\ restarts' \in Nat /\ restarts' <= rotations'
      BY <1>8, <3>1, <3>3 DEF Rotation!Listener, Rotation!fileVars
    <3> QED
      BY <1>8, <2>1, <3>1, <3>2, <3>4 DEF Rotation!Listener, Rotation!fileVars
  <2> QED
    BY <2>2, <2>3
<1>9. CASE Rotation!ListenerUnreadable
  BY <1>9 DEF Rotation!ListenerUnreadable, Rotation!vars
<1>10. CASE Rotation!CloseSettles \/ Rotation!ForceExit \/ Rotation!Stop
  BY <1>10, RotationExits DEF Rotation!CloseSettles, Rotation!ForceExit, Rotation!Stop
<1>11. CASE UNCHANGED Rotation!vars
  BY <1>11 DEF Rotation!vars
<1> QED
  BY <1>1, <1>2, <1>3, <1>4, <1>5, <1>6, <1>7, <1>8, <1>9, <1>10, <1>11 DEF Rotation!Next

\* The invariant holds in every reachable state.
THEOREM SecretsInvariance == Rotation!Spec => []RotationIInv
  BY RotationInit, RotationNext, PTL DEF Rotation!Spec

\* Every reachable state is well typed.
THEOREM SecretsTypeCorrect == Rotation!Spec => []Rotation!TypeOK
<1>1. RotationIInv => Rotation!TypeOK
  BY DEF RotationIInv
<1> QED
  BY <1>1, SecretsInvariance, PTL

\* A process calls app.close() at most once, whatever the watcher reports.
THEOREM ClosesOnce == Rotation!Spec => []Rotation!CloseOnce
<1>1. RotationIInv => Rotation!CloseOnce
  BY DEF RotationIInv, LatchOK, Rotation!CloseOnce
<1> QED
  BY <1>1, SecretsInvariance, PTL

\* However the file changes, also while a process starts, a rotation restarts the container
\* once at most.
THEOREM RestartsAreNeeded == Rotation!Spec => []Rotation!NoNeedlessRestart
<1>1. RotationIInv => Rotation!NoNeedlessRestart
  BY DEF RotationIInv, RotationsOK, Rotation!NoNeedlessRestart
<1> QED
  BY <1>1, SecretsInvariance, PTL
=============================================================================
