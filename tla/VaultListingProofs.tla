-------------------------- MODULE VaultListingProofs --------------------------
(***************************************************************************)
(* What the pages and the overview show, proved for any finite set of      *)
(* vaults, any limits and offsets and any order of reads and writes.       *)
(***************************************************************************)
EXTENDS VaultListing, FiniteSetTheorems, SequenceTheorems, TLAPS

Overview == {v \in Vaults : table[v].exists /\ ~table[v].disconnected}
PublicList == {v \in Vaults : table[v].joined /\ ~table[v].disconnected}

\* Only existing vaults have a state.
TableOK == \A v \in Vaults : table[v].joined => table[v].exists

\* A vault on a page has a state, and keeps it; in a quiet public view it is connected.
PageOK ==
  \A i \in 1..Len(tx.page) :
    /\ table[tx.page[i]].joined
    /\ tx.quiet /\ tx.view = "public" => ~table[tx.page[i]].disconnected

\* The count of a quiet request is still right when the page is read, and afterwards.
CountOK ==
  tx.pc = "page" /\ tx.quiet => tx.total = Cardinality(BaseQuery(tx.view))

\* What the first statement of a quiet overview has read is still right.
OverviewOK ==
  /\ tx.pc = "overviewTvl" /\ tx.quiet => tx.total = Cardinality(Overview)
  /\ tx.pc = "overviewCount" /\ tx.quiet => tx.summed = PublicList

Promises ==
  /\ ListedVaultsAreFound /\ OverviewMatchesList
  /\ QuietCountAndPageAgree /\ DisconnectedGroupedAtEnd

IInv == TypeOK /\ TableOK /\ PageOK /\ CountOK /\ OverviewOK /\ Promises

-----------------------------------------------------------------------------
\* Sets of vaults are finite.
LEMMA Counts ==
  ASSUME NEW S, S \subseteq Vaults
  PROVE  IsFiniteSet(S) /\ Cardinality(S) \in Nat
BY ListingAssumption, FS_Subset, FS_CardinalityType

\* The public list, whoever asks.
LEMMA PublicQuery == BaseQuery("public") = PublicList
BY DEF BaseQuery, Selected, Finds, PublicList

\* Nothing requested yet.
LEMMA IdleIsTx ==
  /\ Idle \in Tx /\ Idle.pc = "shown" /\ Idle.page = << >> /\ ~Idle.quiet
<1> DEFINE l == CHOOSE l \in Limits : TRUE
           o == CHOOSE o \in Offsets : TRUE
<1>1. l \in Limits /\ o \in Offsets
  BY ListingAssumption, Zenon
<1>2. << >> \in Seq(Vaults) /\ 0 \in Nat
  OBVIOUS
<1> HIDE DEF l, o
<1>3. Idle = [pc |-> "shown", view |-> "public", direction |-> "DESC",
              limit |-> l, offset |-> o,
              lastReport |-> 0, total |-> 0, page |-> << >>, opened |-> Null, found |-> "none",
              summed |-> {}, quiet |-> FALSE]
  BY Zenon DEF Idle, l, o
<1>4. Idle \in Tx
  BY <1>1, <1>2, <1>3, Zenon DEF Tx, Views, Directions
<1>5. Idle.pc = "shown" /\ Idle.page = << >> /\ ~Idle.quiet
  BY <1>3
<1>6. QED
  BY <1>4, <1>5

\* Nothing is promised of a request under way or overtaken.
LEMMA NoPromise ==
  ASSUME ~tx'.quiet, tx'.pc # "opened"
  PROVE  CountOK' /\ OverviewOK' /\ Promises'
BY DEF CountOK, OverviewOK, Promises, ListedVaultsAreFound, OverviewMatchesList,
       QuietCountAndPageAgree, DisconnectedGroupedAtEnd

\* No vault exists at first.
LEMMA InitIInv == Init => IInv
<1>1. SUFFICES ASSUME Init PROVE IInv
  OBVIOUS
<1>2. tx \in Tx /\ tx.pc = "shown" /\ tx.page = << >> /\ ~tx.quiet
  BY <1>1, IdleIsTx DEF Init
<1>3. ASSUME NEW r \in Relations PROVE NoRow(r) \in Row /\ ~NoRow(r).joined
  <2>1. NoRow(r) \in Row
    BY Zenon DEF NoRow, Row
  <2>2. ~NoRow(r).joined
    BY DEF NoRow
  <2>3. QED
    BY <2>1, <2>2
<1>4. table \in [Vaults -> Row] /\ \A v \in Vaults : ~table[v].joined
  BY <1>1, <1>3 DEF Init
<1>5. TypeOK
  BY <1>1, <1>2, <1>4, ListingAssumption DEF TypeOK, Init
<1>6. TableOK /\ PageOK
  BY <1>2, <1>4 DEF TableOK, PageOK
<1>7. CountOK /\ OverviewOK /\ Promises
  BY <1>2 DEF CountOK, OverviewOK, Promises, ListedVaultsAreFound, OverviewMatchesList,
              QuietCountAndPageAgree, DisconnectedGroupedAtEnd
<1>8. QED
  BY <1>5, <1>6, <1>7 DEF IInv

-----------------------------------------------------------------------------
\* A write keeps the vaults of a page in the join.
LEMMA WriteKeeps ==
  ASSUME IInv, table' \in [Vaults -> Row], reports' \in 0..MaxReports, TableOK',
         \A v \in Vaults : table[v].joined => table'[v].joined, Overtaken
  PROVE  IInv'
<1>1. tx \in Tx /\ PageOK
  BY DEF IInv, TypeOK
<1>2. tx' \in Tx /\ ~tx'.quiet /\ tx'.pc # "opened" /\ (tx'.page = << >> \/ tx'.page = tx.page)
  <2>1. CASE tx.pc = "listed"
    <3>1. tx' = [Idle EXCEPT !.pc = "listed", !.page = tx.page]
      BY <2>1 DEF Overtaken, Answers
    <3>2. QED
      BY <1>1, <3>1, IdleIsTx DEF Tx
  <2>2. CASE tx.pc \in Answers \ {"listed"}
    <3>1. tx' = Idle
      BY <2>2 DEF Overtaken, Answers
    <3>2. QED
      BY <3>1, IdleIsTx
  <2>3. CASE tx.pc \notin Answers
    <3>1. tx' = [tx EXCEPT !.quiet = FALSE]
      BY <2>3 DEF Overtaken, Answers
    <3>2. QED
      BY <1>1, <2>3, <3>1 DEF Tx, Answers
  <2>4. QED
    BY <2>1, <2>2, <2>3
<1>3. PageOK'
  <2>1. tx'.page \in Seq(Vaults)
    BY <1>2 DEF Tx
  <2>2. ASSUME NEW i \in 1..Len(tx'.page) PROVE table'[tx'.page[i]].joined
    BY <1>1, <1>2, <2>1 DEF PageOK
  <2>3. QED
    BY <1>2, <2>2 DEF PageOK
<1>4. TypeOK'
  BY <1>2 DEF TypeOK
<1>5. QED
  BY <1>2, <1>3, <1>4, NoPromise DEF IInv

\* Every write of the worker.
LEMMA WritersKeep ==
  ASSUME IInv,
         \/ \E v \in Vaults, value \in Values \cup {Null} : AddOrUpdateState(v, value)
         \/ \E v \in Vaults, b \in BOOLEAN : CreateVault(v, b) \/ SetDisconnected(v, b)
         \/ \E v \in Vaults, r \in Relations : SetOwnership(v, r)
         \/ SaveReport
  PROVE  IInv'
<1> DEFINE Kept(v) == /\ table' \in [Vaults -> Row] /\ reports' = reports /\ Overtaken
                      /\ \A w \in Vaults \ {v} : table'[w] = table[w]
                      /\ table'[v].joined => table'[v].exists
                      /\ table[v].joined => table'[v].joined
<1>1. table \in [Vaults -> Row] /\ reports \in 0..MaxReports /\ TableOK
  BY DEF IInv, TypeOK
<1>2. ASSUME NEW v \in Vaults, Kept(v) PROVE IInv'
  <2>1. TableOK'
    BY <1>1, <1>2 DEF TableOK
  <2>2. QED
    BY <1>1, <1>2, <2>1, WriteKeeps
<1>3. ASSUME NEW v \in Vaults, NEW value \in Values \cup {Null}, AddOrUpdateState(v, value)
      PROVE  Kept(v)
  BY <1>1, <1>3 DEF AddOrUpdateState, Row
<1>4. ASSUME NEW v \in Vaults, NEW b \in BOOLEAN, CreateVault(v, b) PROVE Kept(v)
  BY <1>1, <1>4 DEF CreateVault, Row, TableOK
<1>5. ASSUME NEW v \in Vaults, NEW b \in BOOLEAN, SetDisconnected(v, b) PROVE Kept(v)
  BY <1>1, <1>5 DEF SetDisconnected, Row, TableOK
<1>6. ASSUME NEW v \in Vaults, NEW r \in Relations, SetOwnership(v, r) PROVE Kept(v)
  BY <1>1, <1>6 DEF SetOwnership, Row, TableOK
<1>7. CASE SaveReport
  <2>1. table' = table /\ reports' \in 0..MaxReports /\ Overtaken
    BY <1>1, <1>7, ListingAssumption DEF SaveReport
  <2>2. TableOK'
    BY <1>1, <2>1 DEF TableOK
  <2>3. QED
    BY <1>1, <2>1, <2>2, WriteKeeps
<1> HIDE DEF Kept
<1>8. QED
  BY <1>2, <1>3, <1>4, <1>5, <1>6, <1>7

-----------------------------------------------------------------------------
\* An order of S without repetitions reaches every member of S.
LEMMA OrderIsOnto ==
  ASSUME NEW S, IsFiniteSet(S), NEW o \in [1..Cardinality(S) -> S],
         \A i, j \in 1..Cardinality(S) : i < j => o[i] # o[j]
  PROVE  \A w \in S : \E j \in 1..Cardinality(S) : o[j] = w
<1> DEFINE n == Cardinality(S)
<1>1. n \in Nat
  BY FS_CardinalityType
<1>2. Cardinality(1..n) = n /\ IsFiniteSet(1..n)
  BY <1>1, FS_Interval
<1> HIDE DEF n
<1>3. o \in [1..n -> S] /\ \A i, j \in 1..n : i < j => o[i] # o[j]
  BY DEF n
<1>4. \A i, j \in 1..n : o[i] = o[j] => i = j
  BY <1>1, <1>3
<1>5. o \in Injection(1..n, S)
  BY <1>3, <1>4, Zenon DEF Injection, IsInjective
<1>6. o \in Surjection(1..n, S)
  BY <1>2, <1>5, FS_Injection DEF n
<1>7. QED
  BY <1>6 DEF Surjection, n

\* What comes before a place is fewer than the place; what fills the places up to it is
\* at least as much.
LEMMA PlaceCounts ==
  ASSUME NEW S, IsFiniteSet(S), NEW o \in [1..Cardinality(S) -> S],
         \A i, j \in 1..Cardinality(S) : i < j => o[i] # o[j],
         NEW p \in 1..Cardinality(S), NEW T \in SUBSET S
  PROVE  /\ (\A j \in 1..Cardinality(S) : o[j] \in T => j < p) => Cardinality(T) < p
         /\ (\A j \in 1..Cardinality(S) : j <= p => o[j] \in T) => p <= Cardinality(T)
<1> DEFINE n == Cardinality(S)
<1>1. n \in Nat /\ IsFiniteSet(T) /\ Cardinality(T) \in Nat
  BY FS_CardinalityType, FS_Subset
<1>2. \A w \in S : \E j \in 1..n : o[j] = w
  BY OrderIsOnto
<1> HIDE DEF n
<1>3. /\ o \in [1..n -> S] /\ p \in 1..n
      /\ \A i, j \in 1..n : i < j => o[i] # o[j]
  BY DEF n
<1>4. ASSUME \A j \in 1..n : o[j] \in T => j < p PROVE Cardinality(T) < p
  <2> DEFINE f == [w \in T |-> CHOOSE j \in 1..n : o[j] = w]
  <2>1. \A w \in T : f[w] \in 1..n /\ o[f[w]] = w
    BY <1>2, Zenon
  <2> HIDE DEF f
  <2>2. \A w \in T : f[w] \in 1..(p - 1)
    BY <1>1, <1>3, <1>4, <2>1
  <2>3. f \in Injection(T, 1..(p - 1))
    <3>1. f \in [T -> 1..(p - 1)]
      BY <2>2, Zenon DEF f
    <3>2. \A v, w \in T : f[v] = f[w] => v = w
      BY <2>1, Zenon
    <3>3. QED
      BY <3>1, <3>2, Zenon DEF Injection, IsInjective
  <2>4. p - 1 \in Int /\ 1 \in Int
    BY <1>1, <1>3
  <2>5. IsFiniteSet(1..(p - 1)) /\ Cardinality(1..(p - 1)) = IF 1 > p - 1 THEN 0 ELSE (p - 1) - 1 + 1
    BY <2>4, FS_Interval
  <2>6. Cardinality(T) <= Cardinality(1..(p - 1))
    BY <2>3, <2>5, FS_Injection, Zenon
  <2>7. QED
    BY <1>1, <1>3, <2>5, <2>6
<1>5. ASSUME \A j \in 1..n : j <= p => o[j] \in T PROVE p <= Cardinality(T)
  <2> DEFINE f == [j \in 1..p |-> o[j]]
  <2>1. \A j \in 1..p : j \in 1..n /\ o[j] \in T
    BY <1>1, <1>3, <1>5
  <2>2. \A i, j \in 1..p : o[i] = o[j] => i = j
    BY <1>1, <1>3, <2>1
  <2>3. f \in Injection(1..p, T)
    BY <2>1, <2>2, Zenon DEF Injection, IsInjective
  <2> HIDE DEF f
  <2>4. p \in Int /\ 1 \in Int
    BY <1>1, <1>3
  <2>5. Cardinality(1..p) = IF 1 > p THEN 0 ELSE p - 1 + 1
    BY <2>4, FS_Interval
  <2>6. Cardinality(1..p) <= Cardinality(T)
    BY <1>1, <2>3, FS_Injection, Zenon
  <2>7. QED
    BY <1>1, <1>3, <2>5, <2>6
<1>6. QED
  BY <1>4, <1>5 DEF n

\* The group that comes first, whatever the values.
LEMMA GroupsBefore ==
  ASSUME TypeOK, NEW v \in Vaults, NEW w \in Vaults, NEW d \in Directions
  PROVE  /\ d = "DESC" /\ ~table[v].disconnected /\ table[w].disconnected => Before(v, w, d)
         /\ d = "ASC" /\ table[v].disconnected /\ ~table[w].disconnected => Before(v, w, d)
<1>1. table[v].disconnected \in BOOLEAN /\ table[w].disconnected \in BOOLEAN
  BY DEF TypeOK, Row
<1>2. d = "DESC" => d # "ASC"
  OBVIOUS
<1>3. QED
  BY <1>1, <1>2, Zenon DEF Before

\* Within a group a value comes before none.
LEMMA ValuesBefore ==
  ASSUME TypeOK, NEW v \in Vaults, NEW w \in Vaults, NEW d \in Directions,
         table[v].disconnected <=> table[w].disconnected,
         table[v].value # Null, table[w].value = Null
  PROVE  Before(v, w, d)
<1>1. table[v].disconnected \in BOOLEAN /\ table[w].disconnected \in BOOLEAN
  BY DEF TypeOK, Row
<1>2. table[v].disconnected = table[w].disconnected
  BY <1>1, Zenon
<1>3. QED
  BY <1>2, Zenon DEF Before, ValueBefore

\* The place p of v in a list of S.
Placed(v, p, S, direction) ==
  LET connected == {w \in S : ~table[w].disconnected}
      left == S \ connected
      first == IF direction = "DESC" THEN connected ELSE left
      group == IF table[v].disconnected THEN left ELSE connected
      ahead == IF v \in first THEN 0 ELSE Cardinality(first)
      filled == {w \in group : table[w].value # Null}
  IN  /\ ahead < p /\ p =< ahead + Cardinality(group)
      /\ table[v].value = Null => ahead + Cardinality(filled) < p

\* Every place of a sorted list is one the promise allows.
LEMMA SortedPlaces ==
  ASSUME TypeOK, NEW S \in SUBSET Vaults, NEW d \in Directions, NEW o \in Sorted(S, d),
         NEW p \in 1..Cardinality(S)
  PROVE  Placed(o[p], p, S, d)
<1> DEFINE n == Cardinality(S)
           v == o[p]
           connected == {w \in S : ~table[w].disconnected}
           left == S \ connected
           first == IF d = "DESC" THEN connected ELSE left
           group == IF table[v].disconnected THEN left ELSE connected
           ahead == IF v \in first THEN 0 ELSE Cardinality(first)
           filled == {w \in group : table[w].value # Null}
<1>1. IsFiniteSet(S) /\ n \in Nat
  BY Counts
<1>2. /\ o \in [1..n -> S]
      /\ \A i, j \in 1..n : i < j => o[i] # o[j]
      /\ \A i, j \in 1..n : i < j => ~Before(o[j], o[i], d)
  BY Zenon DEF Sorted
<1>3. v \in S /\ \A j \in 1..n : o[j] \in S /\ o[j] \in Vaults
  BY <1>2
<1>4. first \in SUBSET S /\ group \in SUBSET S /\ filled \in SUBSET S
  OBVIOUS
<1>5. /\ Cardinality(first) \in Nat /\ Cardinality(group) \in Nat /\ Cardinality(filled) \in Nat
      /\ IsFiniteSet(first) /\ IsFiniteSet(group) /\ IsFiniteSet(filled)
  <2>1. first \subseteq Vaults /\ group \subseteq Vaults /\ filled \subseteq Vaults
    BY <1>4
  <2> HIDE DEF first, group, filled
  <2>2. QED
    BY <2>1, Counts
<1>6. v \in group
  BY <1>3
<1>7. v \in first => group = first
  BY DEF Directions
<1>8. v \notin first => group \cap first = {} /\ group \cup first = S
  BY <1>3 DEF Directions
<1>9. \A w \in first, u \in S \ first : Before(w, u, d)
  <2>1. SUFFICES ASSUME NEW w \in first, NEW u \in S \ first PROVE Before(w, u, d)
    BY Zenon
  <2>2. w \in Vaults /\ u \in Vaults
    BY <1>4, <2>1
  <2>3. CASE d = "DESC"
    BY <2>1, <2>2, <2>3, GroupsBefore
  <2>4. CASE d = "ASC"
    BY <2>1, <2>2, <2>4, GroupsBefore
  <2>5. QED
    BY <2>3, <2>4 DEF Directions
<1>10. \A w \in filled : table[v].value = Null => Before(w, v, d) /\ w # v
  <2>1. SUFFICES ASSUME NEW w \in filled, table[v].value = Null PROVE Before(w, v, d) /\ w # v
    BY Zenon
  <2>2. w \in Vaults /\ v \in Vaults /\ table[w].value # Null
    BY <1>3, <1>4
  <2>3. table[w].disconnected <=> table[v].disconnected
    BY <2>1
  <2> HIDE DEF v, filled
  <2>4. QED
    BY <2>1, <2>2, <2>3, ValuesBefore
<1> HIDE DEF n, v, first, group, filled
<1>11. p \in 1..n
  BY DEF n
<1>12. ASSUME NEW j \in 1..n, Before(o[j], v, d), o[j] # v PROVE j < p
  <2>1. ~(p < j)
    BY <1>2, <1>11, <1>12 DEF v
  <2>2. j # p
    BY <1>12 DEF v
  <2>3. QED
    BY <1>1, <1>11, <2>1, <2>2
<1>13. ahead < p /\ p =< ahead + Cardinality(group)
  <2>1. CASE v \in first
    <3>1. \A j \in 1..n : j <= p => o[j] \in first
      <4>1. SUFFICES ASSUME NEW j \in 1..n, j <= p, o[j] \notin first PROVE FALSE
        BY Zenon
      <4>2. Before(v, o[j], d)
        BY <1>3, <1>9, <2>1, <4>1
      <4>3. j # p
        BY <2>1, <4>1 DEF v
      <4>4. j < p
        BY <1>1, <1>11, <4>1, <4>3
      <4>5. QED
        BY <1>2, <1>11, <4>1, <4>2, <4>4 DEF v
    <3>2. p <= Cardinality(first)
      BY <1>1, <1>2, <1>4, <3>1, PlaceCounts DEF n
    <3>3. QED
      BY <1>1, <1>5, <1>7, <1>11, <2>1, <3>2
  <2>2. CASE v \notin first
    <3>1. \A j \in 1..n : o[j] \in first => j < p
      BY <1>3, <1>9, <1>12, <2>2, Zenon
    <3>2. Cardinality(first) < p
      BY <1>1, <1>2, <1>4, <3>1, PlaceCounts DEF n
    <3>3. n = Cardinality(group) + Cardinality(first) - Cardinality({})
      BY <1>5, <1>8, <2>2, FS_Union DEF n
    <3>4. QED
      BY <1>1, <1>5, <1>11, <2>2, <3>2, <3>3, FS_EmptySet
  <2>3. QED
    BY <2>1, <2>2
<1>14. ASSUME table[v].value = Null PROVE ahead + Cardinality(filled) < p
  <2>1. \A j \in 1..n : o[j] \in filled => j < p
    BY <1>10, <1>12, <1>14, Zenon
  <2>2. CASE v \in first
    <3>1. Cardinality(filled) < p
      BY <1>1, <1>2, <1>4, <2>1, PlaceCounts DEF n
    <3>2. QED
      BY <1>5, <2>2, <3>1
  <2>3. CASE v \notin first
    <3>1. \A j \in 1..n : o[j] \in first => j < p
      BY <1>3, <1>9, <1>12, <2>3, Zenon
    <3>2. first \cup filled \in SUBSET S /\ first \cap filled = {}
      BY <1>4, <1>8, <2>3 DEF filled
    <3>3. \A j \in 1..n : o[j] \in first \cup filled => j < p
      BY <2>1, <3>1
    <3>4. Cardinality(first \cup filled) < p
      BY <1>1, <1>2, <3>2, <3>3, PlaceCounts DEF n
    <3>5. Cardinality(first \cup filled) = Cardinality(first) + Cardinality(filled) - Cardinality({})
      BY <1>5, <3>2, FS_Union
    <3>6. QED
      BY <1>5, <1>11, <2>3, <3>4, <3>5, FS_EmptySet
  <2>4. QED
    BY <2>2, <2>3
<1>15. QED
  BY <1>13, <1>14 DEF Placed, v, n, first, group, filled

-----------------------------------------------------------------------------
\* A statement of a request leaves the tables alone.
LEMMA ReadKeeps ==
  ASSUME IInv, UNCHANGED <<table, reports>>, tx' \in Tx, PageOK', CountOK', OverviewOK', Promises'
  PROVE  IInv'
<1>1. TypeOK' /\ TableOK'
  BY DEF IInv, TypeOK, TableOK
<1>2. QED
  BY <1>1 DEF IInv

\* The queries depend on the table only.
LEMMA SameQueries ==
  ASSUME UNCHANGED table
  PROVE  /\ \A view : BaseQuery(view)' = BaseQuery(view)
         /\ PublicList' = PublicList /\ Overview' = Overview
BY DEF BaseQuery, Selected, Finds, PublicList, Overview

\* A request begins.
LEMMA BeginKeeps ==
  ASSUME IInv, NEW pc \in {"meta", "both"}, NEW view \in Views, NEW d \in Directions,
         NEW l \in Limits, NEW o \in Offsets, Begin(pc, view, d, l, o)
  PROVE  IInv'
<1>1. /\ tx' \in Tx /\ tx'.pc = pc /\ tx'.page = << >>
  BY IdleIsTx DEF Begin, Tx
<1>2. PageOK'
  BY <1>1 DEF PageOK
<1>3. CountOK' /\ OverviewOK' /\ Promises'
  BY <1>1 DEF CountOK, OverviewOK, Promises, ListedVaultsAreFound, OverviewMatchesList,
              QuietCountAndPageAgree, DisconnectedGroupedAtEnd
<1>4. QED
  BY <1>1, <1>2, <1>3, ReadKeeps DEF Begin

\* The last report and the count.
LEMMA CountKeeps == ASSUME IInv, ReadLastReportMeta \/ ReadCount PROVE IInv'
<1>1. tx \in Tx /\ reports \in Nat /\ PageOK /\ Cardinality(BaseQuery(tx.view)) \in Nat
  BY Counts, ListingAssumption DEF IInv, TypeOK, BaseQuery, Selected
<1>2. UNCHANGED <<table, reports>>
  BY DEF ReadLastReportMeta, ReadCount, Answer
<1> DEFINE n == Cardinality(BaseQuery(tx.view))
<1> HIDE DEF n
<1>3. \/ tx' = [tx EXCEPT !.pc = "count", !.lastReport = reports]
      \/ tx' = [tx EXCEPT !.pc = "page", !.total = n]
  BY Zenon DEF ReadLastReportMeta, ReadCount, Answer, n
<1>4. /\ tx' \in Tx /\ tx'.pc \in {"count", "page"} /\ tx'.view = tx.view /\ tx'.page = tx.page
      /\ tx'.pc = "page" => tx'.total = n
  BY <1>1, <1>3 DEF Tx, n
<1>5. tx'.quiet <=> tx.quiet
  BY <1>1, <1>3 DEF Tx
<1>6. PageOK'
  BY <1>1, <1>2, <1>4, <1>5 DEF PageOK
<1>7. CountOK'
  BY <1>2, <1>4, SameQueries DEF CountOK, n
<1>8. OverviewOK' /\ Promises'
  BY <1>4 DEF OverviewOK, Promises, ListedVaultsAreFound, OverviewMatchesList,
              QuietCountAndPageAgree, DisconnectedGroupedAtEnd
<1>9. QED
  BY <1>2, <1>4, <1>6, <1>7, <1>8, ReadKeeps

\* One page of the list: its rows are of the list, as many as the count leaves.
LEMMA PageKeeps == ASSUME IInv, ReadPage PROVE IInv'
<1> DEFINE S == BaseQuery(tx.view)
           n == Cardinality(S)
<1>1. tx \in Tx /\ tx.pc = "page" /\ UNCHANGED <<table, reports>> /\ CountOK
  BY DEF IInv, TypeOK, ReadPage, Answer
<1>2. S \subseteq Vaults /\ n \in Nat
  BY Counts DEF BaseQuery, Selected
<1>3. PICK o \in Sorted(S, tx.direction) :
        tx' = [tx EXCEPT !.pc = "listed", !.page = Slice(o, tx.offset, tx.limit)]
  BY Zenon DEF ReadPage, Answer
<1>a. o \in [1..n -> S]
  BY <1>3, Zenon DEF Sorted
<1> DEFINE last == IF tx.offset + tx.limit < n THEN tx.offset + tx.limit ELSE n
           page == Slice(o, tx.offset, tx.limit)
<1>4. tx.offset \in Nat /\ tx.limit \in Nat
  BY <1>1, ListingAssumption DEF Tx
<1>5. /\ \A v \in S : table[v].joined
      /\ tx.view = "public" => \A v \in S : ~table[v].disconnected
  <2>1. \A v \in S : table[v].joined
    BY <1>2 DEF BaseQuery, Selected
  <2>2. tx.view = "public" => \A v \in S : ~table[v].disconnected
    BY PublicQuery DEF PublicList
  <2>3. QED
    BY <2>1, <2>2
<1> HIDE DEF S, n
<1>6. Len(o) = n
  BY <1>2, <1>a
<1>7. /\ page \in Seq(S)
      /\ Len(page) = IF tx.offset + 1 <= last THEN last - tx.offset ELSE 0
      /\ \A i \in 1..Len(page) : tx.offset + i \in 1..n /\ page[i] = o[tx.offset + i]
  <2>1. page = SubSeq(o, tx.offset + 1, last)
    BY <1>6 DEF Slice
  <2>2. tx.offset + 1 \in Int /\ last \in Int
    BY <1>2, <1>4
  <2>3. last =< n
    BY <1>2, <1>4
  <2> HIDE DEF last, page
  <2>4. \A i \in (tx.offset + 1)..last : o[i] \in S
    BY <1>2, <1>a, <1>4, <2>2, <2>3
  <2> DEFINE m == tx.offset + 1
             cut == SubSeq(o, m, last)
  <2>5. /\ cut \in Seq(S)
        /\ Len(cut) = IF m <= last THEN last - m + 1 ELSE 0
        /\ \A i \in 1..(last - m + 1) : cut[i] = o[m + i - 1]
    BY <2>2, <2>4, SubSeqProperties
  <2> HIDE DEF cut
  <2>6. ASSUME NEW i \in 1..Len(cut) PROVE tx.offset + i \in 1..n /\ cut[i] = o[tx.offset + i]
    <3>1. i \in 1..(last - m + 1) /\ m + i - 1 = tx.offset + i
      BY <1>4, <2>2, <2>5, <2>6
    <3>2. cut[i] = o[tx.offset + i]
      BY <2>5, <3>1
    <3>3. tx.offset + i <= last /\ tx.offset + i \in Nat /\ tx.offset + i >= 1
      BY <1>4, <2>2, <3>1
    <3>4. QED
      BY <1>2, <2>2, <2>3, <3>2, <3>3
  <2>7. page = cut
    BY <2>1 DEF cut
  <2>8. Len(cut) = IF tx.offset + 1 <= last THEN last - tx.offset ELSE 0
    BY <1>4, <2>2, <2>5
  <2>9. QED
    BY <2>5, <2>6, <2>7, <2>8
<1> HIDE DEF page
<1>8. page \in Seq(Vaults) /\ \A i \in 1..Len(page) : page[i] \in S
  BY <1>2, <1>7
<1>9. /\ tx' \in Tx /\ tx'.pc = "listed" /\ tx'.page = page /\ tx'.view = tx.view
      /\ tx'.total = tx.total /\ tx'.offset = tx.offset /\ tx'.limit = tx.limit
      /\ tx'.direction = tx.direction
  BY <1>1, <1>3, <1>8 DEF Tx, page
<1>10. tx'.quiet <=> tx.quiet
  BY <1>1, <1>3 DEF Tx
<1>11. PageOK'
  BY <1>1, <1>5, <1>8, <1>9 DEF PageOK
<1>12. QuietCountAndPageAgree'
  <2>1. tx.quiet => tx.total = n
    BY <1>1 DEF CountOK, n, S
  <2>2. Len(page) = IF n =< tx.offset THEN 0
                    ELSE IF n - tx.offset < tx.limit THEN n - tx.offset ELSE tx.limit
    <3>1. tx.limit # 0
      BY <1>1, ListingAssumption DEF Tx
    <3>2. QED
      BY <1>2, <1>4, <1>7, <3>1
  <2>3. QED
    BY <1>9, <1>10, <2>1, <2>2 DEF QuietCountAndPageAgree, Expected
<1>13. DisconnectedGroupedAtEnd'
  <2>1. ASSUME NEW i \in 1..Len(page) PROVE Placed(page[i], tx.offset + i, S, tx.direction)
    <3>1. tx.direction \in Directions /\ TypeOK /\ S \in SUBSET Vaults
      BY <1>1, <1>2 DEF IInv, Tx
    <3>2. Placed(o[tx.offset + i], tx.offset + i, S, tx.direction)
      BY <1>3, <1>7, <2>1, <3>1, SortedPlaces DEF n
    <3>3. QED
      BY <1>7, <2>1, <3>2
  <2>2. BaseQuery(tx.view)' = S /\ table' = table
    BY <1>1, <1>9, SameQueries DEF S
  <2>3. QED
    BY <1>9, <2>1, <2>2, Zenon DEF DisconnectedGroupedAtEnd, PlaceOf, Placed
<1>14. CountOK' /\ OverviewOK' /\ Promises'
  BY <1>9, <1>12, <1>13
     DEF CountOK, OverviewOK, Promises, ListedVaultsAreFound, OverviewMatchesList
<1>15. QED
  BY <1>1, <1>9, <1>11, <1>14, ReadKeeps

\* A vault of the page is opened.
LEMMA OpenKeeps == ASSUME IInv, NEW v \in Vaults, GetVaultByAddress(v) PROVE IInv'
<1> DEFINE f == GetVaultData(v)
           q == tx.quiet
<1>1. /\ tx \in Tx /\ PageOK /\ UNCHANGED <<table, reports>>
      /\ tx' = [Idle EXCEPT !.pc = "opened", !.page = tx.page, !.view = tx.view, !.quiet = q,
                         !.opened = v, !.found = f]
  BY Zenon DEF IInv, TypeOK, GetVaultByAddress, Answer
<1>2. /\ f \in {"refused", "connected", "disconnected"}
      /\ table[v].joined => f # "refused"
      /\ table[v].joined /\ ~table[v].disconnected => f = "connected"
  BY DEF GetVaultData, Selected
<1>3. q \in BOOLEAN
  BY <1>1 DEF Tx
<1> HIDE DEF f, q
<1>4. /\ tx' \in Tx /\ tx'.pc = "opened" /\ tx'.page = tx.page /\ tx'.view = tx.view
      /\ tx'.opened = v /\ tx'.found = f
  BY <1>1, <1>2, <1>3, IdleIsTx DEF Tx
<1>5. tx'.quiet <=> q
  BY <1>1, <1>3, IdleIsTx DEF Tx
<1>6. PageOK'
  BY <1>1, <1>4, <1>5 DEF PageOK, q
<1>7. ListedVaultsAreFound'
  <2>1. SUFFICES ASSUME NEW i \in 1..Len(tx.page), tx.page[i] = v
                 PROVE  f # "refused" /\ (tx.quiet /\ tx.view = "public" => f = "connected")
    BY <1>4, <1>5 DEF ListedVaultsAreFound, q
  <2>2. QED
    BY <1>1, <1>2, <2>1 DEF PageOK
<1>8. CountOK' /\ OverviewOK' /\ Promises'
  BY <1>4, <1>7 DEF CountOK, OverviewOK, Promises, OverviewMatchesList, QuietCountAndPageAgree,
                    DisconnectedGroupedAtEnd
<1>9. QED
  BY <1>1, <1>4, <1>6, <1>8, ReadKeeps

\* The two statements of the overview, in either order.
LEMMA OverviewKeeps == ASSUME IInv, GetVaultsCount \/ GetTvl PROVE IInv'
<1> DEFINE n == Cardinality(Overview)
<1>1. tx \in Tx /\ PageOK /\ OverviewOK /\ TableOK
  BY DEF IInv, TypeOK
<1>2. n \in Nat /\ PublicList \subseteq Vaults /\ Cardinality(PublicList) =< n
  <2>1. Overview \subseteq Vaults /\ PublicList \subseteq Overview
    BY <1>1 DEF Overview, PublicList, TableOK
  <2>2. QED
    BY <2>1, Counts, FS_Subset
<1>3. UNCHANGED <<table, reports>>
  BY DEF GetVaultsCount, GetTvl, Answer
<1>4. \/ tx.pc = "both" /\ tx' = [tx EXCEPT !.pc = "overviewTvl", !.total = n]
      \/ tx.pc = "overviewCount" /\ tx' = [tx EXCEPT !.pc = "shown", !.total = n]
      \/ tx.pc = "both" /\ tx' = [tx EXCEPT !.pc = "overviewCount", !.summed = PublicList]
      \/ tx.pc = "overviewTvl" /\ tx' = [tx EXCEPT !.pc = "shown", !.summed = PublicList]
  BY <1>1 DEF GetVaultsCount, GetTvl, Answer, Overview, PublicList, Tx
<1> HIDE DEF n
<1>5. /\ tx' \in Tx /\ tx'.pc \in {"overviewTvl", "overviewCount", "shown"}
      /\ tx'.page = tx.page /\ tx'.view = tx.view
  BY <1>1, <1>2, <1>4 DEF Tx
<1>6. tx'.quiet <=> tx.quiet
  BY <1>1, <1>4 DEF Tx
<1>7. /\ tx'.pc \in {"overviewTvl", "shown"} /\ tx.quiet => tx'.total = n
      /\ tx'.pc \in {"overviewCount", "shown"} /\ tx.quiet => tx'.summed = PublicList
  BY <1>1, <1>2, <1>4 DEF Tx, OverviewOK, n
<1>8. PageOK'
  BY <1>1, <1>3, <1>5, <1>6 DEF PageOK
<1>9. PublicList' = PublicList /\ Overview' = Overview /\ BaseQuery("public")' = PublicList
  BY <1>3, SameQueries, PublicQuery
<1>10. OverviewOK'
  BY <1>5, <1>6, <1>7, <1>9 DEF OverviewOK, n
<1>11. OverviewMatchesList'
  BY <1>2, <1>5, <1>6, <1>7, <1>9 DEF OverviewMatchesList
<1>12. CountOK' /\ Promises'
  BY <1>5, <1>11 DEF CountOK, Promises, ListedVaultsAreFound, QuietCountAndPageAgree,
                     DisconnectedGroupedAtEnd
<1>13. QED
  BY <1>3, <1>5, <1>8, <1>10, <1>12, ReadKeeps

-----------------------------------------------------------------------------
\* The invariant is inductive.
LEMMA NextIInv == IInv /\ [Next]_vars => IInv'
<1>1. SUFFICES ASSUME IInv, [Next]_vars PROVE IInv'
  OBVIOUS
<1>2. CASE UNCHANGED vars
  <2>1. UNCHANGED <<table, reports, tx>>
    BY <1>2 DEF vars
  <2>2. DisconnectedGroupedAtEnd'
    <3>1. DisconnectedGroupedAtEnd
      BY <1>1 DEF IInv, Promises
    <3>2. \A view : BaseQuery(view)' = BaseQuery(view)
      BY <2>1, SameQueries
    <3>3. QED
      BY <2>1, <3>1, <3>2, Zenon DEF DisconnectedGroupedAtEnd, PlaceOf
  <2>3. QED
    BY <1>1, <2>1, <2>2 DEF IInv, TypeOK, TableOK, PageOK, CountOK, OverviewOK, Promises,
       ListedVaultsAreFound, OverviewMatchesList, QuietCountAndPageAgree, Expected,
       BaseQuery, Selected, Finds, PublicList, Overview
<1>3. CASE \E view \in Views, d \in Directions, l \in Limits, o \in Offsets : GetVaults(view, d, l, o)
  BY <1>1, <1>3, BeginKeeps DEF GetVaults
<1>4. CASE GetVaultsOverview
  <2>1. Idle.view \in Views /\ Idle.direction \in Directions /\ Idle.limit \in Limits /\ Idle.offset \in Offsets
    BY IdleIsTx DEF Tx
  <2>2. QED
    BY <1>1, <1>4, <2>1, BeginKeeps DEF GetVaultsOverview
<1>5. QED
  BY <1>1, <1>2, <1>3, <1>4, WritersKeep, CountKeeps, PageKeeps, OpenKeeps, OverviewKeeps DEF Next

\* The specification keeps the invariant.
THEOREM ListingInvariance == Spec => []IInv
BY InitIInv, NextIInv, PTL DEF Spec

\* Types of the joined tables and of the requests.
THEOREM ListingTypeCorrect == Spec => []TypeOK
<1>1. IInv => TypeOK
  BY DEF IInv
<1>2. QED
  BY <1>1, ListingInvariance, PTL

\* A vault someone was shown on a page is found by its address ever after.
THEOREM ListedVaultsStayFound == Spec => []ListedVaultsAreFound
<1>1. IInv => ListedVaultsAreFound
  BY DEF IInv, Promises
<1>2. QED
  BY <1>1, ListingInvariance, PTL

\* Without a write in between, the two statements of the overview sum the public list.
THEOREM OverviewIsOfTheList == Spec => []OverviewMatchesList
<1>1. IInv => OverviewMatchesList
  BY DEF IInv, Promises
<1>2. QED
  BY <1>1, ListingInvariance, PTL

\* The total of a quiet request is the length of the list its page is cut from.
THEOREM CountAndPageAgree == Spec => []QuietCountAndPageAgree
<1>1. IInv => QuietCountAndPageAgree
  BY DEF IInv, Promises
<1>2. QED
  BY <1>1, ListingInvariance, PTL

\* Every vault of a quiet page has its place: the groups in the opposite direction, and
\* within a group the vaults without a value last.
THEOREM PagesAreGrouped == Spec => []DisconnectedGroupedAtEnd
<1>1. IInv => DisconnectedGroupedAtEnd
  BY DEF IInv, Promises
<1>2. QED
  BY <1>1, ListingInvariance, PTL
=============================================================================
