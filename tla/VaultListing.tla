----------------------------- MODULE VaultListing -----------------------------
(***************************************************************************)
(* GET /v1/vaults, GET /v1/vaults/:vaultAddress and GET                    *)
(* /v1/vaults/overview while the worker writes.                            *)
(* getVaultsWithRoleAndSortingAndReportData reads the last report, the     *)
(* count and one page by three statements of one transaction; the overview *)
(* sends two statements at once.  No isolation level is set anywhere in    *)
(* the repository, so every statement sees what is committed when it       *)
(* starts (READ COMMITTED, Postgres' default).                             *)
(***************************************************************************)
EXTENDS Naturals, Sequences, FiniteSets

CONSTANTS
  Vaults,
  Values,     \* values of the sort column
  Null,       \* SQL NULL
  Limits,     \* limits a request may ask for; 0 is left to TypeORM
  Offsets,    \* offsets a request may ask for
  MaxReports  \* bound: reports imported

ASSUME ListingAssumption ==
  /\ IsFiniteSet(Vaults)
  /\ Values \subseteq Nat
  /\ Null \notin Nat
  /\ Limits \subseteq Nat \ {0} /\ Offsets \subseteq Nat /\ Limits # {} /\ Offsets # {}
  /\ MaxReports \in Nat

VARIABLES
  table,    \* vaults joined with vault_states
  reports,  \* number of the last report, 0: none
  tx        \* the request in progress, or the last answer

vars == <<table, reports, tx>>

\* How the address of the request relates to the vault: it may be the effective owner,
\* or hold the role asked for (an admin of the Dashboard whose recorded members are
\* current), which also counts without naming the role.
Relations == {"stranger", "owner", "member"}

Row == [
  exists       : BOOLEAN,
  joined       : BOOLEAN,              \* has a vault_states row (inner join)
  disconnected : BOOLEAN,              \* is_disconnected
  value        : Values \cup {Null},   \* column to sort by
  relation     : Relations]

NoRow(relation) ==
  [exists |-> FALSE, joined |-> FALSE, disconnected |-> FALSE, value |-> Null, relation |-> relation]

\* The filters a request can combine; a role without an address is refused.
Views == {"public", "address", "role"}
Directions == {"ASC", "DESC"}

Tx == [
  pc        : {"meta", "count", "page", "listed", "opened",
               "both", "overviewCount", "overviewTvl", "shown"},
  view      : Views,
  direction : Directions,
  limit     : Limits,
  offset    : Offsets,
  lastReport: Nat,
  total     : Nat,
  page      : Seq(Vaults),
  opened    : Vaults \cup {Null},      \* the vault asked for by its address
  found     : {"none", "refused", "connected", "disconnected"},
  summed    : SUBSET Vaults,           \* the vaults in the TVL of the overview
  quiet     : BOOLEAN]                 \* history: nothing written since it began

(***************************************************************************)
(* Writers: one statement of the worker each.                              *)
(***************************************************************************)
Idle == [pc |-> "shown", view |-> "public", direction |-> "DESC",
         limit |-> CHOOSE l \in Limits : TRUE, offset |-> CHOOSE o \in Offsets : TRUE,
         lastReport |-> 0, total |-> 0, page |-> << >>, opened |-> Null, found |-> "none",
         summed |-> {}, quiet |-> FALSE]

Answers == {"listed", "opened", "shown"}

\* A write overtakes a request in progress; of an answer already given, the reader
\* keeps the page.
Overtaken ==
  tx' = CASE tx.pc = "listed" -> [Idle EXCEPT !.pc = "listed", !.page = tx.page]
          [] tx.pc \in Answers \ {"listed"} -> Idle
          [] OTHER -> [tx EXCEPT !.quiet = FALSE]

CreateVault(v, disconnected) ==
  /\ ~table[v].exists
  /\ table' = [table EXCEPT ![v].exists = TRUE, ![v].disconnected = disconnected]
  /\ Overtaken
  /\ UNCHANGED reports

\* The first state of a vault makes the join find it; a later one, or metrics, change
\* the column.
AddOrUpdateState(v, value) ==
  /\ table[v].exists
  /\ table' = [table EXCEPT ![v].joined = TRUE, ![v].value = value]
  /\ Overtaken
  /\ UNCHANGED reports

\* connectVault and disconnectVault.
SetDisconnected(v, flag) ==
  /\ table[v].exists
  /\ table' = [table EXCEPT ![v].disconnected = flag]
  /\ Overtaken
  /\ UNCHANGED reports

\* Owner or members change who finds the vault.
SetOwnership(v, relation) ==
  /\ table' = [table EXCEPT ![v].relation = relation]
  /\ Overtaken
  /\ UNCHANGED reports

SaveReport ==
  /\ reports < MaxReports
  /\ reports' = reports + 1
  /\ Overtaken
  /\ UNCHANGED table

(***************************************************************************)
(* The listing.                                                            *)
(***************************************************************************)
\* The member filter of buildVaultsBaseQuery.
Finds(view, relation) ==
  CASE view = "public" -> TRUE
    [] view = "address" -> relation # "stranger"
    [] view = "role" -> relation = "member"

\* The joins of buildVaultsBaseQuery: a vault without a state is not selected.
Selected(includeDisconnected) ==
  {v \in Vaults : table[v].joined /\ (includeDisconnected \/ ~table[v].disconnected)}

\* A personal view includes disconnected vaults.
BaseQuery(view) == {v \in Selected(view # "public") : Finds(view, table[v].relation)}

\* ORDER BY sortBy direction NULLS LAST.
ValueBefore(x, y, direction) ==
  /\ x # Null
  /\ y # Null => IF direction = "ASC" THEN x < y ELSE x > y

\* Mutant: isDisconnected is sorted in the direction of sortBy.
BeforeSameDirection(v, w, direction) ==
  \/ table[v].disconnected # table[w].disconnected
     /\ table[v].disconnected = (direction = "DESC")
  \/ table[v].disconnected = table[w].disconnected
     /\ ValueBefore(table[v].value, table[w].value, direction)

\* ORDER BY isDisconnected in the opposite direction, then sortBy.
Before(v, w, direction) ==
  \/ table[v].disconnected # table[w].disconnected
     /\ table[v].disconnected = (direction = "ASC")
  \/ table[v].disconnected = table[w].disconnected
     /\ ValueBefore(table[v].value, table[w].value, direction)

\* The sorted results: rows that compare equal come in any order.
Sorted(S, direction) ==
  {o \in [1..Cardinality(S) -> S] :
     \A i, j \in 1..Cardinality(S) :
        i < j => o[i] # o[j] /\ ~Before(o[j], o[i], direction)}

\* LIMIT and OFFSET.
Slice(o, offset, limit) == SubSeq(o, offset + 1,
                                  IF offset + limit < Len(o) THEN offset + limit ELSE Len(o))

Begin(pc, view, direction, limit, offset) ==
  /\ tx.pc \in Answers
  /\ tx' = [Idle EXCEPT !.pc = pc, !.view = view, !.direction = direction, !.limit = limit,
                        !.offset = offset, !.quiet = TRUE]
  /\ UNCHANGED <<table, reports>>

GetVaults(view, direction, limit, offset) == Begin("meta", view, direction, limit, offset)

Answer(newTx) == tx' = newTx /\ UNCHANGED <<table, reports>>

ReadLastReportMeta ==
  /\ tx.pc = "meta"
  /\ Answer([tx EXCEPT !.pc = "count", !.lastReport = reports])

ReadCount ==
  /\ tx.pc = "count"
  /\ Answer([tx EXCEPT !.pc = "page", !.total = Cardinality(BaseQuery(tx.view))])

ReadPage ==
  /\ tx.pc = "page"
  /\ \E o \in Sorted(BaseQuery(tx.view), tx.direction) :
       Answer([tx EXCEPT !.pc = "listed", !.page = Slice(o, tx.offset, tx.limit)])

(***************************************************************************)
(* One vault by its address, in one statement.                             *)
(***************************************************************************)
\* Mutant: as in the public list, connected vaults only.
GetVaultDataConnected(v) ==
  CASE v \notin Selected(FALSE) -> "refused"
    [] table[v].disconnected -> "disconnected"
    [] OTHER -> "connected"

\* Disconnected vaults are served, flagged; a vault without a row or without a state is
\* "not found".
GetVaultData(v) ==
  CASE v \notin Selected(TRUE) -> "refused"
    [] table[v].disconnected -> "disconnected"
    [] OTHER -> "connected"

GetVaultByAddress(v) ==
  /\ tx.pc \in Answers
  /\ Answer([Idle EXCEPT !.pc = "opened", !.page = tx.page, !.view = tx.view, !.quiet = tx.quiet,
                         !.opened = v, !.found = GetVaultData(v)])

(***************************************************************************)
(* The overview: two statements at once, on connections of their own.      *)
(***************************************************************************)
GetVaultsOverview == Begin("both", Idle.view, Idle.direction, Idle.limit, Idle.offset)

GetVaultsCount ==
  /\ tx.pc \in {"both", "overviewCount"}
  /\ Answer([tx EXCEPT !.pc = IF @ = "both" THEN "overviewTvl" ELSE "shown",
                       !.total = Cardinality({v \in Vaults : table[v].exists /\ ~table[v].disconnected})])

GetTvl ==
  /\ tx.pc \in {"both", "overviewTvl"}
  /\ Answer([tx EXCEPT !.pc = IF @ = "both" THEN "overviewCount" ELSE "shown",
                       !.summed = {v \in Vaults : table[v].joined /\ ~table[v].disconnected}])

Init ==
  /\ table \in [Vaults -> {NoRow(r) : r \in Relations}]
  /\ reports = 0
  /\ tx = Idle

Next ==
  \/ \E v \in Vaults, value \in Values \cup {Null} : AddOrUpdateState(v, value)
  \/ \E v \in Vaults, b \in BOOLEAN : CreateVault(v, b) \/ SetDisconnected(v, b)
  \/ \E v \in Vaults, r \in Relations : SetOwnership(v, r)
  \/ SaveReport
  \/ \E view \in Views, d \in Directions, l \in Limits, o \in Offsets : GetVaults(view, d, l, o)
  \/ ReadLastReportMeta
  \/ ReadCount
  \/ ReadPage
  \/ \E v \in Vaults : GetVaultByAddress(v)
  \/ GetVaultsOverview
  \/ GetVaultsCount
  \/ GetTvl

Spec == Init /\ [][Next]_vars

(***************************************************************************)
(* Properties.                                                             *)
(***************************************************************************)
\* Type invariant of the tables and of the requests.
TypeOK ==
  /\ table \in [Vaults -> Row]
  /\ reports \in 0..MaxReports
  /\ tx \in Tx

\* Which vault is on the page at which place of the whole list.
PlaceOf(i) == tx.offset + i

\* A vault on the page has a place the comments of the query justify: with
\* DESC every connected vault of the list comes before a disconnected one
\* (with ASC after it), on this page or an earlier one, and within its group
\* every vault with a value comes before one without, in both directions.
DisconnectedGroupedAtEnd ==
  tx.pc = "listed" /\ tx.quiet =>
    LET S == BaseQuery(tx.view)
        Connected == {v \in S : ~table[v].disconnected}
        Left == S \ Connected
        First == IF tx.direction = "DESC" THEN Connected ELSE Left
    IN  \A i \in 1..Len(tx.page) :
          LET v == tx.page[i]
              group == IF table[v].disconnected THEN Left ELSE Connected
              ahead == IF v \in First THEN 0 ELSE Cardinality(First)
              filled == {w \in group : table[w].value # Null}
          IN  /\ ahead < PlaceOf(i) /\ PlaceOf(i) =< ahead + Cardinality(group)
              /\ table[v].value = Null => ahead + Cardinality(filled) < PlaceOf(i)

\* The rows a page of a list with this total must have.
Expected(total) ==
  IF total =< tx.offset THEN 0
  ELSE IF total - tx.offset < tx.limit THEN total - tx.offset ELSE tx.limit

\* Without a write in between, the total is the length of the list the page
\* is cut from, in the public and in the personal views.
QuietCountAndPageAgree == tx.pc = "listed" /\ tx.quiet => Len(tx.page) = Expected(tx.total)

\* A vault on a page someone has been given is served when it is opened by its address,
\* however long ago the page was read and whatever has been written since: the vault may
\* have left the protocol or the reader's roles, but it is never "not found".  Nothing
\* written in between, a vault of the public list is served as connected.
ListedVaultsAreFound ==
  tx.pc = "opened" /\ (\E i \in 1..Len(tx.page) : tx.page[i] = tx.opened) =>
    /\ tx.found # "refused"
    /\ tx.quiet /\ tx.view = "public" => tx.found = "connected"

\* Without a write in between, the overview sums exactly the vaults of the public list,
\* though the two filters are written separately, and counts every one of them (a
\* connected vault without a state is counted and neither listed nor summed).
OverviewMatchesList ==
  tx.pc = "shown" /\ tx.quiet =>
    tx.summed = BaseQuery("public") /\ Cardinality(tx.summed) <= tx.total
=============================================================================
