----------------------------- MODULE MetricsReads -----------------------------
(***************************************************************************)
(* The metrics of one vault as the API reads them: GET latest-metrics, GET *)
(* metrics-range and GET apr/sma of vaults-http.controller.ts, whose       *)
(* queries in vault-db.service.ts are separate statements without a        *)
(* transaction, and the moving average the listing computes in one         *)
(* statement (vault-db.queries.ts).  The worker calculates and stores rows *)
(* and a migration marks anomalies while a request is under way.           *)
(*                                                                         *)
(* A row of vault_report_stats is the timestamp of its current report;     *)
(* averaged columns are the set of rows that enter the average.            *)
(***************************************************************************)
EXTENDS FeeSnapshots

CONSTANTS
  Timestamps,    \* timestamps of the reports
  Rollout,       \* the last report that the previous image may have calculated
  Day,           \* SECONDS_PER_DAY
  Days,          \* VAULT_APR_SMA_DAYS
  Owners,        \* what hub and owner may answer at the block of a report
  Leaves,        \* the leaves of the vault
  MaxFee,        \* the fee from which on the net APR is an anomaly
  Bounds,        \* the numbers a range may be given by
  Absent,        \* undefined
  MAX_INT_32     \* the largest number accepted

\* Report timestamps are far beyond the first window.  Growth that is real is far from
\* the sentinel, and what is earned on it far from an anomaly.
ASSUME MetricsAssumption ==
  /\ Day \in Nat \ {0}
  /\ Days \in Nat \ {0}
  /\ Timestamps \subseteq {t \in Nat : t >= Days * Day} /\ Rollout \in Nat
  /\ Bounds \subseteq Nat /\ Absent \notin Nat
  /\ FeeBase \in Nat \ {0} /\ MaxFee \in Nat \ {0} /\ MAX_SANE_SETTLED_GROWTH \in Nat
  /\ \A owner \in Owners, leaf \in Leaves :
       LET s == NOFeeSnapshot(owner, leaf, TRUE)
           e == CalcNoEarnings(s)
       IN  \/ s = NoSnapshot
           \/ s.settledGrowth = MAX_SANE_SETTLED_GROWTH
           \/ e \in Int /\ -MaxFee < 2 * e /\ 2 * e < MaxFee

VARIABLES
  vault,    \* the vaults row exists
  rows,     \* current reports with statistics of the vault
  bad,      \* the rows with anomaly = true
  skewed,   \* the rows whose net or carry APR, as stored, is out of proportion
  migrated, \* MarkNetAndCarryAprAnomalies has run
  extreme,  \* history: the rows whose reports, without the fee, make an extreme APR,
  old,      \* and those still as the previous image calculated them
  req       \* the request in progress, or the last answer

vars == <<vault, rows, bad, skewed, migrated, extreme, old, req>>
tables == <<vault, rows, bad, skewed, migrated, extreme, old>>

Kinds == {"latest", "sma", "range"}

\* GetVaultStatsRangeQueryDto: each of the four may be missing.
RangeQuery == [fromBlock : Bounds \cup {Absent}, toBlock : Bounds \cup {Absent},
               fromTimestamp : Bounds \cup {Absent}, toTimestamp : Bounds \cup {Absent}]

NoQuery == [fromBlock |-> Absent, toBlock |-> Absent,
            fromTimestamp |-> Absent, toTimestamp |-> Absent]

Request == [
  kind     : Kinds,
  pc       : {"exists", "newest", "valid", "range", "query", "done"},
  query    : RangeQuery,
  newest   : Nat,              \* timestamp of the newest row read, 0: none
  newestBad: BOOLEAN,          \* its anomaly flag
  to       : Nat,              \* timestamp of the newest valid row read, 0: none
  answer   : {"none", "null", "zero", "refused", "data"},
  outdated : BOOLEAN,
  points   : SUBSET Timestamps,  \* rows averaged or served
  rows0    : SUBSET Timestamps,  \* history: the rows when the request began,
  stable   : SUBSET Timestamps,  \* those valid ever since,
  tainted  : SUBSET Timestamps,  \* those anomalous ever since,
  quiet    : BOOLEAN]            \* and whether nothing was written since

NewRequest(k) ==
  [kind |-> k, pc |-> "exists", query |-> NoQuery, newest |-> 0, newestBad |-> FALSE, to |-> 0,
   answer |-> "none", outdated |-> FALSE, points |-> {},
   rows0 |-> rows, stable |-> rows \ bad, tainted |-> bad, quiet |-> TRUE]

(***************************************************************************)
(* Queries.                                                                *)
(***************************************************************************)
Valid == rows \ bad

\* ORDER BY timestamp DESC, first row.
Newest(S) == IF S = {} THEN 0 ELSE CHOOSE t \in S : \A u \in S : u =< t

\* The block of a report: an increasing function of its timestamp, external.
BlockOf(t) == 2 * t

Between(x, lo, hi) == lo =< x /\ x =< hi

\* getVaultReportStatsInRange: a range with one end only is no filter.
InRange(q) ==
  {t \in rows :
     /\ q.fromBlock # Absent /\ q.toBlock # Absent => Between(BlockOf(t), q.fromBlock, q.toBlock)
     /\ q.fromTimestamp # Absent /\ q.toTimestamp # Absent =>
          Between(t, q.fromTimestamp, q.toTimestamp)}

\* Mutant: a window of one day too many.
FromTimestampWide(to) == LET t == to - Days * Day IN t - (t % Day)

\* Start of the window of the endpoint, rounded down to 00:00 UTC.
FromTimestamp(to) == LET t == to - (Days - 1) * Day IN t - (t % Day)

\* The rows of the window; the block range is undefined.
Window(to) ==
  InRange([NoQuery EXCEPT !.fromTimestamp = FromTimestamp(to), !.toTimestamp = to])

\* Mutant: the window is not rounded to midnight.
ListingSmaUnrounded ==
  {t \in Valid : Newest(Valid) - (Days - 1) * Day =< t}

\* The rows averaged by the apr_sma join of the listing.
ListingSma ==
  LET latestTs == Newest(Valid)
      start    == latestTs - (Days - 1) * Day
  IN  {t \in Valid : start - (start % Day) =< t /\ t =< latestTs}

(***************************************************************************)
(* Writers.                                                                *)
(***************************************************************************)
CreateVault ==
  ~vault /\ vault' = TRUE /\ UNCHANGED <<rows, bad, skewed, migrated, extreme, old, req>>

\* History of a write, for a request it overtakes.
Overtakes ==
  req' = IF req.pc = "done" THEN [req EXCEPT !.quiet = FALSE]
         ELSE [req EXCEPT !.stable = @ \ bad', !.tainted = @ \cap bad', !.quiet = FALSE]

\* The anomaly of a row: the APRs of its reports, or the fee, are out of proportion.
Anomaly(extremeReports, fee) == extremeReports \/ fee >= MaxFee

With(S, t, member) == IF member THEN S \cup {t} ELSE S \ {t}

\* A task of calculateForVaultsBasedPrevReport: without both snapshots the vault is
\* skipped.  Reports are calculated in any order, and again.  An extreme gross APR is
\* counted as an extreme net APR: the row is flagged for either.
AddOrUpdateReportStats(t, curr, prev, extremeReports) ==
  LET anomaly == Anomaly(extremeReports, NodeOperatorRewards(curr, prev))
  IN  /\ vault /\ curr # NoSnapshot /\ prev # NoSnapshot
      /\ rows' = rows \cup {t}
      /\ bad' = With(bad, t, anomaly)
      /\ skewed' = With(skewed, t, anomaly)
      /\ extreme' = With(extreme, t, extremeReports)
      /\ old' = old \ {t}
      /\ Overtakes
      /\ UNCHANGED <<vault, migrated>>

\* The UPDATE of the migration, by the net and carry APR as they are stored.  It may be
\* repeated (Startup).
MarkNetAndCarryAprAnomalies ==
  /\ bad' = bad \cup skewed
  /\ migrated' = TRUE
  /\ Overtakes
  /\ UNCHANGED <<vault, rows, skewed, extreme, old>>

(***************************************************************************)
(* Requests, one statement per step.                                       *)
(***************************************************************************)
Get(k) == req.pc = "done" /\ req' = NewRequest(k) /\ UNCHANGED tables

\* Mutant: a range needs one end only.
IsValidRangeHalf(q) ==
  LET hasBlockRange == q.fromBlock # Absent \/ q.toBlock # Absent
      hasTimestampRange == q.fromTimestamp # Absent \/ q.toTimestamp # Absent
  IN  /\ hasBlockRange # hasTimestampRange
      /\ q.fromBlock # Absent /\ q.toBlock # Absent => q.fromBlock <= q.toBlock
      /\ q.fromTimestamp # Absent /\ q.toTimestamp # Absent => q.fromTimestamp <= q.toTimestamp

\* isValidRangeQuery: one complete range, of blocks or of timestamps.
IsValidRange(q) ==
  LET hasBlockRange == q.fromBlock # Absent \/ q.toBlock # Absent
      hasTimestampRange == q.fromTimestamp # Absent \/ q.toTimestamp # Absent
  IN  /\ hasBlockRange # hasTimestampRange
      /\ hasBlockRange => q.fromBlock # Absent /\ q.toBlock # Absent /\ q.fromBlock <= q.toBlock
      /\ hasTimestampRange => /\ q.fromTimestamp # Absent /\ q.toTimestamp # Absent
                              /\ q.fromTimestamp <= q.toTimestamp

\* @Max of every number given; the whole query is refused otherwise.
ValidQuery(q) ==
  IsValidRange(q) /\ \A f \in DOMAIN q : q[f] # Absent => q[f] <= MAX_INT_32

GetRange(q) ==
  /\ req.pc = "done"
  /\ req' = IF ValidQuery(q)
              THEN [NewRequest("range") EXCEPT !.pc = "query", !.query = q]
              ELSE [NewRequest("range") EXCEPT !.pc = "done", !.answer = "refused"]
  /\ UNCHANGED tables

\* getVaultStatsRangeByAddress: one query, by blocks if there is a first block.  A vault
\* that is not known has no rows; anomalies are served too.
GetVaultStatsRangeByAddress ==
  /\ req.pc = "query"
  /\ LET q == IF req.query.fromBlock # Absent
                THEN [NoQuery EXCEPT !.fromBlock = req.query.fromBlock, !.toBlock = req.query.toBlock]
                ELSE [NoQuery EXCEPT !.fromTimestamp = req.query.fromTimestamp,
                                     !.toTimestamp = req.query.toTimestamp]
     IN  req' = [req EXCEPT !.pc = "done", !.answer = "data", !.points = InRange(q)]
  /\ UNCHANGED tables

\* existsVaultByAddress.
ReadExists ==
  /\ req.pc = "exists"
  /\ req' = IF vault THEN [req EXCEPT !.pc = "newest"]
                     ELSE [req EXCEPT !.pc = "done", !.answer = "null"]
  /\ UNCHANGED tables

\* The newest row, valid or not; the moving average is zero without one.
ReadNewest ==
  /\ req.pc = "newest"
  /\ LET n == Newest(rows)
     IN  req' = IF req.kind = "sma" /\ n = 0
                  THEN [req EXCEPT !.pc = "done", !.answer = "zero"]
                  ELSE [req EXCEPT !.pc = "valid", !.newest = n, !.newestBad = (n \in bad)]
  /\ UNCHANGED tables

\* Mutant: outdated only when there is nothing to serve.
ReadValidLatestUnflagged ==
  /\ req.pc = "valid" /\ req.kind = "latest"
  /\ LET n == Newest(Valid)
     IN  req' = [req EXCEPT !.pc = "done", !.to = n, !.outdated = (n = 0),
                   !.answer = IF n = 0 THEN "zero" ELSE "data",
                   !.points = IF n = 0 THEN {} ELSE {n}]
  /\ UNCHANGED tables

\* getLatestVaultReportStats: the newest valid row is served, outdated when
\* the newest row was an anomaly.
ReadValidLatest ==
  /\ req.pc = "valid" /\ req.kind = "latest"
  /\ LET n == Newest(Valid)
     IN  req' = [req EXCEPT !.pc = "done", !.to = n, !.outdated = req.newestBad,
                   !.answer = IF n = 0 THEN "zero" ELSE "data",
                   !.points = IF n = 0 THEN {} ELSE {n}]
  /\ UNCHANGED tables

\* getVaultAprSmaForDays: the window ends at the newest valid row.
ReadValidSma ==
  /\ req.pc = "valid" /\ req.kind = "sma"
  /\ LET n == Newest(Valid)
     IN  req' = IF n = 0
                  THEN [req EXCEPT !.pc = "done", !.answer = "zero", !.outdated = TRUE]
                  ELSE [req EXCEPT !.pc = "range", !.to = n]
  /\ UNCHANGED tables

\* Mutant: outdated by the flag of the newest row, as in latest-metrics.
ReadRangeFlagged ==
  /\ req.pc = "range"
  /\ LET points == Window(req.to) \ bad
     IN  req' = [req EXCEPT !.pc = "done", !.outdated = req.newestBad,
                   !.answer = IF points = {} THEN "zero" ELSE "data",
                   !.points = points]
  /\ UNCHANGED tables

\* The rows of the window, anomalies left out.
ReadRange ==
  /\ req.pc = "range"
  /\ LET points == Window(req.to) \ bad
     IN  req' = [req EXCEPT !.pc = "done", !.outdated = (req.newest # req.to),
                   !.answer = IF points = {} THEN "zero" ELSE "data",
                   !.points = points]
  /\ UNCHANGED tables

\* The snapshots of two reports: through Multicall3 or, on a network without it, none.
Snapshots ==
  {NOFeeSnapshot(owner, leaf, m) : owner \in Owners, leaf \in Leaves, m \in BOOLEAN}

\* The previous image has stored some rows.  It looked at the gross APR only, so that rows
\* whose fee it had priced by the sentinel are not flagged.
Init ==
  /\ rows \in SUBSET {t \in Timestamps : t <= Rollout}
  /\ vault = (rows # {})
  /\ bad \in SUBSET rows /\ skewed \in SUBSET rows
  /\ migrated = FALSE
  /\ extreme = {} /\ old = rows
  /\ req = [NewRequest("sma") EXCEPT !.pc = "done"]

Next ==
  \/ CreateVault
  \/ \E t \in Timestamps, e \in BOOLEAN, curr, prev \in Snapshots :
       AddOrUpdateReportStats(t, curr, prev, e)
  \/ MarkNetAndCarryAprAnomalies
  \/ \E k \in {"latest", "sma"} : Get(k)
  \/ \E q \in RangeQuery : GetRange(q)
  \/ GetVaultStatsRangeByAddress
  \/ ReadExists
  \/ ReadNewest
  \/ ReadValidLatest
  \/ ReadValidSma
  \/ ReadRange

Spec == Init /\ [][Next]_vars

(***************************************************************************)
(* Properties.                                                             *)
(***************************************************************************)
\* Type invariant of the table and of the request.
TypeOK ==
  /\ vault \in BOOLEAN
  /\ rows \subseteq Timestamps
  /\ bad \subseteq rows /\ skewed \subseteq rows /\ extreme \subseteq rows /\ old \subseteq rows
  /\ migrated \in BOOLEAN
  /\ req \in Request

Answered(k) == req.pc = "done" /\ req.kind = k /\ req.answer = "data"

\* Only what is not an anomaly is averaged, from the Days calendar days that
\* end with the newest valid row, and nothing that was valid in those days
\* all through the request is missing, although the window and its rows are
\* read by different statements (getVaultAprSmaForDays).
SmaCoversItsDays ==
  Answered("sma") =>
    LET window == {t \in Timestamps : t =< req.to /\ t \div Day + Days > req.to \div Day}
    IN  /\ req.points \subseteq window
        /\ window \cap req.stable \subseteq req.points
        /\ req.points \cap req.tainted = {}

\* An average that does not say "outdated" ends at the newest row that was
\* stored when the request began, or later; anomalies count as rows.
FreshSmaIsNewest ==
  Answered("sma") /\ ~req.outdated => \A t \in req.rows0 : t =< req.to

\* Metrics that do not say "outdated" are of the newest row stored when the
\* request began, or of a newer one, unless its anomaly flag changed
\* meanwhile or a newer anomaly came in after it
\* (getLatestVaultReportStats reads flag and metrics by two statements).
FreshLatestIsNewest ==
  Answered("latest") /\ ~req.outdated =>
    \A n \in req.stable \cup {t \in req.tainted : t = Newest(rows)} : n =< req.to

\* A range never shows a row outside of any end the request gave, and shows every row
\* inside that was there when the request began, anomalies included.  Three places must
\* agree on which of the two ranges counts: the validator, which refuses half a range, the
\* controller, which passes one on, and the query, which drops the filter of half a range.
RangeIsWhatWasAsked ==
  Answered("range") =>
    LET Asked(t) ==
          /\ req.query.fromBlock # Absent => BlockOf(t) >= req.query.fromBlock
          /\ req.query.toBlock # Absent => BlockOf(t) <= req.query.toBlock
          /\ req.query.fromTimestamp # Absent => t >= req.query.fromTimestamp
          /\ req.query.toTimestamp # Absent => t <= req.query.toTimestamp
    IN  /\ \A t \in req.points : Asked(t)
        /\ \A t \in req.rows0 : Asked(t) => t \in req.points

\* A row calculated by this image is an anomaly for what its reports say, never because the
\* accrual of the node operator's fee was stopped before, in or after the period: the
\* sentinel that the Dashboard parks in settledGrowth is not priced as growth, whichever end
\* shows it.  The rows for which the previous image did price it are flagged from the
\* migration on, until they are calculated again, so that no average or latest metrics
\* come from a net or carry APR out of proportion.
AnomaliesAreOfTheReports ==
  /\ bad \subseteq extreme \cup old
  /\ migrated => skewed \subseteq bad

\* The average of the endpoint and the one of the listing are taken over the
\* same rows when nothing is written in between.
SmaAgreesWithListing ==
  Answered("sma") /\ req.quiet => req.points = ListingSma
=============================================================================
