----------------------------- MODULE ReportSync -----------------------------
(***************************************************************************)
(* How the worker stores the oracle reports and derives the metrics of     *)
(* every pair of reports: the VaultsReportDataUpdated handler, the two     *)
(* halves of the reports cron (fetchAllReports, calculateVaultMetrics) and *)
(* the cold start-up calculation, all running concurrently                 *)
(* (src/src/report/report.service.ts, src/src/db/report-db/                *)
(* report-db.service.ts, src/src/jobs/report-jobs/report-jobs.service.ts). *)
(*                                                                         *)
(* Report n is the n-th report of the oracle: its previous report is n-1,  *)
(* its block number and its timestamp grow with n, and 0 is the missing    *)
(* CID.  One step is one database statement; leaves are upserted one at a  *)
(* time (LEAF_BATCH_SIZE is 1).                                            *)
(***************************************************************************)
EXTENDS Integers, FiniteSets

CONSTANTS
  Vaults,
  BlockLimit,  \* START_REPORT_BLOCK_NUMBER, as a report number; 0: not set
  BatchSize,   \* REPORT_BATCH_SIZE (100 in the code)
  ColdCid,     \* COLD_STARTUP_REPORTS_FROM_CID; 0: not set
  MaxReports,  \* bound: number of reports the oracle publishes
  MaxHandlers, \* bound: number of event handlers in flight at a time
  MaxFaults    \* bound: number of failures in a run

ASSUME ReportAssumption ==
  /\ BlockLimit \in Int /\ BatchSize \in Nat \ {0} /\ ColdCid \in Nat
  /\ MaxReports \in Nat /\ MaxHandlers \in Nat /\ MaxFaults \in Nat

Reports == 1..MaxReports
Cids == 0..MaxReports

VARIABLES
  published,  \* number of reports on chain
  contents,   \* the vaults each published report has a leaf for
  reports,    \* the reports table
  leaves,     \* the report_leaves table: <<report, vault>>
  stats,      \* the vault_report_stats table: <<previous, current, vault>>
  nullFees,   \* noFeeSnapshotCache entries that hold null: <<vault, report>>
  fetch,      \* the flight of fetchAllReports
  metrics,    \* the flight of calculateVaultMetrics
  handlers,   \* VaultsReportDataUpdated handlers in flight
  delivered,  \* events handed to a handler, or that no handler will ever see
  coldDone,   \* has this process started its cold start-up calculation?
  faults      \* failures so far

oracleVars == <<published, contents>>
tables == <<reports, leaves, stats>>
process == <<nullFees, delivered, coldDone, faults>>
vars == <<oracleVars, tables, fetch, metrics, handlers, process>>

\* todo: the leaves still to be stored.
Fetch == [pc : {"idle", "exists", "save", "insert", "leaves"},
          cid : Cids, count : Nat, todo : SUBSET Vaults]

\* todo: the vaults whose task of the current pair has not finished.
Metrics == [pc : {"idle", "batch", "item", "exists", "calc"}, from : Nat, skip : Nat,
            batch : SUBSET Reports, current : Cids, currentLeaves : SUBSET Vaults,
            previous : Cids, previousLeaves : SUBSET Vaults,
            todo : SUBSET Vaults, tail : BOOLEAN]

Handler == [cid : Reports, pc : {"save", "insert", "leaves", "previous", "pair", "calc"},
            todo : SUBSET Vaults]

IdleFetch == [pc |-> "idle", cid |-> 0, count |-> 0, todo |-> {}]

NewMetrics(pc, from) ==
  [pc |-> pc, from |-> from, skip |-> 0, batch |-> {}, current |-> 0, currentLeaves |-> {},
   previous |-> 0, previousLeaves |-> {}, todo |-> {}, tail |-> FALSE]
IdleMetrics == NewMetrics("idle", 0)

TypeOK ==
  /\ published \in Cids
  /\ contents \in [Reports -> SUBSET Vaults]
  /\ reports \subseteq 1..published
  /\ leaves \subseteq Reports \X Vaults
  /\ stats \subseteq Reports \X Reports \X Vaults
  /\ nullFees \subseteq Vaults \X Reports
  /\ fetch \in Fetch /\ fetch.cid <= published
  /\ fetch.pc # "idle" => fetch.cid # 0
  /\ metrics \in Metrics
  /\ handlers \subseteq Handler
  /\ delivered \subseteq 1..published
  /\ coldDone \in BOOLEAN
  /\ faults \in 0..MaxFaults

Init ==
  /\ published = 0 /\ contents = [r \in Reports |-> {}]
  /\ reports = {} /\ leaves = {} /\ stats = {} /\ nullFees = {}
  /\ fetch = IdleFetch /\ metrics = IdleMetrics /\ handlers = {}
  /\ delivered = {} /\ coldDone = FALSE /\ faults = 0

-----------------------------------------------------------------------------
\* The oracle publishes a report for the vaults V.
Publish(V) ==
  /\ published < MaxReports
  /\ published' = published + 1
  /\ contents' = [contents EXCEPT ![published + 1] = V]
  /\ UNCHANGED <<tables, fetch, metrics, handlers, process>>

LeavesByReport(r) == {v \in Vaults : <<r, v>> \in leaves}

-----------------------------------------------------------------------------
\* fetchAllReports: from the latest report back to the first one in the database.

ReportCronTick ==
  /\ fetch.pc = "idle" /\ published > 0
  /\ fetch' = [IdleFetch EXCEPT !.pc = "exists", !.cid = published]
  /\ UNCHANGED <<oracleVars, tables, metrics, handlers, process>>

\* The cron goes on to calculateVaultMetrics, or joins it if it is running.
FetchReturns ==
  /\ fetch' = IdleFetch
  /\ metrics' = IF metrics.pc = "idle" THEN NewMetrics("batch", 0) ELSE metrics

FetchTo(pc, todo) == fetch' = [fetch EXCEPT !.pc = pc, !.todo = todo] /\ UNCHANGED metrics

\* Mutant: any stored report counts as the tail.
FetchExistsAny ==
  /\ fetch.pc = "exists"
  /\ IF reports # {} THEN FetchReturns ELSE FetchTo("save", {})
  /\ UNCHANGED <<oracleVars, tables, handlers, process>>

FetchExists ==
  /\ fetch.pc = "exists"
  /\ IF fetch.cid \in reports THEN FetchReturns ELSE FetchTo("save", {})
  /\ UNCHANGED <<oracleVars, tables, handlers, process>>

\* saveReport looks again: the download from IPFS took a while.
FetchSave ==
  /\ fetch.pc = "save"
  /\ IF fetch.cid \in reports THEN FetchTo("leaves", contents[fetch.cid]) ELSE FetchTo("insert", {})
  /\ UNCHANGED <<oracleVars, tables, handlers, process>>

\* The CID is unique: if the handler stored the report meanwhile the INSERT throws,
\* and the run returns.
FetchInsert ==
  /\ fetch.pc = "insert"
  /\ reports' = reports \cup {fetch.cid}
  /\ IF fetch.cid \in reports THEN FetchReturns ELSE FetchTo("leaves", contents[fetch.cid])
  /\ UNCHANGED <<oracleVars, leaves, stats, handlers, process>>

FetchLeaf(v) ==
  /\ fetch.pc = "leaves" /\ v \in fetch.todo
  /\ leaves' = leaves \cup {<<fetch.cid, v>>}
  /\ FetchTo("leaves", fetch.todo \ {v})
  /\ UNCHANGED <<oracleVars, reports, stats, handlers, process>>

FetchStops == \/ BlockLimit < 1 /\ fetch.count + 1 >= 2
              \/ BlockLimit > fetch.cid

FetchNext ==
  /\ fetch.pc = "leaves" /\ fetch.todo = {}
  /\ IF FetchStops \/ fetch.cid = 1 THEN FetchReturns
     ELSE /\ fetch' = [fetch EXCEPT !.pc = "exists", !.cid = @ - 1, !.count = @ + 1]
          /\ UNCHANGED metrics
  /\ UNCHANGED <<oracleVars, tables, handlers, process>>

-----------------------------------------------------------------------------
\* calculateForVaultsBasedPrevReport: one task per vault with a leaf in both reports.

\* Mutant: the vault need not have a leaf in the current report.
TaskVaultsOfPrevious(currentLeaves, previousLeaves) == previousLeaves

TaskVaults(currentLeaves, previousLeaves) == currentLeaves \cap previousLeaves

\* A task stores the metrics unless a fee snapshot it needs is null; for a pair of
\* equal reports the library may refuse the empty period.
FeesKnown(previous, current, v) == <<v, previous>> \notin nullFees /\ <<v, current>> \notin nullFees

TaskEnds(previous, current, v) ==
  \/ FeesKnown(previous, current, v) /\ stats' = stats \cup {<<previous, current, v>>}
  \/ (~FeesKnown(previous, current, v) \/ previous = current) /\ UNCHANGED stats

-----------------------------------------------------------------------------
\* calculateVaultMetrics: pairs of neighbours in the reports table, newest first.

\* The reports a page is cut from.
Listed == IF metrics.from = 0 THEN reports ELSE {r \in reports : r <= metrics.from}

\* ORDER BY timestamp DESC OFFSET skip LIMIT BatchSize
Page == {r \in Listed : LET newer == Cardinality({q \in Listed : q > r})
                        IN  metrics.skip <= newer /\ newer < metrics.skip + BatchSize}

\* The process starts its calculation from ColdCid, unless the cron's is running: both
\* have the same SingleFlight key, whatever their arguments.
ColdStart ==
  /\ ColdCid # 0 /\ ~coldDone
  /\ coldDone' = TRUE
  /\ metrics' = IF metrics.pc = "idle" THEN NewMetrics("batch", ColdCid) ELSE metrics
  /\ UNCHANGED <<oracleVars, tables, fetch, handlers, nullFees, delivered, faults>>

\* A cold start from a report that is not stored throws; an empty page ends the run.
MetricsBatch ==
  /\ metrics.pc = "batch"
  /\ metrics' = IF (metrics.from # 0 /\ metrics.from \notin reports) \/ Page = {}
                THEN IdleMetrics ELSE [metrics EXCEPT !.pc = "item", !.batch = Page]
  /\ UNCHANGED <<oracleVars, tables, fetch, handlers, process>>

MetricsItem(r) ==
  /\ metrics.pc = "item" /\ r \in metrics.batch
  /\ \A q \in metrics.batch : q <= r
  /\ metrics' =
       IF metrics.current = 0
       THEN [metrics EXCEPT !.batch = @ \ {r}, !.current = r, !.currentLeaves = LeavesByReport(r)]
       ELSE [metrics EXCEPT !.pc = IF metrics.from = 0 THEN "exists" ELSE "calc",
                            !.batch = @ \ {r}, !.previous = r,
                            !.previousLeaves = LeavesByReport(r),
                            !.todo = TaskVaults(metrics.currentLeaves, LeavesByReport(r))]
  /\ UNCHANGED <<oracleVars, tables, fetch, handlers, process>>

MetricsNextBatch ==
  /\ metrics.pc = "item" /\ metrics.batch = {}
  /\ metrics' = [metrics EXCEPT !.pc = "batch", !.skip = @ + BatchSize]
  /\ UNCHANGED <<oracleVars, tables, fetch, handlers, process>>

PairCalculated == \E v \in Vaults : <<metrics.previous, metrics.current, v>> \in stats

\* Mutant: a pair that has statistics is not calculated again.
MetricsExistsSkipping ==
  /\ metrics.pc = "exists"
  /\ metrics' = IF PairCalculated THEN IdleMetrics ELSE [metrics EXCEPT !.pc = "calc"]
  /\ UNCHANGED <<oracleVars, tables, fetch, handlers, process>>

\* Tail sync: a pair that has any statistics is calculated again, and is the last one.
MetricsExists ==
  /\ metrics.pc = "exists"
  /\ metrics' = [metrics EXCEPT !.pc = "calc", !.tail = PairCalculated]
  /\ UNCHANGED <<oracleVars, tables, fetch, handlers, process>>

MetricsTask(v) ==
  /\ metrics.pc = "calc" /\ v \in metrics.todo
  /\ metrics' = [metrics EXCEPT !.todo = @ \ {v}]
  /\ TaskEnds(metrics.previous, metrics.current, v)
  /\ UNCHANGED <<oracleVars, reports, leaves, fetch, handlers, process>>

MetricsStops == metrics.tail \/ BlockLimit < 1 \/ BlockLimit > metrics.current

MetricsNext ==
  /\ metrics.pc = "calc" /\ metrics.todo = {}
  /\ metrics' = IF MetricsStops THEN IdleMetrics
                ELSE [metrics EXCEPT !.pc = "item", !.current = metrics.previous,
                                     !.currentLeaves = metrics.previousLeaves]
  /\ UNCHANGED <<oracleVars, tables, fetch, handlers, process>>

-----------------------------------------------------------------------------
\* The VaultsReportDataUpdated handler.

DeliverReport(r) ==
  /\ r \in 1..published \ delivered /\ Cardinality(handlers) < MaxHandlers
  /\ delivered' = delivered \cup {r}
  /\ handlers' = handlers \cup {[cid |-> r, pc |-> "save", todo |-> {}]}
  /\ UNCHANGED <<oracleVars, tables, fetch, metrics, nullFees, coldDone, faults>>

HandlerTo(h, pc, todo) == handlers' = (handlers \ {h}) \cup {[h EXCEPT !.pc = pc, !.todo = todo]}
HandlerEnds(h) == handlers' = handlers \ {h}

HandlerSave(h) ==
  /\ h.pc = "save"
  /\ IF h.cid \in reports THEN HandlerTo(h, "leaves", contents[h.cid]) ELSE HandlerTo(h, "insert", {})
  /\ UNCHANGED <<oracleVars, tables, fetch, metrics, process>>

\* If the cron stored the report meanwhile the INSERT throws, and the handler has no
\* report entity left to calculate from.
HandlerInsert(h) ==
  /\ h.pc = "insert"
  /\ reports' = reports \cup {h.cid}
  /\ IF h.cid \in reports THEN HandlerEnds(h) ELSE HandlerTo(h, "leaves", contents[h.cid])
  /\ UNCHANGED <<oracleVars, leaves, stats, fetch, metrics, process>>

HandlerLeaf(h, v) ==
  /\ h.pc = "leaves" /\ v \in h.todo
  /\ leaves' = leaves \cup {<<h.cid, v>>}
  /\ HandlerTo(h, "leaves", h.todo \ {v})
  /\ UNCHANGED <<oracleVars, reports, stats, fetch, metrics, process>>

\* findByCid(prevTreeCID), and the current leaves: without the previous report there
\* is no pair.
HandlerPrevious(h) ==
  /\ \/ h.pc = "leaves" /\ h.todo = {}
     \/ h.pc = "previous"
  /\ IF h.cid - 1 \in reports THEN HandlerTo(h, "pair", LeavesByReport(h.cid)) ELSE HandlerEnds(h)
  /\ UNCHANGED <<oracleVars, tables, fetch, metrics, process>>

HandlerPair(h) ==
  /\ h.pc = "pair"
  /\ HandlerTo(h, "calc", TaskVaults(h.todo, LeavesByReport(h.cid - 1)))
  /\ UNCHANGED <<oracleVars, tables, fetch, metrics, process>>

HandlerTask(h, v) ==
  /\ h.pc = "calc" /\ v \in h.todo
  /\ HandlerTo(h, "calc", h.todo \ {v})
  /\ TaskEnds(h.cid - 1, h.cid, v)
  /\ UNCHANGED <<oracleVars, reports, leaves, fetch, metrics, process>>

HandlerDone(h) ==
  /\ h.pc = "calc" /\ h.todo = {}
  /\ HandlerEnds(h)
  /\ UNCHANGED <<oracleVars, tables, fetch, metrics, process>>

-----------------------------------------------------------------------------
\* Failures.

Fault == faults < MaxFaults /\ faults' = faults + 1

\* A download from IPFS or a write fails: the run returns, the next one starts anew.
FetchFails ==
  /\ fetch.pc \in {"save", "insert", "leaves"}
  /\ Fault /\ FetchReturns
  /\ UNCHANGED <<oracleVars, tables, handlers, nullFees, delivered, coldDone>>

\* After a failed saveLeaves the handler still calculates, from the leaves it finds.
HandlerFails(h) ==
  /\ IF h.pc = "leaves" THEN HandlerTo(h, "previous", {}) ELSE HandlerEnds(h)
  /\ Fault
  /\ UNCHANGED <<oracleVars, tables, fetch, metrics, nullFees, delivered, coldDone>>

\* A task fails on its own (allSettled).  If it was the fee snapshot, the null it
\* answers stays in the cache as long as the process lives.
TaskFails(previous, current, v) ==
  /\ Fault
  /\ nullFees' \in {nullFees, nullFees \cup {<<v, previous>>}, nullFees \cup {<<v, current>>}}
  /\ UNCHANGED <<oracleVars, tables, fetch, delivered, coldDone>>

MetricsTaskFails(v) ==
  /\ metrics.pc = "calc" /\ v \in metrics.todo
  /\ metrics' = [metrics EXCEPT !.todo = @ \ {v}]
  /\ TaskFails(metrics.previous, metrics.current, v)
  /\ UNCHANGED handlers

HandlerTaskFails(h, v) ==
  /\ h.pc = "calc" /\ v \in h.todo
  /\ HandlerTo(h, "calc", h.todo \ {v})
  /\ TaskFails(h.cid - 1, h.cid, v)
  /\ UNCHANGED metrics

\* A read of the calculation fails: the cold start logs it.  In the cron nothing
\* catches the rejection, and the process dies.
ColdStartFails ==
  /\ metrics.pc # "idle" /\ metrics.from # 0
  /\ Fault /\ metrics' = IdleMetrics
  /\ UNCHANGED <<oracleVars, tables, fetch, handlers, nullFees, delivered, coldDone>>

\* The process stops and restarts: flights, caches and undelivered events are lost.
WorkerDies ==
  /\ Fault
  /\ fetch' = IdleFetch /\ metrics' = IdleMetrics /\ handlers' = {}
  /\ nullFees' = {} /\ coldDone' = FALSE
  /\ delivered' = 1..published
  /\ UNCHANGED <<oracleVars, tables>>

-----------------------------------------------------------------------------
FetchStep ==
  \/ FetchExists \/ FetchSave \/ FetchInsert \/ (\E v \in Vaults : FetchLeaf(v)) \/ FetchNext

MetricsStep ==
  \/ MetricsBatch \/ (\E r \in Reports : MetricsItem(r)) \/ MetricsNextBatch
  \/ MetricsExists \/ (\E v \in Vaults : MetricsTask(v)) \/ MetricsNext

HandlerStep(h) ==
  \/ HandlerSave(h) \/ HandlerInsert(h) \/ HandlerPrevious(h) \/ HandlerPair(h) \/ HandlerDone(h)
  \/ \E v \in Vaults : HandlerLeaf(h, v) \/ HandlerTask(h, v)

Failure ==
  \/ FetchFails \/ ColdStartFails \/ WorkerDies
  \/ \E v \in Vaults : MetricsTaskFails(v)
  \/ \E h \in handlers : HandlerFails(h) \/ \E v \in Vaults : HandlerTaskFails(h, v)

Next ==
  \/ \E V \in SUBSET Vaults : Publish(V)
  \/ ReportCronTick \/ FetchStep
  \/ ColdStart \/ MetricsStep
  \/ \E r \in Reports : DeliverReport(r)
  \/ \E h \in handlers : HandlerStep(h)
  \/ Failure

Spec == Init /\ [][Next]_vars

\* The cron keeps firing and its runs make progress.  Nothing is assumed of the oracle,
\* of event delivery or of the handlers.
LiveSpec == Spec /\ WF_vars(ReportCronTick) /\ WF_vars(FetchStep) /\ WF_vars(MetricsStep)

-----------------------------------------------------------------------------
\* Metrics are only ever stored for a vault both reports of the pair have a leaf for,
\* as published and as stored: no crash between saveReport and saveLeaves, and no leaf
\* list read long before, lets a task invent a leaf.
StatsBackedByLeaves ==
  \A s \in stats : \A r \in {s[1], s[2]} :
    r \in reports /\ <<r, s[3]>> \in leaves /\ s[3] \in contents[r]

\* The latest report is eventually stored, whatever was lost or failed before.
LatestEventuallyStored == <>[](published > 0 => published \in reports)

IsNewest(r, S) == r \in S /\ \A q \in S : q <= r

\* The two newest stored reports eventually have metrics for every vault with leaves
\* in both, unless this process has cached a null fee snapshot: a calculation that
\* was cut short is made up for.
NewestPairCalculated ==
  \A current, previous \in reports, v \in Vaults :
    /\ IsNewest(current, reports) /\ IsNewest(previous, reports \ {current})
    /\ {<<current, v>>, <<previous, v>>} \subseteq leaves
    /\ FeesKnown(previous, current, v)
    => <<previous, current, v>> \in stats
NewestPairEventuallyCalculated == <>[]NewestPairCalculated

=============================================================================
