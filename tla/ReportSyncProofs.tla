-------------------------- MODULE ReportSyncProofs --------------------------
(***************************************************************************)
(* ReportSync keeps its types, and stores metrics only for vaults that     *)
(* both reports of a pair have a leaf for, for every number of reports and *)
(* vaults, every batch size and every start block.                         *)
(*                                                                         *)
(* The invariant has to follow the leaf lists that jobs read and keep:     *)
(* they are never ahead of the leaves table, which only grows.             *)
(***************************************************************************)
EXTENDS ReportSync, TLAPS

\* Stored leaves belong to a stored report that was published with them.
LeavesOK(R, C, L) ==
  \A r \in Reports, v \in Vaults : <<r, v>> \in L => r \in R /\ v \in C[r]

StatsOK(S, L) ==
  \A p, c \in Reports, v \in Vaults : <<p, c, v>> \in S => <<p, v>> \in L /\ <<c, v>> \in L

\* Leaves are stored after their report, and only the published ones.
FetchOK(f, R, C) == f.pc = "leaves" => f.cid \in R /\ f.todo \subseteq C[f.cid]

\* The leaf lists kept from one pair to the next are stored leaves.
MetricsOK(m, L) ==
  /\ m.current # 0 => \A v \in m.currentLeaves : <<m.current, v>> \in L
  /\ m.pc \in {"exists", "calc"} =>
       /\ m.current # 0 /\ m.previous # 0
       /\ \A v \in m.previousLeaves : <<m.previous, v>> \in L
       /\ m.todo \subseteq m.currentLeaves \cap m.previousLeaves

HandlerOK(h, P, R, C, L) ==
  /\ h.cid <= P
  /\ h.pc = "leaves" => h.cid \in R /\ h.todo \subseteq C[h.cid]
  /\ h.pc \in {"pair", "calc"} => h.cid - 1 \in R /\ \A v \in h.todo : <<h.cid, v>> \in L
  /\ h.pc = "calc" => \A v \in h.todo : <<h.cid - 1, v>> \in L

IInv ==
  /\ TypeOK
  /\ LeavesOK(reports, contents, leaves)
  /\ StatsOK(stats, leaves)
  /\ FetchOK(fetch, reports, contents)
  /\ MetricsOK(metrics, leaves)
  /\ \A h \in handlers : HandlerOK(h, published, reports, contents, leaves)

\* Nothing is lost: tables grow and a published report keeps its contents.
Grows ==
  /\ published' \in Nat /\ published <= published'
  /\ \A r \in 1..published : contents'[r] = contents[r]
  /\ reports \subseteq reports' /\ leaves \subseteq leaves'

-----------------------------------------------------------------------------
\* What held of the jobs before a step holds of them after it.
LEMMA Frame ==
  ASSUME IInv, Grows
  PROVE  /\ FetchOK(fetch, reports', contents')
         /\ MetricsOK(metrics, leaves')
         /\ \A h \in handlers : HandlerOK(h, published', reports', contents', leaves')
<1>1. reports \subseteq 1..published /\ published \in Nat
  BY ReportAssumption DEF IInv, TypeOK, Cids
<1>2. FetchOK(fetch, reports', contents')
  BY <1>1 DEF IInv, FetchOK, Grows
<1>3. MetricsOK(metrics, leaves')
  BY DEF IInv, MetricsOK, Grows
<1>4. ASSUME NEW h \in handlers
      PROVE  HandlerOK(h, published', reports', contents', leaves')
  <2>1. h \in Handler /\ HandlerOK(h, published, reports, contents, leaves)
    BY DEF IInv, TypeOK
  <2>2. h.pc = "leaves" => h.cid \in reports' /\ h.todo \subseteq contents'[h.cid]
    BY <1>1, <2>1 DEF HandlerOK, Grows
  <2>3. /\ h.pc \in {"pair", "calc"} => h.cid - 1 \in reports' /\ \A v \in h.todo : <<h.cid, v>> \in leaves'
        /\ h.pc = "calc" => \A v \in h.todo : <<h.cid - 1, v>> \in leaves'
    BY <2>1 DEF HandlerOK, Grows
  <2>4. h.cid <= published'
    BY <1>1, <2>1, ReportAssumption DEF HandlerOK, Handler, Reports, Grows
  <2> QED
    BY <2>2, <2>3, <2>4 DEF HandlerOK
<1> QED
  BY <1>2, <1>3, <1>4

\* A step that leaves the tables and the oracle alone.
LEMMA TablesFixed ==
  ASSUME IInv, UNCHANGED <<oracleVars, reports, leaves>>
  PROVE  Grows
BY ReportAssumption DEF IInv, TypeOK, Cids, oracleVars, Grows

-----------------------------------------------------------------------------
\* The oracle and the starts of jobs.

\* A published report is new: no job and no table refers to it yet.
LEMMA PublishOK ==
  ASSUME IInv, NEW V \in SUBSET Vaults, Publish(V)
  PROVE  IInv'
<1>1. published' = published + 1 /\ published' \in Cids /\ published \in Nat /\ published' \in Nat
      /\ published + 1 \in Reports
  BY ReportAssumption DEF IInv, TypeOK, Publish, Cids, Reports
<1>2. contents' \in [Reports -> SUBSET Vaults]
  BY <1>1 DEF IInv, TypeOK, Publish
<1>3. \A r \in 1..published : contents'[r] = contents[r]
  BY <1>1, ReportAssumption DEF IInv, TypeOK, Publish, Reports
<1>u. UNCHANGED <<reports, leaves, stats, fetch, metrics, handlers, nullFees, delivered, coldDone, faults>>
  BY DEF Publish, tables, process
<1>4. Grows
  BY <1>1, <1>3, <1>u DEF Grows
<1>5. TypeOK'
  <2>1. 1..published \subseteq 1..published'
    BY <1>1
  <2>2. fetch.cid <= published'
    BY <1>1 DEF IInv, TypeOK, Fetch, Cids
  <2> QED
    BY <1>1, <1>2, <1>u, <2>1, <2>2 DEF IInv, TypeOK
<1>6. LeavesOK(reports, contents, leaves)'
  BY <1>3, <1>u DEF IInv, TypeOK, LeavesOK
<1> QED
  BY <1>4, <1>5, <1>6, <1>u, Frame DEF IInv

\* The cron starts a fetch, the process its cold start, the provider a handler.
LEMMA StartsOK ==
  ASSUME IInv, ReportCronTick \/ ColdStart \/ \E r \in Reports : DeliverReport(r)
  PROVE  IInv'
<1>g. Grows
  BY TablesFixed DEF ReportCronTick, ColdStart, DeliverReport, tables
<1>1. CASE ReportCronTick
  <2>u. UNCHANGED <<published, contents, reports, leaves, stats, metrics, handlers, nullFees, delivered, coldDone, faults>>
    BY <1>1 DEF ReportCronTick, oracleVars, tables, process
  <2>1. fetch' \in Fetch /\ fetch'.cid <= published /\ fetch'.cid # 0 /\ fetch'.pc = "exists"
    <3>1. fetch' = [pc |-> "exists", cid |-> published, count |-> 0, todo |-> {}]
      BY <1>1 DEF ReportCronTick, IdleFetch
    <3>2. published \in Cids /\ published \in Nat /\ published > 0
      BY <1>1, ReportAssumption DEF ReportCronTick, IInv, TypeOK, Cids
    <3> QED
      BY <3>1, <3>2 DEF Fetch
  <2>2. TypeOK'
    BY <2>u, <2>1 DEF IInv, TypeOK
  <2>3. FetchOK(fetch', reports', contents')
    BY <2>1 DEF FetchOK
  <2> QED
    BY <1>g, <2>u, <2>2, <2>3, Frame DEF IInv
<1>2. CASE ColdStart
  <2>u. UNCHANGED <<published, contents, reports, leaves, stats, fetch, handlers, nullFees, delivered, faults>>
    BY <1>2 DEF ColdStart, oracleVars, tables
  <2>1. metrics' = metrics \/ metrics' = NewMetrics("batch", ColdCid)
    BY <1>2 DEF ColdStart
  <2>2. NewMetrics("batch", ColdCid) \in Metrics /\ MetricsOK(NewMetrics("batch", ColdCid), leaves')
    BY ReportAssumption DEF NewMetrics, Metrics, MetricsOK, Cids, Reports
  <2>3. TypeOK'
    BY <1>2, <2>u, <2>1, <2>2 DEF ColdStart, IInv, TypeOK
  <2> QED
    BY <1>g, <2>u, <2>1, <2>2, <2>3, Frame DEF IInv
<1>3. ASSUME NEW r \in Reports, DeliverReport(r) PROVE IInv'
  <2> DEFINE k == [cid |-> r, pc |-> "save", todo |-> {}]
  <2>u. UNCHANGED <<published, contents, reports, leaves, stats, fetch, metrics, nullFees, coldDone, faults>>
    BY <1>3 DEF DeliverReport, oracleVars, tables
  <2>1. k \in Handler /\ HandlerOK(k, published', reports', contents', leaves')
    BY <1>3, <2>u DEF Handler, HandlerOK, DeliverReport
  <2>2. handlers' = handlers \cup {k} /\ delivered' \subseteq 1..published
    BY <1>3 DEF DeliverReport, IInv, TypeOK
  <2> HIDE DEF k
  <2>3. TypeOK'
    BY <2>u, <2>1, <2>2 DEF IInv, TypeOK
  <2> QED
    BY <1>g, <2>u, <2>1, <2>2, <2>3, Frame DEF IInv
<1> QED
  BY <1>1, <1>2, <1>3

-----------------------------------------------------------------------------
\* fetchAllReports.

\* The flight ends and the cron goes on to the metrics.
LEMMA FetchReturnsOK ==
  ASSUME IInv, FetchReturns
  PROVE  /\ fetch' \in Fetch /\ fetch'.cid = 0 /\ fetch'.pc = "idle"
         /\ metrics' \in Metrics
         /\ MetricsOK(metrics', leaves)
<1>1. NewMetrics("batch", 0) \in Metrics /\ MetricsOK(NewMetrics("batch", 0), leaves)
  BY ReportAssumption DEF NewMetrics, Metrics, MetricsOK, Cids, Reports
<1>2. IdleFetch \in Fetch /\ IdleFetch.cid = 0 /\ IdleFetch.pc = "idle"
  BY ReportAssumption DEF IdleFetch, Fetch, Cids
<1> QED
  BY <1>1, <1>2 DEF FetchReturns, IInv, TypeOK

\* The flight moves to another place with other leaves to store.
LEMMA FetchToOK ==
  ASSUME IInv, NEW pc \in {"save", "insert", "leaves"}, NEW todo \in SUBSET Vaults,
         fetch.cid # 0, FetchTo(pc, todo)
  PROVE  /\ fetch' \in Fetch /\ fetch'.cid = fetch.cid /\ fetch'.cid <= published
         /\ fetch'.pc = pc /\ fetch'.todo = todo /\ metrics' = metrics
BY DEF FetchTo, IInv, TypeOK, Fetch

\* A step of the flight that keeps what follows keeps the invariant.
LEMMA FetchFrame ==
  ASSUME IInv, Grows,
         UNCHANGED <<published, contents, stats, handlers, nullFees, delivered, coldDone>>,
         faults' \in 0..MaxFaults, reports' \subseteq 1..published,
         leaves' \subseteq Reports \X Vaults, LeavesOK(reports', contents', leaves'),
         fetch' \in Fetch, fetch'.cid <= published, fetch'.pc # "idle" => fetch'.cid # 0,
         FetchOK(fetch', reports', contents'),
         metrics' \in Metrics, metrics' = metrics \/ MetricsOK(metrics', leaves')
  PROVE  IInv'
<1>1. TypeOK'
  BY DEF IInv, TypeOK
<1>2. StatsOK(stats', leaves')
  BY DEF IInv, StatsOK, Grows
<1> QED
  BY <1>1, <1>2, Frame DEF IInv

\* Every step of the fetch, its failure included.
LEMMA FetchStepOK ==
  ASSUME IInv, FetchStep \/ FetchFails
  PROVE  IInv'
<1>t. /\ fetch \in Fetch /\ fetch.cid <= published /\ fetch.cid \in Cids
      /\ (fetch.pc # "idle" => fetch.cid \in Reports /\ fetch.cid \in 1..published)
      /\ reports \subseteq 1..published /\ metrics \in Metrics /\ faults \in 0..MaxFaults
      /\ published \in Nat
  BY ReportAssumption DEF IInv, TypeOK, Fetch, Cids, Reports
<1>c. ASSUME fetch.pc # "idle" PROVE contents[fetch.cid] \in SUBSET Vaults
  BY <1>c, <1>t DEF IInv, TypeOK
<1>i. FetchOK(fetch, reports, contents) /\ MetricsOK(metrics, leaves) /\ LeavesOK(reports, contents, leaves)
      /\ leaves \subseteq Reports \X Vaults
  BY DEF IInv, TypeOK
<1>1. CASE FetchExists
  <2>u. UNCHANGED <<published, contents, reports, leaves, stats, handlers, nullFees, delivered, coldDone, faults>>
    BY <1>1 DEF FetchExists, oracleVars, tables, process
  <2>1. /\ fetch' \in Fetch /\ fetch'.cid <= published /\ fetch'.pc # "leaves"
        /\ (fetch'.pc # "idle" => fetch'.cid # 0)
        /\ metrics' \in Metrics /\ MetricsOK(metrics', leaves')
    <3>1. CASE FetchReturns
      BY <3>1, <1>t, <2>u, FetchReturnsOK
    <3>2. CASE FetchTo("save", {})
      BY <3>2, <1>1, <1>t, <1>i, <2>u, FetchToOK DEF FetchExists
    <3> QED
      BY <1>1, <3>1, <3>2 DEF FetchExists
  <2>2. Grows
    BY <2>u, TablesFixed DEF oracleVars
  <2>3. FetchOK(fetch', reports', contents')
    BY <2>1 DEF FetchOK
  <2> QED
    BY <1>t, <1>i, <2>u, <2>1, <2>2, <2>3, FetchFrame
<1>2. CASE FetchSave
  <2>u. UNCHANGED <<published, contents, reports, leaves, stats, handlers, nullFees, delivered, coldDone, faults>>
    BY <1>2 DEF FetchSave, oracleVars, tables, process
  <2>1. /\ fetch' \in Fetch /\ fetch'.cid <= published /\ fetch'.cid # 0
        /\ metrics' = metrics /\ FetchOK(fetch', reports', contents')
    <3>1. CASE fetch.cid \in reports
      BY <3>1, <1>2, <1>t, <1>c, <2>u, FetchToOK DEF FetchSave, FetchOK
    <3>2. CASE fetch.cid \notin reports
      BY <3>2, <1>2, <1>t, <2>u, FetchToOK DEF FetchSave, FetchOK
    <3> QED
      BY <3>1, <3>2
  <2>2. Grows
    BY <2>u, TablesFixed DEF oracleVars
  <2> QED
    BY <1>t, <1>i, <2>u, <2>1, <2>2, FetchFrame
<1>3. CASE FetchInsert
  <2>u. UNCHANGED <<published, contents, leaves, stats, handlers, nullFees, delivered, coldDone, faults>>
    BY <1>3 DEF FetchInsert, oracleVars, process
  <2>1. reports' = reports \cup {fetch.cid} /\ reports' \subseteq 1..published
    BY <1>3, <1>t DEF FetchInsert
  <2>2. /\ fetch' \in Fetch /\ fetch'.cid <= published /\ (fetch'.pc # "idle" => fetch'.cid # 0)
        /\ FetchOK(fetch', reports', contents')
        /\ metrics' \in Metrics /\ MetricsOK(metrics', leaves')
    <3>1. CASE FetchReturns
      BY <3>1, <1>t, <2>u, FetchReturnsOK DEF FetchOK
    <3>2. CASE FetchTo("leaves", contents[fetch.cid])
      BY <3>2, <1>3, <1>t, <1>c, <1>i, <2>u, <2>1, FetchToOK DEF FetchInsert, FetchOK
    <3> QED
      BY <1>3, <3>1, <3>2 DEF FetchInsert
  <2>3. Grows
    BY <1>t, <2>u, <2>1 DEF Grows
  <2>4. LeavesOK(reports', contents', leaves')
    BY <1>i, <2>u, <2>1 DEF LeavesOK
  <2> QED
    BY <1>t, <1>i, <2>u, <2>1, <2>2, <2>3, <2>4, FetchFrame
<1>4. ASSUME NEW v \in Vaults, FetchLeaf(v) PROVE IInv'
  <2>u. UNCHANGED <<published, contents, reports, stats, handlers, nullFees, delivered, coldDone, faults>>
    BY <1>4 DEF FetchLeaf, oracleVars, process
  <2>1. fetch.pc = "leaves" /\ v \in fetch.todo /\ leaves' = leaves \cup {<<fetch.cid, v>>}
        /\ fetch.todo \ {v} \in SUBSET Vaults
    BY <1>4, <1>t DEF FetchLeaf, Fetch
  <2>2. fetch.cid \in reports /\ fetch.todo \subseteq contents[fetch.cid]
    BY <2>1, <1>i DEF FetchOK
  <2>3. /\ fetch' \in Fetch /\ fetch'.cid = fetch.cid /\ fetch'.todo = fetch.todo \ {v}
        /\ fetch'.pc = "leaves" /\ metrics' = metrics /\ fetch.cid # 0
    BY <1>4, <1>t, <2>1, FetchToOK DEF FetchLeaf, Reports
  <2>4. Grows
    BY <1>t, <2>u, <2>1 DEF Grows
  <2>5. LeavesOK(reports', contents', leaves') /\ leaves' \subseteq Reports \X Vaults
    BY <1>t, <1>i, <2>u, <2>1, <2>2 DEF LeavesOK
  <2>6. FetchOK(fetch', reports', contents')
    BY <2>u, <2>2, <2>3 DEF FetchOK
  <2> QED
    BY <1>t, <1>i, <2>u, <2>3, <2>4, <2>5, <2>6, FetchFrame
<1>5. CASE FetchNext
  <2>u. UNCHANGED <<published, contents, reports, leaves, stats, handlers, nullFees, delivered, coldDone, faults>>
    BY <1>5 DEF FetchNext, oracleVars, tables, process
  <2>1. /\ fetch' \in Fetch /\ fetch'.cid <= published /\ fetch'.pc # "leaves"
        /\ (fetch'.pc # "idle" => fetch'.cid # 0)
        /\ metrics' \in Metrics /\ MetricsOK(metrics', leaves')
    <3>1. CASE FetchReturns
      BY <3>1, <1>t, <2>u, FetchReturnsOK
    <3>2. CASE fetch.cid # 1 /\ fetch' = [fetch EXCEPT !.pc = "exists", !.cid = @ - 1, !.count = @ + 1]
               /\ UNCHANGED metrics
      <4>1. fetch.cid \in Reports /\ fetch.cid # 1 /\ fetch.pc = "leaves"
        BY <3>2, <1>5, <1>t DEF FetchNext
      <4>2. fetch.cid - 1 \in Cids /\ fetch.cid - 1 # 0 /\ fetch.cid - 1 <= published
        BY <4>1, <1>t, ReportAssumption DEF Cids, Reports
      <4>3. fetch.count + 1 \in Nat
        BY <1>t DEF Fetch
      <4>4. fetch' = [fetch EXCEPT !.pc = "exists", !.cid = fetch.cid - 1, !.count = fetch.count + 1]
        BY <3>2
      <4>5. fetch' \in Fetch /\ fetch'.cid = fetch.cid - 1 /\ fetch'.pc = "exists"
        BY <4>2, <4>3, <4>4, <1>t DEF Fetch
      <4> QED
        BY <3>2, <4>2, <4>5, <1>t, <1>i, <2>u
    <3> QED
      BY <1>5, <3>1, <3>2 DEF FetchNext
  <2>2. Grows
    BY <2>u, TablesFixed DEF oracleVars
  <2>3. FetchOK(fetch', reports', contents')
    BY <2>1 DEF FetchOK
  <2> QED
    BY <1>t, <1>i, <2>u, <2>1, <2>2, <2>3, FetchFrame
<1>6. CASE FetchFails
  <2>u. UNCHANGED <<published, contents, reports, leaves, stats, handlers, nullFees, delivered, coldDone>>
    BY <1>6 DEF FetchFails, oracleVars, tables
  <2>1. faults' \in 0..MaxFaults
    BY <1>6, <1>t, ReportAssumption DEF FetchFails, Fault
  <2>2. /\ fetch' \in Fetch /\ fetch'.cid <= published /\ fetch'.pc = "idle"
        /\ metrics' \in Metrics /\ MetricsOK(metrics', leaves')
    BY <1>6, <1>t, <2>u, FetchReturnsOK DEF FetchFails
  <2>3. Grows
    BY <2>u, TablesFixed DEF oracleVars
  <2>4. FetchOK(fetch', reports', contents')
    BY <2>2 DEF FetchOK
  <2> QED
    BY <1>t, <1>i, <2>u, <2>1, <2>2, <2>3, <2>4, FetchFrame
<1> QED
  BY <1>1, <1>2, <1>3, <1>4, <1>5, <1>6 DEF FetchStep

-----------------------------------------------------------------------------
\* calculateVaultMetrics.

\* A step of the calculation that keeps what follows keeps the invariant.
LEMMA MetricsFrame ==
  ASSUME IInv,
         UNCHANGED <<published, contents, reports, leaves, fetch, handlers, delivered, coldDone>>,
         faults' \in 0..MaxFaults, nullFees' \subseteq Vaults \X Reports,
         stats' \subseteq Reports \X Reports \X Vaults, StatsOK(stats', leaves),
         metrics' \in Metrics, MetricsOK(metrics', leaves)
  PROVE  IInv'
<1>1. TypeOK'
  BY DEF IInv, TypeOK
<1>2. Grows
  BY TablesFixed DEF oracleVars
<1> QED
  BY <1>1, <1>2, Frame DEF IInv

\* The task of a vault with a leaf in both reports stores backed metrics or none.
LEMMA TaskOK ==
  ASSUME IInv, NEW p \in Reports, NEW c \in Reports, NEW v \in Vaults,
         <<p, v>> \in leaves, <<c, v>> \in leaves, TaskEnds(p, c, v)
  PROVE  stats' \subseteq Reports \X Reports \X Vaults /\ StatsOK(stats', leaves)
BY DEF TaskEnds, IInv, TypeOK, StatsOK

\* Every step of the calculation, its failures included.
LEMMA MetricsStepOK ==
  ASSUME IInv, MetricsStep \/ ColdStartFails \/ \E v \in Vaults : MetricsTaskFails(v)
  PROVE  IInv'
<1>t. /\ metrics \in Metrics /\ MetricsOK(metrics, leaves)
      /\ reports \subseteq Reports /\ faults \in 0..MaxFaults
      /\ nullFees \subseteq Vaults \X Reports
      /\ stats \subseteq Reports \X Reports \X Vaults /\ StatsOK(stats, leaves)
  BY ReportAssumption DEF IInv, TypeOK, Cids, Reports
<1>idle. IdleMetrics \in Metrics /\ MetricsOK(IdleMetrics, leaves)
  BY ReportAssumption DEF IdleMetrics, NewMetrics, Metrics, MetricsOK, Cids, Reports
<1>l. ASSUME NEW r PROVE LeavesByReport(r) \in SUBSET Vaults /\ \A v \in LeavesByReport(r) : <<r, v>> \in leaves
  BY DEF LeavesByReport
<1>1. CASE MetricsBatch
  <2>u. UNCHANGED <<published, contents, reports, leaves, stats, fetch, handlers, nullFees, delivered, coldDone, faults>>
    BY <1>1 DEF MetricsBatch, oracleVars, tables, process
  <2>1. Page \in SUBSET Reports
    BY <1>t DEF Page, Listed
  <2>2. CASE metrics' = IdleMetrics
    BY <2>2, <2>u, <1>t, <1>idle, MetricsFrame
  <2>3. CASE metrics' = [metrics EXCEPT !.pc = "item", !.batch = Page]
    <3> HIDE DEF Page
    <3>1. metrics' \in Metrics
      BY <2>1, <2>3, <1>t DEF Metrics
    <3>2. MetricsOK(metrics', leaves)
      BY <2>3, <1>t DEF Metrics, MetricsOK
    <3> QED
      BY <3>1, <3>2, <2>u, <1>t, MetricsFrame
  <2> QED
    BY <1>1, <2>2, <2>3 DEF MetricsBatch
<1>2. ASSUME NEW r \in Reports, MetricsItem(r) PROVE IInv'
  <2>u. UNCHANGED <<published, contents, reports, leaves, stats, fetch, handlers, nullFees, delivered, coldDone, faults>>
    BY <1>2 DEF MetricsItem, oracleVars, tables, process
  <2>0. metrics.pc = "item" /\ r \in Cids /\ r # 0
    BY <1>2, ReportAssumption DEF MetricsItem, Reports, Cids
  <2> DEFINE lv == LeavesByReport(r)
  <2>1. CASE metrics' = [metrics EXCEPT !.batch = @ \ {r}, !.current = r, !.currentLeaves = lv]
    <3>1. metrics' \in Metrics
      BY <2>0, <2>1, <1>t, <1>l DEF Metrics
    <3>2. MetricsOK(metrics', leaves)
      BY <2>0, <2>1, <1>t, <1>l DEF Metrics, MetricsOK
    <3> QED
      BY <3>1, <3>2, <2>u, <1>t, MetricsFrame
  <2>2. CASE /\ metrics.current # 0
             /\ metrics' = [metrics EXCEPT !.pc = IF metrics.from = 0 THEN "exists" ELSE "calc",
                                           !.batch = @ \ {r}, !.previous = r, !.previousLeaves = lv,
                                           !.todo = TaskVaults(metrics.currentLeaves, lv)]
    <3>1. metrics' \in Metrics
      BY <2>0, <2>2, <1>t, <1>l DEF Metrics, TaskVaults
    <3>2. MetricsOK(metrics', leaves)
      BY <2>0, <2>2, <1>t, <1>l DEF Metrics, MetricsOK, TaskVaults
    <3> QED
      BY <3>1, <3>2, <2>u, <1>t, MetricsFrame
  <2> QED
    BY <1>2, <2>1, <2>2 DEF MetricsItem
<1>3. CASE MetricsNextBatch
  <2>u. UNCHANGED <<published, contents, reports, leaves, stats, fetch, handlers, nullFees, delivered, coldDone, faults>>
    BY <1>3 DEF MetricsNextBatch, oracleVars, tables, process
  <2>1. metrics.skip + BatchSize \in Nat
    BY <1>t, ReportAssumption DEF Metrics
  <2>2. metrics' = [metrics EXCEPT !.pc = "batch", !.skip = metrics.skip + BatchSize]
    BY <1>3 DEF MetricsNextBatch
  <2>3. metrics' \in Metrics
    BY <1>t, <2>1, <2>2 DEF Metrics
  <2>4. MetricsOK(metrics', leaves)
    BY <1>t, <2>2 DEF Metrics, MetricsOK
  <2> QED
    BY <2>3, <2>4, <2>u, <1>t, MetricsFrame
<1>4. CASE MetricsExists
  <2>u. UNCHANGED <<published, contents, reports, leaves, stats, fetch, handlers, nullFees, delivered, coldDone, faults>>
    BY <1>4 DEF MetricsExists, oracleVars, tables, process
  <2>0. PairCalculated \in BOOLEAN
    BY DEF PairCalculated
  <2>1. metrics' \in Metrics
    BY <1>4, <1>t, <2>0 DEF MetricsExists, Metrics
  <2>2. MetricsOK(metrics', leaves)
    BY <1>4, <1>t DEF MetricsExists, Metrics, MetricsOK
  <2> QED
    BY <2>1, <2>2, <2>u, <1>t, MetricsFrame
<1>p. ASSUME NEW v \in Vaults, metrics.pc = "calc", v \in metrics.todo,
             metrics' = [metrics EXCEPT !.todo = @ \ {v}]
      PROVE  /\ metrics' \in Metrics /\ MetricsOK(metrics', leaves)
             /\ metrics.previous \in Reports /\ metrics.current \in Reports
             /\ <<metrics.previous, v>> \in leaves /\ <<metrics.current, v>> \in leaves
  <2>1. metrics' \in Metrics
    BY <1>p, <1>t DEF Metrics
  <2>2. MetricsOK(metrics', leaves)
    BY <1>p, <1>t DEF Metrics, MetricsOK
  <2>3. <<metrics.previous, v>> \in leaves /\ <<metrics.current, v>> \in leaves
        /\ metrics.previous # 0 /\ metrics.current # 0
    BY <1>p, <1>t DEF MetricsOK
  <2>4. metrics.previous \in Reports /\ metrics.current \in Reports
    BY <2>3, <1>t, ReportAssumption DEF Metrics, Cids, Reports
  <2> QED
    BY <2>1, <2>2, <2>3, <2>4
<1>5. ASSUME NEW v \in Vaults, MetricsTask(v) PROVE IInv'
  <2>u. UNCHANGED <<published, contents, reports, leaves, fetch, handlers, nullFees, delivered, coldDone, faults>>
    BY <1>5 DEF MetricsTask, oracleVars, process
  <2>1. /\ metrics' \in Metrics /\ MetricsOK(metrics', leaves)
        /\ metrics.previous \in Reports /\ metrics.current \in Reports
        /\ <<metrics.previous, v>> \in leaves /\ <<metrics.current, v>> \in leaves
        /\ TaskEnds(metrics.previous, metrics.current, v)
    BY <1>5, <1>p DEF MetricsTask
  <2>2. stats' \subseteq Reports \X Reports \X Vaults /\ StatsOK(stats', leaves)
    BY <2>1, TaskOK
  <2> QED
    BY <2>1, <2>2, <2>u, <1>t, MetricsFrame
<1>6. CASE MetricsNext
  <2>u. UNCHANGED <<published, contents, reports, leaves, stats, fetch, handlers, nullFees, delivered, coldDone, faults>>
    BY <1>6 DEF MetricsNext, oracleVars, tables, process
  <2>1. CASE metrics' = IdleMetrics
    BY <2>1, <2>u, <1>t, <1>idle, MetricsFrame
  <2>2. CASE metrics' = [metrics EXCEPT !.pc = "item", !.current = metrics.previous,
                                        !.currentLeaves = metrics.previousLeaves]
    <3>1. metrics' \in Metrics
      BY <2>2, <1>t DEF Metrics
    <3>2. MetricsOK(metrics', leaves)
      BY <2>2, <1>6, <1>t DEF MetricsNext, Metrics, MetricsOK
    <3> QED
      BY <3>1, <3>2, <2>u, <1>t, MetricsFrame
  <2> QED
    BY <1>6, <2>1, <2>2 DEF MetricsNext
<1>7. CASE ColdStartFails
  <2>u. UNCHANGED <<published, contents, reports, leaves, stats, fetch, handlers, nullFees, delivered, coldDone>>
    BY <1>7 DEF ColdStartFails, oracleVars, tables
  <2>1. faults' \in 0..MaxFaults /\ metrics' = IdleMetrics
    BY <1>7, <1>t, ReportAssumption DEF ColdStartFails, Fault
  <2> QED
    BY <2>1, <2>u, <1>t, <1>idle, MetricsFrame
<1>8. ASSUME NEW v \in Vaults, MetricsTaskFails(v) PROVE IInv'
  <2>u. UNCHANGED <<published, contents, reports, leaves, stats, fetch, handlers, delivered, coldDone>>
    BY <1>8 DEF MetricsTaskFails, TaskFails, oracleVars, tables
  <2>1. /\ metrics' \in Metrics /\ MetricsOK(metrics', leaves)
        /\ metrics.previous \in Reports /\ metrics.current \in Reports
    BY <1>8, <1>p DEF MetricsTaskFails
  <2>2. faults' \in 0..MaxFaults
    BY <1>8, <1>t, ReportAssumption DEF MetricsTaskFails, TaskFails, Fault
  <2>3. nullFees' \subseteq Vaults \X Reports
    BY <1>8, <1>t, <2>1 DEF MetricsTaskFails, TaskFails
  <2> QED
    BY <2>1, <2>2, <2>3, <2>u, <1>t, MetricsFrame
<1> QED
  BY <1>1, <1>2, <1>3, <1>4, <1>5, <1>6, <1>7, <1>8 DEF MetricsStep

-----------------------------------------------------------------------------
\* The VaultsReportDataUpdated handler.

\* A step of a handler that keeps what follows keeps the invariant.
LEMMA HandlerFrame ==
  ASSUME IInv, Grows,
         UNCHANGED <<published, contents, fetch, metrics, delivered, coldDone>>,
         faults' \in 0..MaxFaults, nullFees' \subseteq Vaults \X Reports,
         reports' \subseteq 1..published,
         leaves' \subseteq Reports \X Vaults, LeavesOK(reports', contents', leaves'),
         stats' \subseteq Reports \X Reports \X Vaults, StatsOK(stats', leaves'),
         \A k \in handlers' : k \in handlers \/
           (k \in Handler /\ HandlerOK(k, published', reports', contents', leaves'))
  PROVE  IInv'
<1>1. TypeOK'
  BY DEF IInv, TypeOK
<1> QED
  BY <1>1, Frame DEF IInv

\* Every step of a handler, its failures included.
LEMMA HandlerStepOK ==
  ASSUME IInv, NEW h \in handlers,
         HandlerStep(h) \/ HandlerFails(h) \/ \E v \in Vaults : HandlerTaskFails(h, v)
  PROVE  IInv'
<1>t. /\ h \in Handler /\ HandlerOK(h, published, reports, contents, leaves)
      /\ h.cid \in Reports /\ h.cid \in 1..published /\ h.todo \in SUBSET Vaults
      /\ contents[h.cid] \in SUBSET Vaults
      /\ reports \subseteq 1..published /\ reports \subseteq Reports /\ faults \in 0..MaxFaults
      /\ published \in Nat /\ nullFees \subseteq Vaults \X Reports
  <2>1. h \in Handler /\ HandlerOK(h, published, reports, contents, leaves)
    BY DEF IInv, TypeOK
  <2>2. h.cid \in Reports /\ h.todo \in SUBSET Vaults /\ published \in 0..MaxReports
    BY <2>1 DEF Handler, IInv, TypeOK, Cids
  <2>3. h.cid \in 1..published
    BY <2>1, <2>2, ReportAssumption DEF HandlerOK, Reports
  <2> QED
    BY <2>1, <2>2, <2>3, ReportAssumption DEF IInv, TypeOK, Reports
<1>i. /\ LeavesOK(reports, contents, leaves) /\ leaves \subseteq Reports \X Vaults
      /\ stats \subseteq Reports \X Reports \X Vaults /\ StatsOK(stats, leaves)
  BY DEF IInv, TypeOK
<1>l. ASSUME NEW r PROVE LeavesByReport(r) \in SUBSET Vaults /\ \A v \in LeavesByReport(r) : <<r, v>> \in leaves
  BY DEF LeavesByReport
<1> DEFINE At(pc, todo) == [h EXCEPT !.pc = pc, !.todo = todo]
<1>a. \A pc \in {"insert", "leaves", "previous", "pair", "calc"}, todo \in SUBSET Vaults :
        /\ At(pc, todo) \in Handler /\ At(pc, todo).cid = h.cid
        /\ At(pc, todo).pc = pc /\ At(pc, todo).todo = todo
  BY <1>t DEF Handler
<1>b. \A pc, todo : HandlerTo(h, pc, todo) => handlers' = (handlers \ {h}) \cup {At(pc, todo)}
  BY DEF HandlerTo
<1> HIDE DEF At
\* Steps that write no table: the handler ends, or goes on from a good place.
<1>w. ASSUME UNCHANGED <<published, contents, reports, leaves, stats, fetch, metrics, delivered, coldDone>>,
             faults' \in 0..MaxFaults, nullFees' \subseteq Vaults \X Reports,
             \/ HandlerEnds(h)
             \/ \E pc \in {"insert", "leaves", "previous", "pair", "calc"}, todo \in SUBSET Vaults :
                  /\ HandlerTo(h, pc, todo)
                  /\ HandlerOK(At(pc, todo), published, reports, contents, leaves)
      PROVE  IInv'
  <2>1. Grows
    BY <1>w, TablesFixed DEF oracleVars
  <2>2. \A k \in handlers' : k \in handlers \/
          (k \in Handler /\ HandlerOK(k, published', reports', contents', leaves'))
    BY <1>w, <1>t, <1>a, <1>b DEF HandlerEnds
  <2> QED
    BY <1>w, <1>t, <1>i, <2>1, <2>2, HandlerFrame
<1>1. CASE HandlerSave(h)
  <2>u. UNCHANGED <<published, contents, reports, leaves, stats, fetch, metrics, nullFees, delivered, coldDone, faults>>
    BY <1>1 DEF HandlerSave, oracleVars, tables, process
  <2>1. CASE h.cid \in reports
    <3>1. HandlerTo(h, "leaves", contents[h.cid])
      BY <1>1, <2>1 DEF HandlerSave
    <3>2. HandlerOK(At("leaves", contents[h.cid]), published, reports, contents, leaves)
      BY <1>t, <2>1, <1>a DEF HandlerOK
    <3> QED
      BY <3>1, <3>2, <2>u, <1>t, <1>w
  <2>2. CASE h.cid \notin reports
    <3>1. HandlerTo(h, "insert", {})
      BY <1>1, <2>2 DEF HandlerSave
    <3>2. HandlerOK(At("insert", {}), published, reports, contents, leaves)
      BY <1>t, <1>a DEF HandlerOK
    <3> QED
      BY <3>1, <3>2, <2>u, <1>t, <1>w
  <2> QED
    BY <2>1, <2>2
<1>2. CASE HandlerInsert(h)
  <2>u. UNCHANGED <<published, contents, leaves, stats, fetch, metrics, nullFees, delivered, coldDone, faults>>
    BY <1>2 DEF HandlerInsert, oracleVars, process
  <2>1. reports' = reports \cup {h.cid} /\ reports' \subseteq 1..published
    BY <1>2, <1>t DEF HandlerInsert
  <2>2. Grows
    BY <1>t, <2>u, <2>1 DEF Grows
  <2>3. LeavesOK(reports', contents', leaves')
    BY <1>i, <2>u, <2>1 DEF LeavesOK
  <2>4. At("leaves", contents[h.cid]) \in Handler
        /\ HandlerOK(At("leaves", contents[h.cid]), published', reports', contents', leaves')
    BY <1>t, <2>u, <2>1, <1>a DEF HandlerOK
  <2>5. \A k \in handlers' : k \in handlers \/ k = At("leaves", contents[h.cid])
    BY <1>2, <1>b DEF HandlerInsert, HandlerEnds
  <2> QED
    BY <1>t, <1>i, <2>u, <2>1, <2>2, <2>3, <2>4, <2>5, HandlerFrame
<1>3. ASSUME NEW v \in Vaults, HandlerLeaf(h, v) PROVE IInv'
  <2>u. UNCHANGED <<published, contents, reports, stats, fetch, metrics, nullFees, delivered, coldDone, faults>>
    BY <1>3 DEF HandlerLeaf, oracleVars, process
  <2>1. /\ leaves' = leaves \cup {<<h.cid, v>>} /\ h.cid \in reports
        /\ h.todo \subseteq contents[h.cid] /\ v \in h.todo
    BY <1>3, <1>t DEF HandlerLeaf, HandlerOK
  <2>2. Grows
    BY <1>t, <2>u, <2>1 DEF Grows
  <2>3. LeavesOK(reports', contents', leaves') /\ leaves' \subseteq Reports \X Vaults
    BY <1>t, <1>i, <2>u, <2>1 DEF LeavesOK
  <2>4. StatsOK(stats', leaves')
    BY <1>i, <2>u, <2>1 DEF StatsOK
  <2>5. At("leaves", h.todo \ {v}) \in Handler
        /\ HandlerOK(At("leaves", h.todo \ {v}), published', reports', contents', leaves')
    BY <1>t, <2>u, <2>1, <1>a DEF HandlerOK
  <2>6. \A k \in handlers' : k \in handlers \/ k = At("leaves", h.todo \ {v})
    BY <1>3, <1>b DEF HandlerLeaf
  <2> QED
    BY <1>t, <1>i, <2>u, <2>2, <2>3, <2>4, <2>5, <2>6, HandlerFrame
<1>4. CASE HandlerPrevious(h)
  <2>u. UNCHANGED <<published, contents, reports, leaves, stats, fetch, metrics, nullFees, delivered, coldDone, faults>>
    BY <1>4 DEF HandlerPrevious, oracleVars, tables, process
  <2>1. CASE h.cid - 1 \in reports
    <3>1. HandlerTo(h, "pair", LeavesByReport(h.cid))
      BY <1>4, <2>1 DEF HandlerPrevious
    <3>2. HandlerOK(At("pair", LeavesByReport(h.cid)), published, reports, contents, leaves)
      BY <1>t, <1>l, <2>1, <1>a DEF HandlerOK
    <3> QED
      BY <3>1, <3>2, <2>u, <1>t, <1>l, <1>w
  <2>2. CASE HandlerEnds(h)
    BY <2>2, <2>u, <1>t, <1>w
  <2> QED
    BY <1>4, <2>1, <2>2 DEF HandlerPrevious
<1>5. CASE HandlerPair(h)
  <2>u. UNCHANGED <<published, contents, reports, leaves, stats, fetch, metrics, nullFees, delivered, coldDone, faults>>
    BY <1>5 DEF HandlerPair, oracleVars, tables, process
  <2> DEFINE both == TaskVaults(h.todo, LeavesByReport(h.cid - 1))
  <2>1. both \in SUBSET Vaults /\ \A v \in both : <<h.cid, v>> \in leaves /\ <<h.cid - 1, v>> \in leaves
    BY <1>5, <1>t, <1>l DEF HandlerPair, HandlerOK, TaskVaults
  <2>2. HandlerTo(h, "calc", both) /\ h.cid - 1 \in reports
    BY <1>5, <1>t DEF HandlerPair, HandlerOK
  <2> HIDE DEF both
  <2>3. HandlerOK(At("calc", both), published, reports, contents, leaves)
    <3>1. At("calc", both).cid = h.cid /\ At("calc", both).pc = "calc" /\ At("calc", both).todo = both
      BY <2>1, <1>a
    <3> QED
      BY <1>t, <2>1, <2>2, <3>1 DEF HandlerOK
  <2> QED
    BY <2>1, <2>2, <2>3, <2>u, <1>t, <1>w
<1>p. ASSUME NEW v \in Vaults, h.pc = "calc", v \in h.todo
      PROVE  /\ h.cid - 1 \in Reports /\ h.todo \ {v} \in SUBSET Vaults
             /\ <<h.cid - 1, v>> \in leaves /\ <<h.cid, v>> \in leaves
             /\ HandlerOK(At("calc", h.todo \ {v}), published, reports, contents, leaves)
  BY <1>p, <1>t, <1>a DEF HandlerOK
<1>6. ASSUME NEW v \in Vaults, HandlerTask(h, v) PROVE IInv'
  <2>u. UNCHANGED <<published, contents, reports, leaves, fetch, metrics, nullFees, delivered, coldDone, faults>>
    BY <1>6 DEF HandlerTask, oracleVars, process
  <2>1. /\ h.cid - 1 \in Reports /\ h.todo \ {v} \in SUBSET Vaults
        /\ <<h.cid - 1, v>> \in leaves /\ <<h.cid, v>> \in leaves
        /\ HandlerOK(At("calc", h.todo \ {v}), published, reports, contents, leaves)
    BY <1>6, <1>p DEF HandlerTask
  <2>2. stats' \subseteq Reports \X Reports \X Vaults /\ StatsOK(stats', leaves)
    BY <1>6, <1>t, <2>1, TaskOK DEF HandlerTask
  <2>3. Grows
    BY <2>u, TablesFixed DEF oracleVars
  <2>4. \A k \in handlers' : k \in handlers \/ k = At("calc", h.todo \ {v})
    BY <1>6, <1>b DEF HandlerTask
  <2>5. At("calc", h.todo \ {v}) \in Handler
    BY <1>t, <2>1, <1>a
  <2> QED
    BY <1>t, <1>i, <2>u, <2>1, <2>2, <2>3, <2>4, <2>5, HandlerFrame
<1>7. CASE HandlerDone(h)
  <2>1. UNCHANGED <<published, contents, reports, leaves, stats, fetch, metrics, nullFees, delivered, coldDone, faults>>
        /\ HandlerEnds(h)
    BY <1>7 DEF HandlerDone, oracleVars, tables, process
  <2> QED
    BY <2>1, <1>t, <1>w
<1>8. CASE HandlerFails(h)
  <2>u. UNCHANGED <<published, contents, reports, leaves, stats, fetch, metrics, nullFees, delivered, coldDone>>
    BY <1>8 DEF HandlerFails, oracleVars, tables
  <2>1. faults' \in 0..MaxFaults
    BY <1>8, <1>t, ReportAssumption DEF HandlerFails, Fault
  <2>2. HandlerOK(At("previous", {}), published, reports, contents, leaves)
    BY <1>t, <1>a DEF HandlerOK
  <2>3. HandlerTo(h, "previous", {}) \/ HandlerEnds(h)
    BY <1>8 DEF HandlerFails
  <2> QED
    BY <2>1, <2>2, <2>3, <2>u, <1>t, <1>w
<1>9. ASSUME NEW v \in Vaults, HandlerTaskFails(h, v) PROVE IInv'
  <2>u. UNCHANGED <<published, contents, reports, leaves, stats, fetch, metrics, delivered, coldDone>>
    BY <1>9 DEF HandlerTaskFails, TaskFails, oracleVars, tables
  <2>1. /\ h.cid - 1 \in Reports /\ h.todo \ {v} \in SUBSET Vaults
        /\ HandlerOK(At("calc", h.todo \ {v}), published, reports, contents, leaves)
    BY <1>9, <1>p DEF HandlerTaskFails
  <2>2. faults' \in 0..MaxFaults
    BY <1>9, <1>t, ReportAssumption DEF HandlerTaskFails, TaskFails, Fault
  <2>3. nullFees' \subseteq Vaults \X Reports /\ HandlerTo(h, "calc", h.todo \ {v})
    BY <1>9, <1>t, <2>1 DEF HandlerTaskFails, TaskFails
  <2> QED
    BY <2>1, <2>2, <2>3, <2>u, <1>t, <1>w
<1> QED
  BY <1>1, <1>2, <1>3, <1>4, <1>5, <1>6, <1>7, <1>8, <1>9 DEF HandlerStep

-----------------------------------------------------------------------------
\* The theorems.

\* A restart drops the jobs and keeps the tables.
LEMMA WorkerDiesOK ==
  ASSUME IInv, WorkerDies
  PROVE  IInv'
<1>u. UNCHANGED <<published, contents, reports, leaves, stats>>
  BY DEF WorkerDies, oracleVars, tables
<1>1. IdleMetrics \in Metrics /\ MetricsOK(IdleMetrics, leaves')
  BY ReportAssumption DEF IdleMetrics, NewMetrics, Metrics, MetricsOK, Cids, Reports
<1>2. IdleFetch \in Fetch /\ IdleFetch.cid = 0 /\ IdleFetch.pc = "idle" /\ FetchOK(IdleFetch, reports', contents')
  BY ReportAssumption DEF IdleFetch, Fetch, Cids, FetchOK
<1>3. faults' \in 0..MaxFaults /\ IdleFetch.cid <= published
  BY <1>2, ReportAssumption DEF WorkerDies, Fault, IInv, TypeOK, Cids
<1>4. TypeOK'
  BY <1>u, <1>1, <1>2, <1>3 DEF WorkerDies, IInv, TypeOK
<1> QED
  BY <1>u, <1>1, <1>2, <1>4 DEF WorkerDies, IInv

\* The worker starts with empty tables and no job.
LEMMA InitOK == Init => IInv
<1> SUFFICES ASSUME Init PROVE IInv
  OBVIOUS
<1>1. IdleMetrics \in Metrics /\ MetricsOK(IdleMetrics, leaves)
  BY ReportAssumption DEF IdleMetrics, NewMetrics, Metrics, MetricsOK, Cids, Reports
<1>2. IdleFetch \in Fetch /\ IdleFetch.cid = 0 /\ IdleFetch.pc = "idle" /\ FetchOK(IdleFetch, reports, contents)
  BY ReportAssumption DEF IdleFetch, Fetch, Cids, FetchOK
<1>0. 0 \in Cids /\ 0 \in 0..MaxFaults /\ 0 <= 0
  BY ReportAssumption DEF Cids
<1>3. TypeOK
  BY <1>0, <1>1, <1>2 DEF Init, TypeOK
<1>4. LeavesOK(reports, contents, leaves) /\ StatsOK(stats, leaves)
  BY DEF Init, LeavesOK, StatsOK
<1> QED
  BY <1>1, <1>2, <1>3, <1>4 DEF Init, IInv

\* Every step keeps the invariant.
LEMMA NextOK ==
  ASSUME IInv, [Next]_vars
  PROVE  IInv'
<1>1. CASE UNCHANGED vars
  BY <1>1 DEF vars, oracleVars, tables, process, IInv, TypeOK, LeavesOK, StatsOK, FetchOK, MetricsOK, HandlerOK
<1>2. CASE Failure
  BY <1>2, FetchStepOK, MetricsStepOK, HandlerStepOK, WorkerDiesOK DEF Failure
<1>3. CASE Next /\ ~Failure
  BY <1>3, PublishOK, StartsOK, FetchStepOK, MetricsStepOK, HandlerStepOK DEF Next
<1> QED
  BY <1>1, <1>2, <1>3

\* The invariant holds in every reachable state.
THEOREM ReportInvariance == Spec => []IInv
<1>1. IInv /\ [Next]_vars => IInv'
  BY NextOK
<1> QED
  BY <1>1, InitOK, PTL DEF Spec

\* Every variable of oracle, tables and jobs keeps its type in every interleaving.
THEOREM ReportTypeCorrect == Spec => []TypeOK
<1>1. IInv => TypeOK
  BY DEF IInv
<1> QED
  BY <1>1, ReportInvariance, PTL

\* Metrics are stored only for vaults that both reports of the pair have a stored leaf for.
THEOREM StatsAreBacked == Spec => []StatsBackedByLeaves
<1>1. IInv => StatsBackedByLeaves
  <2> SUFFICES ASSUME IInv, NEW s \in stats, NEW r \in {s[1], s[2]}
               PROVE  r \in reports /\ <<r, s[3]>> \in leaves /\ s[3] \in contents[r]
    BY DEF StatsBackedByLeaves
  <2>1. s[1] \in Reports /\ s[2] \in Reports /\ s[3] \in Vaults /\ s = <<s[1], s[2], s[3]>>
    BY DEF IInv, TypeOK
  <2>2. <<r, s[3]>> \in leaves
    BY <2>1 DEF IInv, StatsOK
  <2> QED
    BY <2>1, <2>2 DEF IInv, LeavesOK
<1> QED
  BY <1>1, ReportInvariance, PTL
=============================================================================
