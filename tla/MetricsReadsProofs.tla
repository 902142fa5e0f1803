-------------------------- MODULE MetricsReadsProofs --------------------------
(***************************************************************************)
(* What the answers of the metrics endpoints show, proved for any reports, *)
(* any window, any ranges and any Dashboards: a request reads the table by *)
(* several statements while rows and anomalies are written.                *)
(***************************************************************************)
EXTENDS MetricsReads, WellFoundedInduction, TLAPS

\* There is always a newest row: the table is bounded.
Bounded == \E n \in Nat : \A t \in rows : t =< n

\* What a request knows of the table while it is under way, and after.
Known ==
  /\ req.rows0 \subseteq rows /\ req.stable \subseteq rows /\ req.tainted \subseteq req.rows0
  /\ req.pc # "done" => req.stable \subseteq Valid /\ req.tainted \subseteq bad

\* The newest row read is not older than the rows the request began with, and is known
\* for an anomaly if it has been one from the beginning on.
NewestOK ==
  req.pc \in {"valid", "range"} =>
    /\ \A t \in req.rows0 : t =< req.newest
    /\ req.newest # 0 => req.newest \in rows
    /\ req.newest \in req.tainted => req.newestBad

\* The window ends at a row, which is the newest valid one as long as nothing is written.
RangeOK ==
  req.pc = "range" =>
    /\ req.kind = "sma" /\ req.to \in rows
    /\ req.quiet => req.to = Newest(Valid) /\ Valid # {}

\* Only valid ranges reach the query.
QueryOK == req.pc = "query" => req.kind = "range" /\ ValidQuery(req.query)

Control == Bounded /\ Known /\ NewestOK /\ RangeOK /\ QueryOK

\* What the answers promise.
Answers ==
  /\ SmaCoversItsDays /\ FreshSmaIsNewest /\ FreshLatestIsNewest
  /\ RangeIsWhatWasAsked /\ SmaAgreesWithListing

\* What is out of proportion without being flagged was stored by the previous image.
SkewedOK == skewed \subseteq bad \cup old

IInv == TypeOK /\ Control /\ Answers /\ SkewedOK /\ AnomaliesAreOfTheReports

-----------------------------------------------------------------------------
\* A set of naturals has a least element.
LEMMA Least ==
  ASSUME NEW T, T \subseteq Nat, T # {}
  PROVE  \E x \in T : \A y \in T : x =< y
<1> DEFINE R == OpToRel(<, Nat)
<1>1. IsWellFoundedOn(R, Nat)
  BY NatLessThanWellFounded
<1>2. \A x, y \in Nat : <<y, x>> \in R <=> y < x
  BY DEF OpToRel
<1> HIDE DEF R
<1>3. PICK x \in T : \A y \in T : ~(<<y, x>> \in R)
  BY <1>1, WFMin
<1>4. ASSUME NEW y \in T PROVE x =< y
  <2>1. x \in Nat /\ y \in Nat /\ ~(<<y, x>> \in R)
    BY <1>3
  <2>2. ~(y < x)
    BY <1>2, <2>1, Zenon
  <2>3. QED
    BY <2>1, <2>2
<1>5. QED
  BY <1>4

\* A bounded set of naturals has a greatest element.
LEMMA Greatest ==
  ASSUME NEW S, S \subseteq Nat, S # {}, NEW n \in Nat, \A u \in S : u =< n
  PROVE  \E t \in S : \A u \in S : u =< t
<1> DEFINE T == {n - u : u \in S}
<1>1. T \subseteq Nat /\ T # {}
  <2>1. ASSUME NEW u \in S PROVE n - u \in Nat
    BY SMT
  <2>2. QED
    BY <2>1, Zenon
<1> HIDE DEF T
<1>2. PICK x \in T : \A y \in T : x =< y
  BY <1>1, Least
<1>3. PICK t \in S : x = n - t
  BY <1>2 DEF T
<1>4. ASSUME NEW u \in S PROVE u =< t
  <2>1. n - u \in T
    BY DEF T
  <2>2. n - t =< n - u
    BY <1>2, <1>3, <2>1
  <2>3. QED
    BY <2>2
<1>5. QED
  BY <1>4

\* Reports have times.
LEMMA TimestampsAreNat == Timestamps \subseteq Nat
BY MetricsAssumption

\* ORDER BY timestamp DESC finds a row that no other one is newer than, or none.
LEMMA NewestIsGreatest ==
  ASSUME NEW S, S \subseteq Timestamps, \E n \in Nat : \A t \in S : t =< n
  PROVE  /\ Newest(S) \in Nat
         /\ S = {} => Newest(S) = 0
         /\ S # {} => Newest(S) \in S /\ Newest(S) # 0
         /\ \A u \in S : u =< Newest(S)
<1>1. S \subseteq Nat /\ 0 \notin S
  <2>1. Days * Day > 0
    BY MetricsAssumption
  <2>2. QED
    BY <2>1, MetricsAssumption
<1>2. PICK n \in Nat : \A t \in S : t =< n
  OBVIOUS
<1>3. CASE S = {}
  BY <1>3 DEF Newest
<1>4. CASE S # {}
  <2>1. \E t \in S : \A u \in S : u =< t
    BY <1>1, <1>2, <1>4, Greatest
  <2>2. Newest(S) \in S /\ \A u \in S : u =< Newest(S)
    BY <1>4, <2>1 DEF Newest
  <2>3. QED
    BY <1>1, <1>4, <2>2
<1>5. QED
  BY <1>3, <1>4

\* Division with a remainder, as TLA+ defines it.
LEMMA DivMod ==
  ASSUME NEW x \in Int, NEW d \in Nat \ {0}
  PROVE  /\ x \div d \in Int /\ x % d \in Int /\ 0 =< x % d /\ x % d < d
         /\ x = d * (x \div d) + (x % d)
OBVIOUS

\* Moving by whole days changes the day by as many.
LEMMA Shift ==
  ASSUME NEW d \in Nat \ {0}, NEW x \in Int, NEW k \in Int
  PROVE  (x - k * d) \div d = (x \div d) - k
OBVIOUS

\* A time is after 00:00 of a day exactly when its day is not an earlier one.
LEMMA Midnight ==
  ASSUME NEW d \in Nat \ {0}, NEW x \in Int, NEW t \in Int
  PROVE  t - (t % d) =< x <=> t \div d =< x \div d
<1> DEFINE q == t \div d
           p == x \div d
           s == x % d
<1>1. /\ q \in Int /\ p \in Int /\ s \in Int /\ 0 =< s /\ s < d
      /\ t - (t % d) = d * q /\ x = d * p + s
  BY DivMod
<1> HIDE DEF q, p, s
<1>2. ASSUME q =< p PROVE d * q =< d * p
  BY <1>1, <1>2, SMT
<1>3. ASSUME q >= p + 1 PROVE d * q >= d * p + d
  BY <1>1, <1>3, SMT
<1>4. d * q =< d * p + s <=> q =< p
  <2>1. d * q \in Int /\ d * p \in Int
    BY <1>1
  <2>2. QED
    BY <1>1, <1>2, <1>3, <2>1
<1>5. QED
  BY <1>1, <1>4 DEF q, p

\* The window of the endpoint: Days calendar days, the one of its last row included.
LEMMA WindowDays ==
  ASSUME NEW to \in Timestamps, rows \subseteq Timestamps
  PROVE  /\ FromTimestamp(to) \in Nat
         /\ Window(to) = {t \in rows : FromTimestamp(to) =< t /\ t =< to}
         /\ \A t \in Timestamps : FromTimestamp(to) =< t <=> t \div Day + Days > to \div Day
<1> DEFINE start == to - (Days - 1) * Day
<1>1. /\ Day \in Nat \ {0} /\ Days \in Nat \ {0} /\ Timestamps \subseteq Nat /\ Absent \notin Nat
      /\ to \in Nat /\ to >= Days * Day
  BY MetricsAssumption
<1>2. start \in Nat
  <2>1. Days * Day \in Nat /\ (Days - 1) * Day = Days * Day - Day
    BY <1>1
  <2>2. QED
    BY <1>1, <2>1
<1> HIDE DEF start
<1>3. FromTimestamp(to) = start - (start % Day)
  BY DEF FromTimestamp, start
<1>4. FromTimestamp(to) \in Nat
  <2>1. start % Day =< start /\ start % Day \in Nat
    BY <1>1, <1>2
  <2>2. QED
    BY <1>2, <1>3, <2>1
<1>5. Window(to) = {t \in rows : FromTimestamp(to) =< t /\ t =< to}
  <2> DEFINE from == FromTimestamp(to)
             q == [NoQuery EXCEPT !.fromTimestamp = from, !.toTimestamp = to]
  <2>1. from # Absent /\ to # Absent
    BY <1>1, <1>4
  <2> HIDE DEF from
  <2>2. q.fromBlock = Absent /\ q.fromTimestamp = from /\ q.toTimestamp = to
    BY DEF NoQuery
  <2> HIDE DEF q
  <2>3. InRange(q) = {t \in rows : from =< t /\ t =< to}
    BY <2>1, <2>2 DEF InRange, Between
  <2>4. QED
    BY <2>3 DEF Window, q, from
<1>6. ASSUME NEW t \in Timestamps
      PROVE  FromTimestamp(to) =< t <=> t \div Day + Days > to \div Day
  <2>1. t \in Int /\ start \in Int
    BY <1>1, <1>2
  <2>2. FromTimestamp(to) =< t <=> start \div Day =< t \div Day
    BY <1>1, <1>3, <2>1, Midnight
  <2>3. start \div Day = (to \div Day) - (Days - 1)
    BY <1>1, Shift DEF start
  <2>4. t \div Day \in Int /\ to \div Day \in Int
    BY <1>1, <2>1, DivMod
  <2>5. QED
    BY <1>1, <2>2, <2>3, <2>4
<1>7. QED
  BY <1>4, <1>5, <1>6

-----------------------------------------------------------------------------
\* Whichever two reports make the period, the fee alone is not out of proportion.
LEMMA FeeIsNoAnomaly ==
  ASSUME NEW curr \in Snapshots, NEW prev \in Snapshots, curr # NoSnapshot, prev # NoSnapshot,
         NEW e \in BOOLEAN, Anomaly(e, NodeOperatorRewards(curr, prev))
  PROVE  e
<1> DEFINE Sane(s) == CalcNoEarnings(s) \in Int /\ -MaxFee < 2 * CalcNoEarnings(s)
                                               /\ 2 * CalcNoEarnings(s) < MaxFee
<1>1. ASSUME NEW s \in Snapshots, s # NoSnapshot, ~IsFeeAccrualStopped(s) PROVE Sane(s)
  <2>1. PICK owner \in Owners, leaf \in Leaves, m \in BOOLEAN : s = NOFeeSnapshot(owner, leaf, m)
    BY <1>1, SMT DEF Snapshots
  <2>2. m = TRUE
    <3>1. CASE m = FALSE
      BY <1>1, <2>1, <3>1, Zenon DEF NOFeeSnapshot, GetSettledGrowthAndFeeRate, DashboardReader
    <3>2. QED
      BY <3>1, Zenon
  <2>3. s.settledGrowth # MAX_SANE_SETTLED_GROWTH
    BY <1>1, MetricsAssumption DEF IsFeeAccrualStopped
  <2>4. QED
    BY <1>1, <2>1, <2>2, <2>3, MetricsAssumption, Zenon
<1>2. Sane(EMPTY_NO_FEE_SNAPSHOT) /\ CalcNoEarnings(EMPTY_NO_FEE_SNAPSHOT) = 0
  BY MetricsAssumption DEF EMPTY_NO_FEE_SNAPSHOT, CalcNoEarnings
<1>3. ASSUME NEW a, NEW b, Sane(a), Sane(b)
      PROVE  LET delta == CalcNoEarnings(a) - CalcNoEarnings(b)
             IN  ~((IF delta > 0 THEN delta ELSE 0) >= MaxFee)
  <2> DEFINE x == CalcNoEarnings(a)
             y == CalcNoEarnings(b)
  <2>1. x \in Int /\ y \in Int /\ -MaxFee < 2 * x /\ 2 * x < MaxFee /\ -MaxFee < 2 * y /\ 2 * y < MaxFee
    BY <1>3
  <2> HIDE DEF x, y
  <2>2. ~((IF x - y > 0 THEN x - y ELSE 0) >= MaxFee)
    BY <2>1, MetricsAssumption
  <2>3. QED
    BY <2>2 DEF x, y
<1> HIDE DEF Sane
<1>4. CASE ~IsFeeAccrualStopped(curr) /\ ~IsFeeAccrualStopped(prev)
  <2>1. NodeOperatorRewards(curr, prev) =
          LET delta == CalcNoEarnings(curr) - CalcNoEarnings(prev)
          IN  IF delta > 0 THEN delta ELSE 0
    BY <1>4 DEF NodeOperatorRewards, NeutralizeStoppedFeeAccrual
  <2>2. QED
    BY <1>1, <1>3, <1>4, <2>1, Zenon DEF Anomaly
<1>5. CASE IsFeeAccrualStopped(curr) \/ IsFeeAccrualStopped(prev)
  <2>1. NodeOperatorRewards(curr, prev) =
          LET delta == CalcNoEarnings(EMPTY_NO_FEE_SNAPSHOT) - CalcNoEarnings(EMPTY_NO_FEE_SNAPSHOT)
          IN  IF delta > 0 THEN delta ELSE 0
    BY <1>5 DEF NodeOperatorRewards, NeutralizeStoppedFeeAccrual
  <2>2. QED
    BY <1>2, <1>3, <2>1, Zenon DEF Anomaly
<1>6. QED
  BY <1>4, <1>5

\* Nothing is promised without an answer.
LEMMA Unanswered ==
  ASSUME req'.pc # "done" \/ req'.answer # "data"
  PROVE  Answers'
BY DEF Answers, Answered, SmaCoversItsDays, FreshSmaIsNewest, FreshLatestIsNewest,
       RangeIsWhatWasAsked, SmaAgreesWithListing

\* A new request knows the rows of its beginning.
LEMMA NewRequestKnows ==
  ASSUME TypeOK, NEW k \in Kinds
  PROVE  NewRequest(k) \in Request
<1>1. NoQuery \in RangeQuery
  BY DEF NoQuery, RangeQuery
<1>2. rows \subseteq Timestamps /\ rows \ bad \subseteq Timestamps /\ bad \subseteq Timestamps
  BY DEF TypeOK
<1>3. 0 \in Nat /\ {} \subseteq Timestamps
  OBVIOUS
<1>4. QED
  BY <1>1, <1>2, <1>3, Zenon DEF NewRequest, Request

\* The rows of the previous image and no request.
LEMMA InitIInv == Init => IInv
<1>1. SUFFICES ASSUME Init PROVE IInv
  OBVIOUS
<1> DEFINE new == NewRequest("sma")
<1>2. /\ rows \subseteq Timestamps /\ bad \subseteq rows /\ skewed \subseteq rows
      /\ migrated = FALSE /\ extreme = {} /\ old = rows /\ vault \in BOOLEAN
  BY <1>1, Zenon DEF Init
<1>3. new \in Request
  <2>1. NoQuery \in RangeQuery
    BY DEF NoQuery, RangeQuery
  <2>2. 0 \in Nat /\ rows \subseteq Timestamps /\ rows \ bad \subseteq Timestamps /\ bad \subseteq Timestamps
    BY <1>2
  <2>3. QED
    BY <2>1, <2>2, Zenon DEF NewRequest, Request, Kinds
<1>4. /\ new.answer = "none" /\ new.rows0 = rows /\ new.stable = rows \ bad
      /\ new.tainted = bad
  BY DEF NewRequest
<1> HIDE DEF new
<1>5. req = [new EXCEPT !.pc = "done"]
  BY <1>1, Zenon DEF Init, new
<1>6. /\ req \in Request /\ req.pc = "done" /\ req.answer = "none"
      /\ req.rows0 = rows /\ req.stable = rows \ bad /\ req.tainted = bad
  BY <1>3, <1>4, <1>5 DEF Request
<1>7. TypeOK
  BY <1>2, <1>6, Zenon DEF TypeOK
<1>8. Control
  <2>1. \A t \in rows : t =< Rollout
    BY <1>1 DEF Init
  <2>2. Bounded
    BY <2>1, MetricsAssumption DEF Bounded
  <2>3. QED
    BY <1>2, <1>6, <2>2 DEF Control, Known, NewestOK, RangeOK, QueryOK
<1>9. Answers
  BY <1>6 DEF Answers, Answered, SmaCoversItsDays, FreshSmaIsNewest, FreshLatestIsNewest,
              RangeIsWhatWasAsked, SmaAgreesWithListing
<1>10. SkewedOK /\ AnomaliesAreOfTheReports
  BY <1>2 DEF SkewedOK, AnomaliesAreOfTheReports
<1>11. QED
  BY <1>7, <1>8, <1>9, <1>10 DEF IInv

-----------------------------------------------------------------------------
\* Rows are added and anomalies marked, or taken back, while a request is under way.
LEMMA WriterKeeps ==
  ASSUME IInv, rows \subseteq rows', rows' \subseteq Timestamps, Bounded',
         bad' \subseteq rows', Overtakes
  PROVE  req' \in Request /\ Control' /\ Answers'
<1>1. /\ req \in Request /\ rows \subseteq Timestamps /\ bad \subseteq rows
      /\ Control /\ Answers
  BY DEF IInv, TypeOK
<1>2. CASE req.pc = "done"
  <2>1. req' = [req EXCEPT !.quiet = FALSE]
    BY <1>2, Zenon DEF Overtakes
  <2>2. /\ req' \in Request
        /\ req'.pc = "done" /\ req'.kind = req.kind /\ req'.answer = req.answer
        /\ req'.to = req.to /\ req'.points = req.points /\ req'.rows0 = req.rows0
        /\ req'.stable = req.stable /\ req'.tainted = req.tainted /\ req'.query = req.query
    BY <1>1, <1>2, <2>1 DEF Request
  <2>3. ~req'.quiet /\ (req'.outdated <=> req.outdated)
    BY <1>1, <2>1 DEF Request
  <2>4. Control'
    BY <1>1, <2>2 DEF Control, Known, NewestOK, RangeOK, QueryOK
  <2>5. SmaCoversItsDays' /\ RangeIsWhatWasAsked'
    BY <1>1, <1>2, <2>2 DEF Answers, SmaCoversItsDays, RangeIsWhatWasAsked, Answered
  <2>6. FreshSmaIsNewest'
    BY <1>1, <1>2, <2>2, <2>3 DEF Answers, FreshSmaIsNewest, Answered
  <2>7. SmaAgreesWithListing'
    BY <2>3, Zenon DEF SmaAgreesWithListing
  <2>8. FreshLatestIsNewest'
    <3>1. ASSUME NEW t \in req.tainted, t = Newest(rows)' PROVE t = Newest(rows)
      <4>1. t \in rows
        BY <1>1 DEF Control, Known
      <4>2. \A u \in rows' : u =< t
        BY <3>1, NewestIsGreatest DEF Bounded
      <4>3. Newest(rows) \in rows /\ t =< Newest(rows)
        BY <1>1, <4>1, NewestIsGreatest DEF Control, Bounded
      <4>4. QED
        <5>1. t \in Nat /\ Newest(rows) \in Nat /\ Newest(rows) =< t
          BY <1>1, <4>1, <4>2, <4>3, TimestampsAreNat
        <5>2. QED
          BY <4>3, <5>1
    <3>2. QED
      BY <1>1, <1>2, <2>2, <2>3, <3>1 DEF Answers, FreshLatestIsNewest, Answered
  <2>9. QED
    BY <2>2, <2>4, <2>5, <2>6, <2>7, <2>8 DEF Answers
<1>3. CASE req.pc # "done"
  <2>1. req' = [req EXCEPT !.stable = @ \ bad', !.tainted = @ \cap bad', !.quiet = FALSE]
    BY <1>3, Zenon DEF Overtakes
  <2>2. /\ req' \in Request
        /\ req'.pc = req.pc /\ req'.kind = req.kind /\ req'.to = req.to
        /\ req'.newest = req.newest /\ req'.rows0 = req.rows0
        /\ req'.stable = req.stable \ bad' /\ req'.tainted = req.tainted \cap bad'
        /\ req'.query = req.query
    BY <1>1, <2>1 DEF Request
  <2>3. ~req'.quiet /\ (req'.newestBad <=> req.newestBad)
    BY <1>1, <2>1 DEF Request
  <2>4. Known' /\ QueryOK'
    BY <1>1, <1>3, <2>2 DEF Control, Known, Valid, QueryOK, ValidQuery, IsValidRange
  <2>5. NewestOK' /\ RangeOK'
    BY <1>1, <2>2, <2>3 DEF Control, NewestOK, RangeOK
  <2>6. Answers'
    BY <1>3, <2>2, Unanswered
  <2>7. QED
    BY <2>2, <2>4, <2>5, <2>6 DEF Control
<1>4. QED
  BY <1>2, <1>3

\* A calculated pair is stored with an anomaly that its reports made, whoever stored it before.
LEMMA AddOrUpdateKeeps ==
  ASSUME IInv, NEW t \in Timestamps, NEW e \in BOOLEAN, NEW curr \in Snapshots,
         NEW prev \in Snapshots, AddOrUpdateReportStats(t, curr, prev, e)
  PROVE  IInv'
<1> DEFINE anomaly == Anomaly(e, NodeOperatorRewards(curr, prev))
<1>1. anomaly => e
  BY FeeIsNoAnomaly, Zenon DEF AddOrUpdateReportStats
<1>2. /\ rows' = rows \cup {t} /\ old' = old \ {t}
      /\ bad' = IF anomaly THEN bad \cup {t} ELSE bad \ {t}
      /\ skewed' = IF anomaly THEN skewed \cup {t} ELSE skewed \ {t}
      /\ extreme' = IF e THEN extreme \cup {t} ELSE extreme \ {t}
      /\ Overtakes /\ vault' = vault /\ migrated' = migrated
  BY Zenon DEF AddOrUpdateReportStats, With
<1> HIDE DEF anomaly
<1>3. /\ rows \subseteq Timestamps /\ bad \subseteq rows /\ extreme \subseteq rows
      /\ skewed \subseteq rows /\ old \subseteq rows /\ migrated \in BOOLEAN
      /\ bad \subseteq extreme \cup old /\ (migrated => skewed \subseteq bad)
      /\ skewed \subseteq bad \cup old /\ vault \in BOOLEAN /\ Bounded
  BY Zenon DEF IInv, TypeOK, Control, AnomaliesAreOfTheReports, SkewedOK
<1>4. rows \subseteq rows' /\ rows' \subseteq Timestamps
  BY <1>2, <1>3
<1>5. bad' \subseteq rows' /\ extreme' \subseteq rows' /\ skewed' \subseteq rows' /\ old' \subseteq rows'
  BY <1>2, <1>3, Zenon
<1>6. SkewedOK' /\ AnomaliesAreOfTheReports'
  <2>1. bad' \subseteq extreme' \cup old'
    BY <1>1, <1>2, <1>3, Zenon
  <2>2. migrated' => skewed' \subseteq bad'
    BY <1>2, <1>3, Zenon
  <2>3. skewed' \subseteq bad' \cup old'
    BY <1>2, <1>3, Zenon
  <2>4. QED
    BY <2>1, <2>2, <2>3, Zenon DEF SkewedOK, AnomaliesAreOfTheReports
<1>7. Bounded'
  <2>1. PICK n \in Nat : \A u \in rows : u =< n
    BY <1>3 DEF Bounded
  <2>2. t \in Nat /\ n + t \in Nat /\ t =< n + t /\ rows \subseteq Nat
    BY <1>3, TimestampsAreNat
  <2>3. \A u \in rows' : u =< n + t
    BY <1>2, <2>1, <2>2
  <2>4. QED
    BY <2>2, <2>3 DEF Bounded
<1>8. req' \in Request /\ Control' /\ Answers'
  BY <1>2, <1>4, <1>5, <1>7, WriterKeeps
<1>9. QED
  BY <1>2, <1>3, <1>4, <1>5, <1>6, <1>8, Zenon DEF IInv, TypeOK

\* The migration flags what the previous image stored out of proportion, and nothing else.
LEMMA MarkKeeps ==
  ASSUME IInv, MarkNetAndCarryAprAnomalies
  PROVE  IInv'
<1>1. /\ UNCHANGED <<vault, rows, skewed, extreme, old>> /\ Overtakes
      /\ bad' = bad \cup skewed /\ migrated' = TRUE
  BY Zenon DEF MarkNetAndCarryAprAnomalies
<1>2. /\ rows \subseteq Timestamps /\ bad \subseteq rows /\ skewed \subseteq rows
      /\ extreme \subseteq rows /\ old \subseteq rows
      /\ bad \subseteq extreme \cup old /\ skewed \subseteq bad \cup old
      /\ vault \in BOOLEAN /\ Bounded
  BY Zenon DEF IInv, TypeOK, Control, AnomaliesAreOfTheReports, SkewedOK
<1>3. bad' \subseteq rows' /\ bad' \subseteq extreme' \cup old' /\ skewed' \subseteq bad'
  BY <1>1, <1>2
<1>4. Bounded'
  BY <1>1, <1>2 DEF Bounded
<1>5. req' \in Request /\ Control' /\ Answers'
  BY <1>1, <1>2, <1>3, <1>4, WriterKeeps
<1>6. QED
  BY <1>1, <1>2, <1>3, <1>5 DEF IInv, TypeOK, SkewedOK, AnomaliesAreOfTheReports

\* A new vaults row changes nothing for a request.
LEMMA SameRequestKeeps ==
  ASSUME IInv, UNCHANGED <<rows, bad, skewed, migrated, extreme, old, req>>, vault' \in BOOLEAN
  PROVE  IInv'
<1>1. TypeOK' /\ SkewedOK' /\ AnomaliesAreOfTheReports'
  BY Zenon DEF IInv, TypeOK, SkewedOK, AnomaliesAreOfTheReports
<1>2. Valid' = Valid /\ Newest(Valid)' = Newest(Valid) /\ Newest(rows)' = Newest(rows)
      /\ ListingSma' = ListingSma
  BY DEF Valid, Newest, ListingSma
<1>3. Control'
  BY <1>2, Zenon DEF IInv, Control, Bounded, Known, NewestOK, RangeOK, QueryOK
<1>4. Answers'
  BY <1>2, Zenon DEF IInv, Answers, Answered, SmaCoversItsDays, FreshSmaIsNewest,
                     FreshLatestIsNewest, RangeIsWhatWasAsked, SmaAgreesWithListing
<1>5. QED
  BY <1>1, <1>3, <1>4 DEF IInv

-----------------------------------------------------------------------------
\* A statement of a request leaves the tables alone.
LEMMA StatementKeeps ==
  ASSUME IInv, UNCHANGED tables, req' \in Request, Known', NewestOK', RangeOK', QueryOK', Answers'
  PROVE  IInv'
<1>1. TypeOK' /\ Bounded' /\ SkewedOK' /\ AnomaliesAreOfTheReports'
  BY Zenon DEF IInv, TypeOK, Control, Bounded, SkewedOK, AnomaliesAreOfTheReports, tables
<1>2. QED
  BY <1>1 DEF IInv, Control

\* A request begins; half a range is refused at once.
LEMMA GetKeeps ==
  ASSUME IInv, (\E k \in {"latest", "sma"} : Get(k)) \/ (\E q \in RangeQuery : GetRange(q))
  PROVE  IInv'
<1>1. TypeOK /\ UNCHANGED tables
  BY DEF IInv, Get, GetRange
<1>2. ASSUME NEW k \in Kinds
      PROVE  /\ NewRequest(k) \in Request
             /\ NewRequest(k).pc = "exists" /\ NewRequest(k).answer = "none"
             /\ NewRequest(k).kind = k
             /\ NewRequest(k).rows0 = rows /\ NewRequest(k).stable = Valid
             /\ NewRequest(k).tainted = bad
  BY <1>1, NewRequestKnows DEF NewRequest, Valid
<1>3. PICK k \in Kinds, q \in RangeQuery :
        \/ req' = NewRequest(k)
        \/ k = "range" /\ ValidQuery(q)
           /\ req' = [NewRequest(k) EXCEPT !.pc = "query", !.query = q]
        \/ req' = [NewRequest(k) EXCEPT !.pc = "done", !.answer = "refused"]
  <2>1. NoQuery \in RangeQuery
    BY DEF NoQuery, RangeQuery
  <2>2. QED
    BY <2>1, Zenon DEF Get, GetRange, Kinds
<1> DEFINE new == NewRequest(k)
<1>4. /\ new \in Request /\ new.pc = "exists" /\ new.answer = "none" /\ new.kind = k
      /\ new.rows0 = rows /\ new.stable = Valid /\ new.tainted = bad
  BY <1>2
<1> HIDE DEF new
<1>5. /\ req' \in Request /\ (req'.pc # "done" \/ req'.answer # "data")
      /\ req'.pc \in {"exists", "query", "done"}
      /\ req'.pc = "query" => k = "range" /\ ValidQuery(q) /\ req'.kind = k /\ req'.query = q
      /\ req'.rows0 = rows /\ req'.stable = Valid /\ req'.tainted = bad
  <2>1. CASE req' = new
    BY <1>4, <2>1 DEF Request
  <2>2. CASE /\ k = "range" /\ ValidQuery(q)
             /\ req' = [new EXCEPT !.pc = "query", !.query = q]
    BY <1>4, <2>2 DEF Request
  <2>3. CASE req' = [new EXCEPT !.pc = "done", !.answer = "refused"]
    BY <1>4, <2>3 DEF Request
  <2>4. QED
    BY <1>3, <2>1, <2>2, <2>3, Zenon DEF new
<1>6. Known'
  <2>1. rows' = rows /\ bad' = bad /\ Valid' = Valid
    BY <1>1 DEF tables, Valid
  <2>2. QED
    BY <1>1, <1>5, <2>1 DEF Known, TypeOK, Valid
<1>7. NewestOK' /\ RangeOK'
  BY <1>5 DEF NewestOK, RangeOK
<1>8. QueryOK'
  BY <1>5 DEF QueryOK, ValidQuery, IsValidRange
<1>9. QED
  BY <1>1, <1>5, <1>6, <1>7, <1>8, Unanswered, StatementKeeps

\* A request that moves on, or ends without data, keeps what it knows.
LEMMA KnownKeeps ==
  ASSUME IInv, UNCHANGED tables, req.pc # "done", req'.rows0 = req.rows0,
         req'.stable = req.stable, req'.tainted = req.tainted
  PROVE  Known'
<1>1. rows' = rows /\ bad' = bad /\ Valid' = Valid
  BY DEF tables, Valid
<1>2. QED
  BY <1>1 DEF IInv, Control, Known

\* existsVaultByAddress.
LEMMA ReadExistsKeeps == ASSUME IInv, ReadExists PROVE IInv'
<1>1. /\ req \in Request /\ UNCHANGED tables /\ req.pc = "exists"
      /\ \/ req' = [req EXCEPT !.pc = "newest"]
         \/ req' = [req EXCEPT !.pc = "done", !.answer = "null"]
  BY Zenon DEF IInv, TypeOK, ReadExists
<1>2. /\ req' \in Request /\ (req'.pc # "done" \/ req'.answer # "data")
      /\ req'.pc \in {"newest", "done"}
      /\ req'.rows0 = req.rows0 /\ req'.stable = req.stable /\ req'.tainted = req.tainted
  BY <1>1 DEF Request
<1>3. NewestOK' /\ RangeOK' /\ QueryOK'
  BY <1>2 DEF NewestOK, RangeOK, QueryOK
<1>4. QED
  BY <1>1, <1>2, <1>3, KnownKeeps, Unanswered, StatementKeeps

\* The newest row, with its flag.
LEMMA ReadNewestKeeps == ASSUME IInv, ReadNewest PROVE IInv'
<1> DEFINE n == Newest(rows)
           b == n \in bad
<1>1. /\ req \in Request /\ UNCHANGED tables /\ req.pc = "newest"
      /\ \/ req' = [req EXCEPT !.pc = "done", !.answer = "zero"]
         \/ req' = [req EXCEPT !.pc = "valid", !.newest = n, !.newestBad = b]
  BY Zenon DEF IInv, TypeOK, ReadNewest
<1>2. n \in Nat /\ (\A t \in rows : t =< n) /\ (n # 0 => n \in rows)
  BY NewestIsGreatest DEF IInv, TypeOK, Control, Bounded
<1>3. b \in BOOLEAN /\ (n \in bad => b)
  <2>1. b \in BOOLEAN
    OBVIOUS
  <2>2. n \in bad => b
    OBVIOUS
  <2>3. QED
    BY <2>1, <2>2
<1>4. req.rows0 \subseteq rows /\ req.tainted \subseteq bad
  BY <1>1 DEF IInv, Control, Known
<1> HIDE DEF n, b
<1>5. /\ req' \in Request /\ (req'.pc # "done" \/ req'.answer # "data")
      /\ req'.pc \in {"valid", "done"}
      /\ req'.rows0 = req.rows0 /\ req'.stable = req.stable /\ req'.tainted = req.tainted
      /\ req'.pc = "valid" => req'.newest = n
  <2>1. CASE req' = [req EXCEPT !.pc = "done", !.answer = "zero"]
    BY <1>1, <2>1 DEF Request
  <2>2. CASE req' = [req EXCEPT !.pc = "valid", !.newest = n, !.newestBad = b]
    <3>1. req' \in Request
      BY <1>1, <1>2, <1>3, <2>2 DEF Request
    <3>2. req'.pc = "valid" /\ req'.newest = n
      BY <1>1, <2>2 DEF Request
    <3>3. req'.rows0 = req.rows0 /\ req'.stable = req.stable /\ req'.tainted = req.tainted
      BY <1>1, <2>2 DEF Request
    <3>4. QED
      BY <3>1, <3>2, <3>3
  <2>3. QED
    BY <1>1, <2>1, <2>2
<1>6. req'.pc = "valid" => (req'.newestBad <=> b)
  BY <1>1, <1>3 DEF Request
<1>7. NewestOK'
  <2>1. SUFFICES ASSUME req'.pc = "valid" PROVE NewestOK'
    BY <1>5 DEF NewestOK
  <2>2. req'.newest = n /\ rows' = rows
    BY <1>1, <1>5, <2>1 DEF tables
  <2>3. \A t \in req'.rows0 : t =< req'.newest
    BY <1>2, <1>4, <1>5, <2>2
  <2>4. req'.newest # 0 => req'.newest \in rows'
    BY <1>2, <2>2
  <2>5. req'.newest \in req'.tainted => req'.newestBad
    BY <1>3, <1>4, <1>5, <1>6, <2>1, <2>2, Zenon
  <2>6. QED
    BY <2>3, <2>4, <2>5 DEF NewestOK
<1>8. RangeOK' /\ QueryOK'
  BY <1>5 DEF RangeOK, QueryOK
<1>9. QED
  BY <1>1, <1>5, <1>7, <1>8, KnownKeeps, Unanswered, StatementKeeps

\* The newest valid row ends the window.
LEMMA ReadValidSmaKeeps == ASSUME IInv, ReadValidSma PROVE IInv'
<1> DEFINE n == Newest(Valid)
<1>1. /\ req \in Request /\ UNCHANGED tables /\ req.pc = "valid" /\ req.kind = "sma"
      /\ \/ req' = [req EXCEPT !.pc = "done", !.answer = "zero", !.outdated = TRUE]
         \/ n # 0 /\ req' = [req EXCEPT !.pc = "range", !.to = n]
  BY Zenon DEF IInv, TypeOK, ReadValidSma
<1>2. n \in Nat /\ (n # 0 => n \in rows /\ Valid # {})
  BY NewestIsGreatest DEF IInv, TypeOK, Control, Bounded, Valid
<1>3. rows' = rows /\ Valid' = Valid /\ Newest(Valid)' = n
  BY <1>1 DEF tables, Valid, Newest
<1> HIDE DEF n
<1>4. /\ req' \in Request /\ (req'.pc # "done" \/ req'.answer # "data")
      /\ req'.pc \in {"range", "done"}
      /\ req'.rows0 = req.rows0 /\ req'.stable = req.stable /\ req'.tainted = req.tainted
      /\ req'.newest = req.newest
      /\ req'.pc = "range" => req'.to = n /\ n # 0 /\ req'.kind = "sma"
  BY <1>1, <1>2 DEF Request
<1>5. req'.newestBad <=> req.newestBad
  BY <1>1 DEF Request
<1>6. NewestOK'
  BY <1>1, <1>3, <1>4, <1>5 DEF IInv, Control, NewestOK
<1>7. RangeOK' /\ QueryOK'
  BY <1>2, <1>3, <1>4 DEF RangeOK, QueryOK
<1>8. QED
  BY <1>1, <1>4, <1>6, <1>7, KnownKeeps, Unanswered, StatementKeeps

\* The newest valid row is served, with the flag of the newest row read before it.
LEMMA ReadValidLatestKeeps == ASSUME IInv, ReadValidLatest PROVE IInv'
<1> DEFINE n == Newest(Valid)
           answer == IF n = 0 THEN "zero" ELSE "data"
           points == IF n = 0 THEN {} ELSE {n}
<1>1. /\ req \in Request /\ UNCHANGED tables /\ req.pc = "valid" /\ req.kind = "latest"
      /\ req' = [req EXCEPT !.pc = "done", !.to = n, !.outdated = req.newestBad,
                   !.answer = answer, !.points = points]
  BY Zenon DEF IInv, TypeOK, ReadValidLatest
<1>2. n \in Nat /\ (n # 0 => n \in Timestamps) /\ \A t \in Valid : t =< n
  BY NewestIsGreatest DEF IInv, TypeOK, Control, Bounded, Valid
<1>3. rows' = rows /\ Newest(rows)' = Newest(rows)
  BY <1>1 DEF tables, Newest
<1>4. points \subseteq Timestamps /\ answer \in {"zero", "data"}
  BY <1>2
<1> HIDE DEF n, answer, points
<1>5. /\ req' \in Request /\ req'.pc = "done" /\ req'.kind = "latest" /\ req'.to = n
      /\ req'.rows0 = req.rows0 /\ req'.stable = req.stable /\ req'.tainted = req.tainted
  BY <1>1, <1>2, <1>4 DEF Request
<1>6. req'.outdated <=> req.newestBad
  BY <1>1 DEF Request
<1>7. NewestOK' /\ RangeOK' /\ QueryOK'
  BY <1>5 DEF NewestOK, RangeOK, QueryOK
<1>8. FreshLatestIsNewest'
  <2>1. ASSUME ~req.newestBad, NEW t \in req.tainted, t = Newest(rows) PROVE FALSE
    <3>1. /\ t \in rows /\ t \in req.rows0 /\ t =< req.newest
          /\ req.newest # 0 => req.newest \in rows
          /\ req.newest \notin req.tainted
      BY <1>1, <2>1 DEF IInv, Control, Known, NewestOK
    <3>2. \A u \in rows : u =< t
      BY <2>1, NewestIsGreatest DEF IInv, TypeOK, Control, Bounded
    <3>3. t \in Nat /\ t # 0 /\ rows \subseteq Nat /\ req.newest \in Nat
      BY <1>1, <2>1, <3>1, NewestIsGreatest, TimestampsAreNat DEF IInv, TypeOK, Control, Bounded, Request
    <3>4. req.newest = t
      BY <3>1, <3>2, <3>3
    <3>5. QED
      BY <2>1, <3>1, <3>4
  <2>2. req.stable \subseteq Valid
    BY <1>1 DEF IInv, Control, Known
  <2>3. QED
    BY <1>2, <1>3, <1>5, <1>6, <2>1, <2>2 DEF FreshLatestIsNewest
<1>9. Answers'
  BY <1>5, <1>8 DEF Answers, Answered, SmaCoversItsDays, FreshSmaIsNewest, RangeIsWhatWasAsked,
                    SmaAgreesWithListing
<1>10. QED
  BY <1>1, <1>5, <1>7, <1>9, KnownKeeps, StatementKeeps

\* The rows of the window, which may have changed since its end was read.
LEMMA ReadRangeKeeps == ASSUME IInv, ReadRange PROVE IInv'
<1> DEFINE points == Window(req.to) \ bad
           answer == IF points = {} THEN "zero" ELSE "data"
           b == req.newest # req.to
<1>1. /\ req \in Request /\ UNCHANGED tables /\ req.pc = "range"
      /\ req' = [req EXCEPT !.pc = "done", !.outdated = b, !.answer = answer, !.points = points]
  BY Zenon DEF IInv, TypeOK, ReadRange
<1>2. /\ rows \subseteq Timestamps /\ req.kind = "sma" /\ req.to \in rows
      /\ req.quiet => req.to = Newest(Valid) /\ Valid # {}
  BY <1>1 DEF IInv, TypeOK, Control, RangeOK
<1>3. /\ FromTimestamp(req.to) \in Nat
      /\ Window(req.to) = {t \in rows : FromTimestamp(req.to) =< t /\ t =< req.to}
      /\ \A t \in Timestamps : FromTimestamp(req.to) =< t <=> t \div Day + Days > req.to \div Day
  BY <1>2, WindowDays
<1>4. points = {t \in Valid : FromTimestamp(req.to) =< t /\ t =< req.to}
  BY <1>3 DEF Valid
<1>5. points \subseteq Timestamps /\ answer \in {"zero", "data"} /\ b \in BOOLEAN
  BY <1>2, <1>3, Zenon
<1> HIDE DEF points, answer, b
<1>6. /\ req' \in Request /\ req'.pc = "done" /\ req'.kind = "sma" /\ req'.to = req.to
      /\ req'.points = points
      /\ req'.rows0 = req.rows0 /\ req'.stable = req.stable /\ req'.tainted = req.tainted
  BY <1>1, <1>2, <1>5 DEF Request
<1>7. (req'.outdated <=> b) /\ (req'.quiet <=> req.quiet)
  BY <1>1, <1>5 DEF Request
<1>8. NewestOK' /\ RangeOK' /\ QueryOK'
  BY <1>6 DEF NewestOK, RangeOK, QueryOK
<1>9. req.stable \subseteq Valid /\ req.tainted \subseteq bad /\ req.stable \subseteq Timestamps
  BY <1>1 DEF IInv, Control, Known, Request
<1>10. SmaCoversItsDays'
  <2> DEFINE window == {t \in Timestamps : t =< req.to /\ t \div Day + Days > req.to \div Day}
  <2>1. points \subseteq window
    BY <1>3, <1>4, <1>5
  <2>2. window \cap req.stable \subseteq points
    BY <1>3, <1>4, <1>9
  <2>3. points \cap req.tainted = {}
    BY <1>4, <1>9 DEF Valid
  <2>4. QED
    BY <1>6, <2>1, <2>2, <2>3 DEF SmaCoversItsDays
<1>11. FreshSmaIsNewest'
  <2>1. ~req'.outdated => req.newest = req.to
    BY <1>7 DEF b
  <2>2. \A t \in req.rows0 : t =< req.newest
    BY <1>1 DEF IInv, Control, NewestOK
  <2>3. QED
    BY <1>6, <2>1, <2>2 DEF FreshSmaIsNewest
<1>12. SmaAgreesWithListing'
  <2>1. ListingSma' = ListingSma
    BY <1>1 DEF tables, ListingSma, Valid, Newest
  <2>2. ASSUME req.quiet PROVE points = ListingSma
    BY <1>2, <1>4, <2>2 DEF ListingSma, FromTimestamp
  <2>3. QED
    BY <1>6, <1>7, <2>1, <2>2 DEF SmaAgreesWithListing
<1>13. Answers'
  BY <1>6, <1>10, <1>11, <1>12 DEF Answers, Answered, FreshLatestIsNewest, RangeIsWhatWasAsked
<1>14. QED
  BY <1>1, <1>6, <1>8, <1>13, KnownKeeps, StatementKeeps

\* The one range of the request is the filter of the query.
LEMMA RangeKeeps == ASSUME IInv, GetVaultStatsRangeByAddress PROVE IInv'
<1> DEFINE q == IF req.query.fromBlock # Absent
                THEN [NoQuery EXCEPT !.fromBlock = req.query.fromBlock, !.toBlock = req.query.toBlock]
                ELSE [NoQuery EXCEPT !.fromTimestamp = req.query.fromTimestamp,
                                     !.toTimestamp = req.query.toTimestamp]
           points == InRange(q)
<1>1. /\ req \in Request /\ UNCHANGED tables /\ req.pc = "query"
      /\ req' = [req EXCEPT !.pc = "done", !.answer = "data", !.points = points]
  BY Zenon DEF IInv, TypeOK, GetVaultStatsRangeByAddress
<1>2. /\ rows \subseteq Timestamps /\ req.kind = "range" /\ ValidQuery(req.query)
      /\ req.rows0 \subseteq rows
  BY <1>1 DEF IInv, TypeOK, Control, QueryOK, Known
<1>3. points \subseteq rows
  BY DEF InRange
<1> DEFINE a == req.query
           Asked(t) == /\ a.fromBlock # Absent => BlockOf(t) >= a.fromBlock
                       /\ a.toBlock # Absent => BlockOf(t) <= a.toBlock
                       /\ a.fromTimestamp # Absent => t >= a.fromTimestamp
                       /\ a.toTimestamp # Absent => t <= a.toTimestamp
<1>4. ASSUME NEW t \in rows PROVE t \in points <=> Asked(t)
  <2>1. \/ /\ a.fromBlock # Absent /\ a.toBlock # Absent
           /\ a.fromTimestamp = Absent /\ a.toTimestamp = Absent
        \/ /\ a.fromBlock = Absent /\ a.toBlock = Absent
           /\ a.fromTimestamp # Absent /\ a.toTimestamp # Absent
    BY <1>2, Zenon DEF ValidQuery, IsValidRange
  <2>2. /\ a.fromBlock \in Nat \cup {Absent} /\ a.toBlock \in Nat \cup {Absent}
        /\ a.fromTimestamp \in Nat \cup {Absent} /\ a.toTimestamp \in Nat \cup {Absent}
    <3>1. a \in RangeQuery /\ Bounds \subseteq Nat
      BY <1>1, MetricsAssumption DEF Request
    <3>2. QED
      BY <3>1 DEF RangeQuery
  <2>3. t \in Nat /\ BlockOf(t) \in Nat
    <3>1. t \in Nat
      BY <1>2, <1>4, TimestampsAreNat
    <3>2. QED
      BY <3>1 DEF BlockOf
  <2> HIDE DEF a
  <2>4. CASE a.fromBlock # Absent
    <3>1. /\ q.fromBlock = a.fromBlock /\ q.toBlock = a.toBlock
          /\ q.fromTimestamp = Absent /\ q.toTimestamp = Absent
      BY <2>4 DEF NoQuery, a
    <3> HIDE DEF q
    <3>2. QED
      BY <2>1, <2>2, <2>3, <2>4, <3>1 DEF InRange, Between
  <2>5. CASE a.fromBlock = Absent
    <3>1. /\ q.fromTimestamp = a.fromTimestamp /\ q.toTimestamp = a.toTimestamp
          /\ q.fromBlock = Absent /\ q.toBlock = Absent
      BY <2>5 DEF NoQuery, a
    <3> HIDE DEF q
    <3>2. QED
      BY <2>1, <2>2, <2>3, <2>5, <3>1 DEF InRange, Between
  <2>6. QED
    BY <2>4, <2>5
<1> HIDE DEF q, points
<1>5. /\ req' \in Request /\ req'.pc = "done" /\ req'.kind = "range" /\ req'.points = points
      /\ req'.query = req.query
      /\ req'.rows0 = req.rows0 /\ req'.stable = req.stable /\ req'.tainted = req.tainted
  BY <1>1, <1>2, <1>3 DEF Request
<1>6. NewestOK' /\ RangeOK' /\ QueryOK'
  BY <1>5 DEF NewestOK, RangeOK, QueryOK
<1>7. RangeIsWhatWasAsked'
  BY <1>2, <1>3, <1>4, <1>5 DEF RangeIsWhatWasAsked, BlockOf
<1>8. Answers'
  BY <1>5, <1>7 DEF Answers, Answered, SmaCoversItsDays, FreshSmaIsNewest, FreshLatestIsNewest,
                    SmaAgreesWithListing
<1>9. QED
  BY <1>1, <1>5, <1>6, <1>8, KnownKeeps, StatementKeeps

-----------------------------------------------------------------------------
\* The invariant is inductive.
LEMMA NextIInv == IInv /\ [Next]_vars => IInv'
<1>1. SUFFICES ASSUME IInv, [Next]_vars PROVE IInv'
  OBVIOUS
<1>2. CASE CreateVault
  <2>1. UNCHANGED <<rows, bad, skewed, migrated, extreme, old, req>> /\ vault' \in BOOLEAN
    BY <1>2, Zenon DEF CreateVault
  <2>2. QED
    BY <1>1, <2>1, SameRequestKeeps
<1>3. CASE UNCHANGED vars
  <2>1. UNCHANGED <<rows, bad, skewed, migrated, extreme, old, req>> /\ vault' \in BOOLEAN
    BY <1>1, <1>3, Zenon DEF vars, IInv, TypeOK
  <2>2. QED
    BY <1>1, <2>1, SameRequestKeeps
<1>4. CASE (\E k \in {"latest", "sma"} : Get(k)) \/ (\E q \in RangeQuery : GetRange(q))
  BY <1>1, <1>4, GetKeeps
<1>5. QED
  BY <1>1, <1>2, <1>3, <1>4, AddOrUpdateKeeps, MarkKeeps, ReadExistsKeeps, ReadNewestKeeps,
     ReadValidLatestKeeps, ReadValidSmaKeeps, ReadRangeKeeps, RangeKeeps, Zenon DEF Next

\* The specification keeps the invariant.
THEOREM MetricsInvariance == Spec => []IInv
BY InitIInv, NextIInv, PTL DEF Spec

\* Types of the table of metrics and of the request.
THEOREM MetricsTypeCorrect == Spec => []TypeOK
<1>1. IInv => TypeOK
  BY DEF IInv
<1>2. QED
  BY <1>1, MetricsInvariance, PTL

\* The moving average covers its calendar days, whatever is written between its statements.
THEOREM SmaCoversAllItsDays == Spec => []SmaCoversItsDays
<1>1. IInv => SmaCoversItsDays
  BY DEF IInv, Answers
<1>2. QED
  BY <1>1, MetricsInvariance, PTL

\* A moving average that is not outdated ends at the newest row.
THEOREM FreshSmaIsTheNewest == Spec => []FreshSmaIsNewest
<1>1. IInv => FreshSmaIsNewest
  BY DEF IInv, Answers
<1>2. QED
  BY <1>1, MetricsInvariance, PTL

\* Latest metrics that are not outdated are of the newest row.
THEOREM FreshLatestIsTheNewest == Spec => []FreshLatestIsNewest
<1>1. IInv => FreshLatestIsNewest
  BY DEF IInv, Answers
<1>2. QED
  BY <1>1, MetricsInvariance, PTL

\* Validator, controller and query agree on the range that was asked for.
THEOREM RangeIsAsAsked == Spec => []RangeIsWhatWasAsked
<1>1. IInv => RangeIsWhatWasAsked
  BY DEF IInv, Answers
<1>2. QED
  BY <1>1, MetricsInvariance, PTL

\* A stopped fee accrual makes no anomaly of a row of this image, and what it made of the
\* rows of the previous image is flagged from the migration on.
THEOREM AnomaliesComeFromReports == Spec => []AnomaliesAreOfTheReports
<1>1. IInv => AnomaliesAreOfTheReports
  BY DEF IInv
<1>2. QED
  BY <1>1, MetricsInvariance, PTL

\* The average of the endpoint is the one of the listing.
THEOREM SmaAgreesWithTheListing == Spec => []SmaAgreesWithListing
<1>1. IInv => SmaAgreesWithListing
  BY DEF IInv, Answers
<1>2. QED
  BY <1>1, MetricsInvariance, PTL
=============================================================================
