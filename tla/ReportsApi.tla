----------------------------- MODULE ReportsApi -----------------------------
(***************************************************************************)
(* The endpoints that answer from outside the database: GET /v1/reports/   *)
(* {cid | last | previous}/:vault, GET /v1/proof/make/:index and the       *)
(* probes.  Requests run concurrently over the cache of responses          *)
(* (HttpCacheInterceptor), the cache of merkle trees (an LRU), the list of *)
(* IPFS gateways and the LazyOracle contract, while reports are published  *)
(* and imported and everything outside fails now and then.                 *)
(*                                                                         *)
(* Reports are numbered in the order of publication and stand for their    *)
(* CIDs; the vault of the requests is one vault.  Time passes in ticks.    *)
(***************************************************************************)
EXTENDS Naturals, Sequences

CONSTANTS
  Reports,      \* bound: number of reports
  MaxRequests,  \* bound: requests in progress
  Gateways,     \* number of IPFS gateways, and of consensus layer URLs
  Ttl,          \* @CacheTTL of the endpoints, in ticks
  MaxHandling,  \* bound: ticks a request is handled for
  CacheMax,     \* REPORT_MERKLE_TREE_CACHE_MAX
  MaxFaults,    \* bound: failures of gateways, RPC, database and heap checks
  Null,         \* the answer {report: null}
  Error,        \* an exception: 400, 404, 500 or 503
  Ok            \* the proof, or a positive probe

ASSUME ReportsApiAssumption ==
  /\ Reports \in Nat \ {0} /\ MaxRequests \in Nat /\ Gateways \in Nat \ {0} /\ CacheMax \in Nat \ {0}
  /\ Ttl \in Nat \ {0} /\ MaxHandling \in Nat /\ MaxFaults \in Nat
  /\ {Null, Error, Ok} \cap Nat = {} /\ Null # Error /\ Ok \notin {Null, Error}

VARIABLES
  asked,    \* the URLs the clients use
  latest,   \* LazyOracle: the latest report
  holds,    \* the reports with a leaf of the vault
  known,    \* the vaults table has the vault
  stored,   \* reports in the reports table
  database, \* Postgres answers
  faults,   \* failures so far
  trees,    \* keys of the LRU, least recently used first
  cache,    \* URL -> response kept by the interceptor
  request,  \* requests in progress and the last answers
  since     \* history: ticks since a report stopped being the latest

vars == <<asked, latest, holds, known, stored, database, faults, trees, cache, request, since>>

Cids == 1..Reports
Requests == 1..MaxRequests

\* Endpoint and, for a report by its CID, the report.
Url(kind) == [kind |-> kind, cid |-> 0]
CidUrls == {[kind |-> "cid", cid |-> c] : c \in Cids}
Urls == CidUrls \cup {Url("last"), Url("previous"), Url("proof"), Url("health")}

Answers == Cids \cup {Null, Ok}
Outdated == Ttl + MaxHandling + 1

\* GLOBAL_CACHE_TTL applies to a handler without @CacheTTL; the probes opt out of it.
SkipCache == {Url("health")}

NoEntry == [answer |-> Null, left |-> 0]

Request == [
  pc      : {"idle", "vault", "stored", "fetch", "latest", "vaultReport", "reportProof", "proof",
             "check", "answered"},
  url     : Urls,
  cid     : 0..Reports,
  gateway : 1..Gateways,
  age     : 0..MaxHandling,
  answer  : Answers \cup {Error},
  sawUp   : BOOLEAN]              \* history: the database answered while it was handled

Idle == [pc |-> "idle", url |-> Url("health"), cid |-> 0, gateway |-> 1, age |-> 0, answer |-> Null,
         sawUp |-> FALSE]

InProgress(r) == request[r].pc \notin {"idle", "answered"}

(***************************************************************************)
(* The world outside the API.                                              *)
(***************************************************************************)
Publish ==
  /\ latest < Reports
  /\ latest' = latest + 1
  /\ UNCHANGED <<asked, holds, known, stored, database, faults, trees, cache, request, since>>

\* The worker imports reports in any order (ReportSync says in which).
SaveReport(c) ==
  /\ c <= latest /\ c \notin stored
  /\ stored' = stored \cup {c}
  /\ UNCHANGED <<asked, latest, holds, known, database, faults, trees, cache, request, since>>

CreateVault ==
  /\ ~known
  /\ known' = TRUE
  /\ UNCHANGED <<asked, latest, holds, stored, database, faults, trees, cache, request, since>>

DatabaseFails ==
  /\ database /\ faults < MaxFaults
  /\ database' = FALSE
  /\ faults' = faults + 1
  /\ UNCHANGED <<asked, latest, holds, known, stored, trees, cache, request, since>>

DatabaseRecovers ==
  /\ ~database
  /\ database' = TRUE
  /\ request' = [r \in Requests |-> IF InProgress(r) THEN [request[r] EXCEPT !.sawUp = TRUE]
                                    ELSE request[r]]
  /\ UNCHANGED <<asked, latest, holds, known, stored, faults, trees, cache, since>>

\* Mutant: a null is kept without a TTL.
TickKeepingNulls ==
  /\ \A r \in Requests : request[r].age < MaxHandling
  /\ request' = [r \in Requests |-> IF InProgress(r) THEN [request[r] EXCEPT !.age = @ + 1] ELSE Idle]
  /\ cache' = [u \in Urls |-> IF cache[u].left > 0 /\ cache[u].answer = Null THEN cache[u]
                              ELSE IF cache[u].left > 1 THEN [cache[u] EXCEPT !.left = @ - 1]
                              ELSE NoEntry]
  /\ since' = [c \in Cids |-> IF c < latest /\ since[c] < Outdated THEN since[c] + 1 ELSE since[c]]
  /\ UNCHANGED <<asked, latest, holds, known, stored, database, faults, trees>>

\* A tick ages requests, responses kept and superseded reports.  MaxHandling stands for
\* whatever ends a fetch: fetchIPFS has a timeout of its own, the calls of lsv-cli behind
\* /last and /previous only what the HTTP client gives them.
Tick ==
  /\ \A r \in Requests : request[r].age < MaxHandling
  /\ request' = [r \in Requests |-> IF InProgress(r) THEN [request[r] EXCEPT !.age = @ + 1] ELSE Idle]
  /\ cache' = [u \in Urls |-> IF cache[u].left > 1 THEN [cache[u] EXCEPT !.left = @ - 1]
                              ELSE NoEntry]
  /\ since' = [c \in Cids |-> IF c < latest /\ since[c] < Outdated THEN since[c] + 1 ELSE since[c]]
  /\ UNCHANGED <<asked, latest, holds, known, stored, database, faults, trees>>

(***************************************************************************)
(* The interceptors.                                                       *)
(***************************************************************************)
FirstStep(url) ==
  CASE url.kind \in {"cid", "last", "previous"} -> "vault"
    [] url.kind = "proof" -> "proof"
    [] url.kind = "health" -> "check"

\* Mutant: the decorator is missing on the probes.
TrackByAll(url) == TRUE

\* HttpCacheInterceptor.trackBy: the key of a response, if it may be kept.
TrackBy(url) == url \notin SkipCache

\* Mutant: a hit is kept for another TTL.
HitRenewed(r, url) ==
  /\ TrackBy(url) /\ cache[url].left > 0
  /\ request' = [request EXCEPT ![r] = [Idle EXCEPT !.pc = "answered", !.url = url,
                                                    !.answer = cache[url].answer,
                                                    !.sawUp = database]]
  /\ cache' = [cache EXCEPT ![url].left = Ttl]

\* CacheInterceptor: the response kept is the answer.
Hit(r, url) ==
  /\ TrackBy(url) /\ cache[url].left > 0
  /\ request' = [request EXCEPT ![r] = [Idle EXCEPT !.pc = "answered", !.url = url,
                                                    !.answer = cache[url].answer,
                                                    !.sawUp = database]]
  /\ UNCHANGED cache

Miss(r, url) ==
  /\ ~(TrackBy(url) /\ cache[url].left > 0)
  /\ request' = [request EXCEPT ![r] = [Idle EXCEPT !.pc = FirstStep(url), !.url = url,
                                                    !.cid = url.cid,
                                                    !.sawUp = database]]
  /\ UNCHANGED cache

Arrive(r, url) ==
  /\ request[r].pc = "idle" /\ \A q \in 1..(r - 1) : request[q].pc # "idle"
  /\ url \in asked
  /\ Hit(r, url) \/ Miss(r, url)
  /\ UNCHANGED <<asked, latest, holds, known, stored, database, faults, trees, since>>

Answered(r, answer) ==
  [Idle EXCEPT !.pc = "answered", !.url = request[r].url, !.answer = answer, !.sawUp = request[r].sawUp]

\* The handler returns: the response is kept, also one that says null.
Respond(r, answer) ==
  LET url == request[r].url IN
  /\ request' = [request EXCEPT ![r] = Answered(r, answer)]
  /\ cache' = IF TrackBy(url) THEN [cache EXCEPT ![url] = [answer |-> answer, left |-> Ttl]] ELSE cache

\* The handler throws: nothing is kept and the header becomes no-store.
Fail(r) ==
  /\ request' = [request EXCEPT ![r] = Answered(r, Error)]
  /\ UNCHANGED cache

Proceed(r, newRequest) == request' = [request EXCEPT ![r] = newRequest] /\ UNCHANGED cache

\* What a request leaves alone, whatever it does with its answer and the trees.
Elsewhere == UNCHANGED <<asked, latest, holds, known, stored, database, since>>

At(r, pc) == request[r].pc = pc

Fault == faults < MaxFaults /\ faults' = faults + 1

(***************************************************************************)
(* The controllers.                                                        *)
(***************************************************************************)
AssertVaultExists(r) ==
  /\ At(r, "vault")
  /\ IF ~database \/ ~known THEN Fail(r)
     ELSE Proceed(r, [request[r] EXCEPT !.pc = IF request[r].url.kind = "cid" THEN "stored"
                                               ELSE "latest"])
  /\ Elsewhere /\ UNCHANGED <<faults, trees>>

\* A vault the report does not list is null, whichever way the report was read.
Lookup(c) == IF c \in holds THEN c ELSE Null

\* The keys without c, which is there once at most.
Without(c) ==
  LET at == {i \in 1..Len(trees) : trees[i] = c}
      i == CHOOSE j \in at : TRUE
  IN  IF at = {} THEN trees ELSE SubSeq(trees, 1, i - 1) \o SubSeq(trees, i + 1, Len(trees))

\* LRUCache.set (and get): the key becomes the most recently used one, the oldest goes.
SetTree(c) ==
  trees' = IF Len(Without(c)) >= CacheMax THEN Append(Tail(Without(c)), c) ELSE Append(Without(c), c)

\* getReportByCidAndVault: only reports in the table are fetched; a cached tree answers.
ExistsByCid(r) ==
  LET c == request[r].cid IN
  /\ At(r, "stored")
  /\ \/ ~database /\ Fail(r) /\ UNCHANGED trees
     \/ database /\ c \notin stored /\ Respond(r, Null) /\ UNCHANGED trees
     \/ /\ database /\ c \in stored
        /\ IF \E i \in 1..Len(trees) : trees[i] = c
           THEN SetTree(c) /\ Respond(r, Lookup(c))
           ELSE Proceed(r, [request[r] EXCEPT !.pc = "fetch"]) /\ UNCHANGED trees
  /\ Elsewhere /\ UNCHANGED faults

\* The next gateway, or null after the last one.
NextGateway(r) ==
  IF request[r].gateway < Gateways
  THEN Proceed(r, [request[r] EXCEPT !.gateway = @ + 1])
  ELSE Respond(r, Null)

\* Mutant: the content is not compared with the CID.
VerifiedUnchecked(c, content) == TRUE

\* fetchIPFSWithLimitAndVerify: the CID of the content is computed and compared.
Verified(c, content) == content = c

\* getOrBuildMerkleTree after a miss, fetchIPFS: content of some report, a failure (an error
\* status, a timeout, a broken stream) or a report above the limit, which ends the search.
FetchIPFS(r, content) ==
  LET c == request[r].cid IN
  /\ At(r, "fetch")
  /\ IF Verified(c, content)
     THEN SetTree(c) /\ Respond(r, Lookup(content)) /\ UNCHANGED faults
     ELSE NextGateway(r) /\ Fault /\ UNCHANGED trees
  /\ Elsewhere

ReportTooLarge(r) ==
  /\ At(r, "fetch")
  /\ Respond(r, Null)
  /\ Fault
  /\ Elsewhere /\ UNCHANGED trees

\* getLast and getPrevious read the contract outside their try blocks.
GetLatestReportData(r) ==
  /\ At(r, "latest")
  /\ Proceed(r, [request[r] EXCEPT !.pc = IF request[r].url.kind = "last" THEN "reportProof" ELSE "vaultReport",
                                   !.cid = latest])
  /\ Elsewhere /\ UNCHANGED <<faults, trees>>

GetLatestReportDataFails(r) ==
  /\ At(r, "latest")
  /\ Fail(r)
  /\ Fault
  /\ Elsewhere /\ UNCHANGED trees

\* LsvService.getVaultReport of the latest report names the previous one.  A report
\* without the vault is an exception like any other: every gateway is asked.
GetVaultReport(r, content) ==
  LET c == request[r].cid IN
  /\ At(r, "vaultReport")
  /\ \/ /\ Verified(c, content) /\ content \in holds
        /\ IF content = 1 THEN Respond(r, Null)
           ELSE Proceed(r, [request[r] EXCEPT !.pc = "reportProof", !.cid = content - 1, !.gateway = 1])
        /\ UNCHANGED faults
     \/ Verified(c, content) /\ content \notin holds /\ NextGateway(r) /\ UNCHANGED faults
     \/ ~Verified(c, content) /\ NextGateway(r) /\ Fault
  /\ Elsewhere /\ UNCHANGED trees

\* LsvService.getReportProofByVault: "not found in report" is an answer, not a failure.
GetReportProofByVault(r, content) ==
  LET c == request[r].cid IN
  /\ At(r, "reportProof")
  /\ IF Verified(c, content) THEN Respond(r, Lookup(content)) /\ UNCHANGED faults
     ELSE NextGateway(r) /\ Fault
  /\ Elsewhere /\ UNCHANGED trees

\* createProof: an index out of range is an answer and ends in 400; anything else is
\* tried at the next URL and thrown after the last.
CreateProof(r) ==
  /\ At(r, "proof")
  /\ Respond(r, Ok) \/ Fail(r)
  /\ Elsewhere /\ UNCHANGED <<faults, trees>>

CreateProofFails(r) ==
  /\ At(r, "proof")
  /\ IF request[r].gateway < Gateways THEN Proceed(r, [request[r] EXCEPT !.gateway = @ + 1])
     ELSE Fail(r)
  /\ Fault
  /\ Elsewhere /\ UNCHANGED trees

\* HealthController and ReadinessController: the heap is measured and the database pinged;
\* either failing makes the probe a 503.
Check(r) ==
  /\ At(r, "check")
  /\ IF database THEN Respond(r, Ok) ELSE Fail(r)
  /\ Elsewhere /\ UNCHANGED <<faults, trees>>

CheckHeapFails(r) ==
  /\ At(r, "check")
  /\ Fail(r)
  /\ Fault
  /\ Elsewhere /\ UNCHANGED trees

\* Content 0 stands for a failed fetch.
Fetched == 0..Reports

HandlerStep(r) ==
  \/ AssertVaultExists(r)
  \/ ExistsByCid(r)
  \/ \E content \in Fetched : FetchIPFS(r, content) \/ GetVaultReport(r, content)
                              \/ GetReportProofByVault(r, content)
  \/ ReportTooLarge(r)
  \/ GetLatestReportData(r)
  \/ GetLatestReportDataFails(r)
  \/ CreateProof(r)
  \/ CreateProofFails(r)
  \/ Check(r)
  \/ CheckHeapFails(r)

UrlGroups == {{Url("last")}, {Url("previous")}, CidUrls, {Url("proof")}, {Url("health")}}

Init ==
  /\ asked \in UrlGroups
  /\ latest = 1
  /\ holds \in SUBSET Cids
  /\ known \in BOOLEAN
  /\ asked \in {{Url("proof")}, {Url("health")}} => holds = {} /\ known  \* not about a vault
  /\ stored = {}
  /\ database = TRUE
  /\ faults = 0
  /\ trees = << >>
  /\ cache = [u \in Urls |-> NoEntry]
  /\ request = [r \in Requests |-> Idle]
  /\ since = [c \in Cids |-> 0]

Next ==
  \/ Publish
  \/ \E c \in Cids : SaveReport(c)
  \/ CreateVault
  \/ DatabaseFails
  \/ DatabaseRecovers
  \/ Tick
  \/ \E r \in Requests, url \in Urls : Arrive(r, url)
  \/ \E r \in Requests : HandlerStep(r)

\* Fetches end, one way or the other, the clock runs, the worker imports what it finds
\* and Postgres comes back.
Spec ==
  /\ Init /\ [][Next]_vars
  /\ WF_vars(Tick)
  /\ WF_vars(DatabaseRecovers)
  /\ WF_vars(CreateVault)
  /\ \A c \in Cids : WF_vars(SaveReport(c))
  /\ \A r \in Requests : WF_vars(HandlerStep(r))

(***************************************************************************)
(* Properties.                                                             *)
(***************************************************************************)
\* Type invariant; an exception is never kept, and the LRU has each key once.
TypeOK ==
  /\ asked \in UrlGroups
  /\ latest \in Cids
  /\ holds \subseteq Cids /\ stored \subseteq 1..latest
  /\ known \in BOOLEAN /\ database \in BOOLEAN
  /\ faults \in 0..MaxFaults
  /\ trees \in Seq(stored) /\ Len(trees) <= CacheMax
  /\ \A i, j \in 1..Len(trees) : trees[i] = trees[j] => i = j
  /\ cache \in [Urls -> [answer : Answers, left : 0..Ttl]]
  /\ request \in [Requests -> Request]
  /\ since \in [Cids -> 0..Outdated]

Served(r) == request[r].pc = "answered" /\ request[r].answer \in Cids

\* An answer with data is the verified content of the report asked for, from a stored
\* report or one published, and the report lists the vault - whichever gateway, tree or
\* kept response it came from.
AnswersAreOfTheirReport ==
  \A r \in Requests : Served(r) =>
    LET a == request[r].answer IN
    /\ a \in holds
    /\ request[r].url.kind = "cid" => a = request[r].url.cid /\ a \in stored
    /\ request[r].url.kind = "previous" => a < latest

\* The report that /last answers was the latest, and the one after the report that
\* /previous answers was, not longer ago than one TTL and the handling of the request
\* that filled the cache.
StalenessBounded ==
  \A r \in Requests : Served(r) =>
    /\ request[r].url.kind = "last" => since[request[r].answer] < Outdated
    /\ request[r].url.kind = "previous" => since[request[r].answer + 1] < Outdated

\* A positive probe saw the database answer while it was handled: no kept response
\* vouches for a database that is down.
ProbesAreLive ==
  \A r \in Requests :
    request[r].pc = "answered" /\ request[r].url.kind = "health" /\ request[r].answer = Ok
      => request[r].sawUp

\* The answer an endpoint gives once everything works.
Settled(url) ==
  CASE url.kind = "cid" -> IF url.cid \in stored THEN Lookup(url.cid) ELSE Null
    [] url.kind = "last" -> Lookup(latest)
    [] url.kind = "previous" -> IF latest = 1 \/ latest \notin holds THEN Null ELSE Lookup(latest - 1)
    [] url.kind = "health" -> Ok
    [] url.kind = "proof" -> Ok

\* Nulls, errors and outdated answers are temporary: once the failures and publications
\* end, neither the kept responses nor the trees stop the endpoints from answering right.
EventuallyRight ==
  <>[][\A r \in Requests :
        request'[r].pc = "answered" /\ ~(request[r].pc = "answered") /\ request'[r].url.kind # "proof"
          => request'[r].answer = Settled(request'[r].url)]_vars
=============================================================================
