--------------------------- MODULE ReportsApiProofs ---------------------------
(***************************************************************************)
(* Proofs about ReportsApi, for any number of requests, reports, gateways  *)
(* and failures, any TTL and any size of the tree cache.                   *)
(***************************************************************************)
EXTENDS ReportsApi, SequenceTheorems, TLAPS

\* An answer with data is of the report asked for, and that report (for /previous the one
\* after it) stopped being the latest at most n ticks ago.
Good(url, a, n) ==
  a \in Cids =>
    /\ a \in holds
    /\ url.kind = "cid" => a = url.cid /\ a \in stored
    /\ url.kind = "last" => since[a] <= n
    /\ url.kind = "previous" => a < latest /\ since[a + 1] <= n

\* A kept response ages with its report, and probes are never kept.
CacheOK ==
  \A u \in Urls : cache[u].left > 0 =>
    u.kind # "health" /\ Good(u, cache[u].answer, Ttl + MaxHandling - cache[u].left)

\* What a request knows between two awaits.
Progress(q) ==
  /\ q.pc \in {"stored", "fetch"} => q.url.kind = "cid"
  /\ q.pc \in {"vault", "stored", "fetch"} /\ q.url.kind = "cid" => q.cid = q.url.cid /\ q.cid \in Cids
  /\ q.pc = "fetch" => q.cid \in stored
  /\ q.pc = "vault" => q.url.kind \in {"cid", "last", "previous"}
  /\ q.pc = "latest" => q.url.kind \in {"last", "previous"}
  /\ q.pc = "vaultReport" => q.url.kind = "previous" /\ q.cid \in 1..latest /\ since[q.cid] <= q.age
  /\ q.pc = "reportProof" =>
       \/ q.url.kind = "last" /\ q.cid \in 1..latest /\ since[q.cid] <= q.age
       \/ q.url.kind = "previous" /\ q.cid \in 1..(latest - 1) /\ since[q.cid + 1] <= q.age
  /\ q.pc = "proof" => q.url.kind = "proof"
  /\ q.pc = "check" => q.url.kind = "health"
  /\ q.pc = "answered" => Good(q.url, q.answer, Ttl + MaxHandling)

RequestsOK == \A r \in Requests : Progress(request[r])

\* The latest report has not been superseded, nor have later ones.
SinceOK == \A c \in Cids : c >= latest => since[c] = 0

\* The database has answered during every request while it answers.
Seen(q) == q.pc \notin {"idle", "answered"} /\ database => q.sawUp
SeenOK == \A r \in Requests : Seen(request[r])

IInv == TypeOK /\ CacheOK /\ RequestsOK /\ SinceOK /\ SeenOK /\ ProbesAreLive

-----------------------------------------------------------------------------
\* The parts of TypeOK.
World ==
  /\ asked \in UrlGroups /\ latest \in Cids
  /\ holds \subseteq Cids /\ stored \subseteq 1..latest
  /\ since \in [Cids -> 0..Outdated]
Trees ==
  /\ trees \in Seq(stored) /\ Len(trees) <= CacheMax
  /\ \A i, j \in 1..Len(trees) : trees[i] = trees[j] => i = j
Kept == [answer : Answers, left : 0..Ttl]

\* The type invariant in parts.
LEMMA TypeParts ==
  TypeOK <=> /\ World /\ Trees /\ faults \in 0..MaxFaults
             /\ known \in BOOLEAN /\ database \in BOOLEAN
             /\ cache \in [Urls -> Kept] /\ request \in [Requests -> Request]
BY Zenon DEF TypeOK, World, Trees, Kept

\* The kinds of URLs, and what they carry.
LEMMA UrlFacts ==
  \A u \in Urls :
    /\ u.kind \in {"cid", "last", "previous", "proof", "health"}
    /\ u.cid \in 0..Reports
    /\ u.kind = "cid" => u.cid \in Cids
    /\ u.kind = "health" <=> u = Url("health")
BY ReportsApiAssumption DEF Urls, CidUrls, Url, Cids

\* No report is mistaken for null, a probe's answer or an exception.
LEMMA AnswerFacts ==
  /\ Null \notin Cids /\ Ok \notin Cids /\ Error \notin Cids
  /\ Null # Error /\ Ok # Error /\ Ok # Null
  /\ Null \in Answers /\ Ok \in Answers /\ Cids \subseteq Answers /\ Error \notin Answers
  /\ Outdated \in Nat /\ Reports \in Nat
<1>1. Cids \subseteq Nat
  BY ReportsApiAssumption DEF Cids
<1>2. Null \notin Nat /\ Ok \notin Nat /\ Error \notin Nat
  BY ReportsApiAssumption
<1>3. Outdated \in Nat /\ Reports \in Nat
  BY ReportsApiAssumption DEF Outdated
<1>4. Null # Error /\ Ok # Error /\ Ok # Null
  BY ReportsApiAssumption
<1>5. QED
  BY <1>1, <1>2, <1>3, <1>4, Zenon DEF Answers

\* A request that has not arrived.
LEMMA IdleFacts ==
  /\ Idle \in Request /\ Idle.pc = "idle" /\ Idle.url.kind = "health" /\ Idle.age = 0
  /\ Idle.answer = Null /\ ~Idle.sawUp
<1>1. Url("health") \in Urls /\ Url("health").kind = "health"
  BY DEF Urls, Url
<1>2. 0 \in 0..Reports /\ 1 \in 1..Gateways /\ 0 \in 0..MaxHandling /\ Null \in Answers \cup {Error}
  BY ReportsApiAssumption, AnswerFacts
<1>3. FALSE \in BOOLEAN
  OBVIOUS
<1>4. Idle \in Request
  BY <1>1, <1>2, <1>3, Zenon DEF Idle, Request
<1>5. QED
  BY <1>1, <1>4 DEF Idle

-----------------------------------------------------------------------------
\* A positive probe saw the database.
Live(q) == q.pc = "answered" /\ q.url.kind = "health" /\ q.answer = Ok => q.sawUp

Phase == {"idle", "vault", "stored", "fetch", "latest", "vaultReport", "reportProof", "proof",
          "check", "answered"}

\* What requests have in common with one another.
RequestOK(q) == Progress(q) /\ Seen(q) /\ Live(q)

\* The invariant, request by request.
LEMMA RequestParts ==
  IInv <=> /\ TypeOK /\ CacheOK /\ SinceOK
           /\ \A r \in Requests : RequestOK(request[r])
BY Zenon DEF IInv, RequestsOK, SeenOK, ProbesAreLive, RequestOK, Live

\* The fields of a request that moved on.
LEMMA MovedPhase ==
  ASSUME NEW q \in Request, NEW p \in Phase
  PROVE  LET n == [q EXCEPT !.pc = p] IN
         /\ n \in Request /\ n.pc = p /\ n.url = q.url /\ n.cid = q.cid /\ n.age = q.age
         /\ n.answer = q.answer /\ (n.sawUp <=> q.sawUp)
BY Zenon DEF Request, Phase

\* Another gateway is asked; nothing else of the request changes.
LEMMA MovedGateway ==
  ASSUME NEW q \in Request, NEW g \in 1..Gateways
  PROVE  LET n == [q EXCEPT !.gateway = g] IN
         /\ n \in Request /\ n.pc = q.pc /\ n.url = q.url /\ n.cid = q.cid /\ n.age = q.age
         /\ n.answer = q.answer /\ (n.sawUp <=> q.sawUp)
BY Zenon DEF Request

\* A request grows older; nothing else of it changes.
LEMMA MovedAge ==
  ASSUME NEW q \in Request, NEW a \in 0..MaxHandling
  PROVE  LET n == [q EXCEPT !.age = a] IN
         /\ n \in Request /\ n.pc = q.pc /\ n.url = q.url /\ n.cid = q.cid /\ n.age = a
         /\ n.answer = q.answer /\ (n.sawUp <=> q.sawUp)
BY Zenon DEF Request

\* A request has seen the database up; nothing else of it changes.
LEMMA MovedSaw ==
  ASSUME NEW q \in Request
  PROVE  LET n == [q EXCEPT !.sawUp = TRUE] IN
         /\ n \in Request /\ n.pc = q.pc /\ n.url = q.url /\ n.cid = q.cid /\ n.age = q.age
         /\ n.answer = q.answer /\ n.sawUp
BY Zenon DEF Request

\* An answered request, however it came by its answer.
LEMMA AnsweredRequest ==
  ASSUME NEW r \in Requests, request[r] \in Request, NEW a \in Answers \cup {Error}
  PROVE  LET n == Answered(r, a) IN
         /\ n \in Request /\ n.pc = "answered" /\ n.url = request[r].url /\ n.answer = a
         /\ (n.sawUp <=> request[r].sawUp)
<1>1. request[r].url \in Urls /\ request[r].sawUp \in BOOLEAN
  BY Zenon DEF Request
<1>2. QED
  BY <1>1, IdleFacts, Zenon DEF Request, Answered

-----------------------------------------------------------------------------
\* What Good and Progress depend on: nothing else has to be looked at in a step that
\* leaves these variables alone.
Same == UNCHANGED <<asked, latest, holds, known, stored, database, since>>

\* A step of one request that leaves the world alone.
LEMMA StepKeeps ==
  ASSUME IInv, Same, faults' \in 0..MaxFaults, Trees',
         cache' \in [Urls -> Kept], CacheOK',
         NEW r \in Requests, NEW q \in Request, RequestOK(q),
         request' = [request EXCEPT ![r] = q]
  PROVE  IInv'
<1>1. /\ request' \in [Requests -> Request]
      /\ \A s \in Requests : request'[s] = IF s = r THEN q ELSE request[s]
  BY Zenon DEF IInv, TypeOK
<1>2. World' /\ known' \in BOOLEAN /\ database' \in BOOLEAN
  BY Zenon DEF IInv, TypeOK, Same, World
<1>3. TypeOK'
  BY <1>1, <1>2, TypeParts, Zenon DEF TypeOK, World, Trees, Kept
<1>4. SinceOK'
  BY Zenon DEF IInv, SinceOK, Same
<1>5. \A s \in Requests : Progress(request'[s]) /\ Seen(request'[s]) /\ Live(request'[s])
  BY <1>1, RequestParts, Zenon DEF RequestOK
<1>6. RequestsOK'
  <2> SUFFICES ASSUME NEW s \in Requests PROVE Progress(request[s])'
    BY Zenon DEF RequestsOK
  <2>1. Progress(request'[s])
    BY <1>5
  <2>2. QED
    BY <2>1, Zenon DEF Progress, Good, Same
<1>7. SeenOK'
  BY <1>5, Zenon DEF SeenOK, Seen, Same
<1>8. ProbesAreLive'
  BY <1>5, Zenon DEF ProbesAreLive, Live
<1>9. QED
  BY <1>3, <1>4, <1>6, <1>7, <1>8, Zenon DEF IInv

\* The cache is unchanged, or one entry has been renewed.
LEMMA CacheSame ==
  ASSUME IInv, Same, cache' = cache
  PROVE  cache' \in [Urls -> Kept] /\ CacheOK'
<1>1. CacheOK /\ cache' \in [Urls -> Kept]
  BY Zenon DEF IInv, TypeOK, Kept
<1>2. CacheOK'
  BY <1>1, Zenon DEF CacheOK, Good, Same
<1>3. QED
  BY <1>1, <1>2

\* A good answer is kept for its time to live.
LEMMA CacheRenewed ==
  ASSUME IInv, Same, NEW u \in Urls, NEW a \in Answers, u.kind # "health",
         Good(u, a, MaxHandling), cache' = [cache EXCEPT ![u] = [answer |-> a, left |-> Ttl]]
  PROVE  cache' \in [Urls -> Kept] /\ CacheOK'
<1> DEFINE e == [answer |-> a, left |-> Ttl]
<1>1. e \in Kept /\ e.answer = a /\ e.left = Ttl
  BY ReportsApiAssumption DEF Kept
<1>2. cache \in [Urls -> Kept] /\ CacheOK
  BY Zenon DEF IInv, TypeOK, Kept
<1> HIDE DEF e
<1>3. /\ cache' \in [Urls -> Kept]
      /\ \A v \in Urls : cache'[v] = IF v = u THEN e ELSE cache[v]
  BY <1>1, <1>2, Zenon DEF e
<1>4. ASSUME NEW v \in Urls, cache'[v].left > 0
      PROVE  v.kind # "health" /\ Good(v, cache'[v].answer, Ttl + MaxHandling - cache'[v].left)
  <2>1. CASE v = u
    <3>1. Ttl + MaxHandling - cache'[v].left = MaxHandling
      BY <2>1, <1>1, <1>3, ReportsApiAssumption
    <3>2. QED
      BY <2>1, <3>1, <1>1, <1>3, Zenon
  <2>2. CASE v # u
    BY <2>2, <1>2, <1>3, <1>4, Zenon DEF CacheOK
  <2>3. QED
    BY <2>1, <2>2
<1>5. CacheOK'
  <2> SUFFICES ASSUME NEW v \in Urls, cache'[v].left > 0
               PROVE  v.kind # "health" /\ Good(v, cache[v].answer, Ttl + MaxHandling - cache[v].left)'
    BY Zenon DEF CacheOK
  <2>1. QED
    BY <1>4, Zenon DEF Good, Same
<1>6. QED
  BY <1>3, <1>5

-----------------------------------------------------------------------------
\* The keys of the LRU.
Keys(s, n) ==
  /\ s \in Seq(stored) /\ Len(s) <= n
  /\ \A i, j \in 1..Len(s) : s[i] = s[j] => i = j

\* The cache of trees without a key: the others, in their order, and that key no more.
LEMMA WithoutFacts ==
  ASSUME Trees, NEW c \in stored
  PROVE  Keys(Without(c), CacheMax) /\ \A i \in 1..Len(Without(c)) : Without(c)[i] # c
<1> DEFINE at == {i \in 1..Len(trees) : trees[i] = c}
           k == CHOOSE j \in at : TRUE
           a == SubSeq(trees, 1, k - 1)
           b == SubSeq(trees, k + 1, Len(trees))
<1>1. CASE at = {}
  <2>1. Without(c) = trees
    BY <1>1, Zenon DEF Without
  <2>2. \A i \in 1..Len(trees) : trees[i] # c
    BY <1>1
  <2>3. QED
    BY <2>1, <2>2, Zenon DEF Trees, Keys
<1>2. CASE at # {}
  <2>1. k \in at
    BY <1>2, Zenon
  <2>2. k \in 1..Len(trees) /\ trees[k] = c
    BY <2>1, Zenon
  <2>3. Without(c) = a \o b
    BY <1>2, Zenon DEF Without
  <2>4. trees \in Seq(stored) /\ Len(trees) \in Nat
    BY DEF Trees
  <2> HIDE DEF k
  <2>5. /\ a \in Seq(stored) /\ Len(a) = k - 1
        /\ \A i \in 1..(k - 1) : a[i] = trees[i]
    BY <2>2, <2>4, SubSeqProperties
  <2>6. /\ b \in Seq(stored) /\ Len(b) = Len(trees) - k
        /\ \A i \in 1..(Len(trees) - k) : b[i] = trees[k + i]
    BY <2>2, <2>4, SubSeqProperties
  <2> HIDE DEF a, b
  <2>7. /\ Without(c) \in Seq(stored) /\ Len(Without(c)) = Len(trees) - 1
        /\ \A i \in 1..(Len(trees) - 1) : Without(c)[i] = IF i < k THEN trees[i] ELSE trees[i + 1]
    <3>1. /\ a \o b \in Seq(stored) /\ Len(a \o b) = Len(a) + Len(b)
          /\ \A i \in 1..(Len(a) + Len(b)) : (a \o b)[i] = IF i <= Len(a) THEN a[i] ELSE b[i - Len(a)]
      BY <2>5, <2>6, ConcatProperties
    <3>2. Len(a) + Len(b) = Len(trees) - 1
      BY <2>2, <2>4, <2>5, <2>6
    <3>3. \A i \in 1..(Len(trees) - 1) : i < k => (a \o b)[i] = trees[i]
      BY <2>2, <2>4, <2>5, <3>1, <3>2
    <3>4. ASSUME NEW i \in 1..(Len(trees) - 1), ~(i < k)
          PROVE  (a \o b)[i] = trees[i + 1]
      <4>1. (a \o b)[i] = b[i - (k - 1)]
        BY <2>2, <2>4, <2>5, <3>1, <3>2, <3>4
      <4>2. i - (k - 1) \in 1..(Len(trees) - k) /\ k + (i - (k - 1)) = i + 1
        BY <2>2, <2>4, <3>4
      <4>3. QED
        BY <4>1, <4>2, <2>6
    <3>5. QED
      BY <2>3, <3>1, <3>2, <3>3, <3>4
  <2>8. \A i, j \in 1..Len(trees) : trees[i] = trees[j] => i = j
    BY DEF Trees
  <2>9. Len(trees) <= CacheMax
    BY DEF Trees
  <2>10. \A i, j \in 1..(Len(trees) - 1) : Without(c)[i] = Without(c)[j] => i = j
    BY <2>2, <2>4, <2>7, <2>8
  <2>11. \A i \in 1..(Len(trees) - 1) : Without(c)[i] # c
    BY <2>2, <2>4, <2>7, <2>8
  <2>12. QED
    BY <2>4, <2>7, <2>9, <2>10, <2>11, ReportsApiAssumption DEF Keys
<1>3. QED
  BY <1>1, <1>2

\* A key that is set is there once, and the cache keeps its size.
LEMMA SetTreeKeeps ==
  ASSUME Trees, NEW c \in stored, SetTree(c), stored' = stored
  PROVE  Trees'
<1> DEFINE w == Without(c)
<1>1. Keys(w, CacheMax) /\ \A i \in 1..Len(w) : w[i] # c
  BY WithoutFacts
<1>2. trees' = IF Len(w) >= CacheMax THEN Append(Tail(w), c) ELSE Append(w, c)
  BY Zenon DEF SetTree
<1> HIDE DEF w
<1>3. CASE Len(w) >= CacheMax
  <2>1. w # << >> /\ Len(w) = CacheMax
    BY <1>1, <1>3, ReportsApiAssumption DEF Keys
  <2>2. /\ Tail(w) \in Seq(stored) /\ Len(Tail(w)) = Len(w) - 1
        /\ \A i \in 1..(Len(w) - 1) : Tail(w)[i] = w[i + 1]
    BY <1>1, <2>1 DEF Keys
  <2> DEFINE t == Tail(w)
  <2> HIDE DEF t
  <2>3. /\ trees' = Append(t, c) /\ t \in Seq(stored) /\ Len(t) = Len(w) - 1
        /\ \A i \in 1..(Len(w) - 1) : t[i] = w[i + 1]
    BY <1>2, <1>3, <2>2, Zenon DEF t
  <2>4. \A i, j \in 1..Len(t) : t[i] = t[j] => i = j
    BY <1>1, <2>3 DEF Keys
  <2>5. \A i \in 1..Len(t) : t[i] # c
    BY <1>1, <2>3 DEF Keys
  <2>6. QED
    BY <2>1, <2>3, <2>4, <2>5, ReportsApiAssumption DEF Trees
<1>4. CASE ~(Len(w) >= CacheMax)
  BY <1>1, <1>2, <1>4, ReportsApiAssumption DEF Trees, Keys
<1>5. QED
  BY <1>3, <1>4

\* The trees while nothing is fetched.
LEMMA TreesSame ==
  ASSUME Trees, stored' = stored, trees' = trees
  PROVE  Trees'
BY Zenon DEF Trees

-----------------------------------------------------------------------------
\* The ways a handler can leave its request.
LEMMA ProceedKeeps ==
  ASSUME IInv, Same, faults' \in 0..MaxFaults, Trees',
         NEW r \in Requests, NEW q \in Request, RequestOK(q), Proceed(r, q)
  PROVE  IInv'
<1>1. request' = [request EXCEPT ![r] = q] /\ cache' = cache
  BY Zenon DEF Proceed
<1>2. QED
  BY <1>1, CacheSame, StepKeeps

\* An error is answered and not kept.
LEMMA FailKeeps ==
  ASSUME IInv, Same, faults' \in 0..MaxFaults, Trees',
         NEW r \in Requests, Fail(r)
  PROVE  IInv'
<1> DEFINE q == Answered(r, Error)
<1>1. request' = [request EXCEPT ![r] = q] /\ cache' = cache
  BY Zenon DEF Fail
<1>2. request[r] \in Request /\ Error \in Answers \cup {Error}
  BY Zenon DEF IInv, TypeOK
<1>3. q \in Request /\ q.pc = "answered" /\ q.answer = Error
  BY <1>2, AnsweredRequest, Zenon
<1> HIDE DEF q
<1>4. RequestOK(q)
  BY <1>3, AnswerFacts DEF RequestOK, Progress, Seen, Live, Good
<1>5. QED
  BY <1>1, <1>3, <1>4, CacheSame, StepKeeps

\* A response may only be kept as long as it is good.
LEMMA RespondKeeps ==
  ASSUME IInv, Same, faults' \in 0..MaxFaults, Trees',
         NEW r \in Requests, NEW a \in Answers, Respond(r, a),
         Good(request[r].url, a, MaxHandling),
         request[r].url.kind = "health" => request[r].sawUp
  PROVE  IInv'
<1> DEFINE q == Answered(r, a)
           u == request[r].url
<1>1. /\ request' = [request EXCEPT ![r] = q]
      /\ cache' = IF TrackBy(u) THEN [cache EXCEPT ![u] = [answer |-> a, left |-> Ttl]] ELSE cache
  BY Zenon DEF Respond
<1>2. request[r] \in Request /\ u \in Urls /\ a \in Answers \cup {Error}
  BY Zenon DEF IInv, TypeOK, Request
<1>3. /\ q \in Request /\ q.pc = "answered" /\ q.url = u /\ q.answer = a
      /\ (q.sawUp <=> request[r].sawUp)
  BY <1>2, AnsweredRequest, Zenon
<1>4. Good(u, a, MaxHandling) /\ (u.kind = "health" => request[r].sawUp)
  OBVIOUS
<1>5. TrackBy(u) <=> u.kind # "health"
  BY <1>2, UrlFacts DEF TrackBy, SkipCache
<1> HIDE DEF q, u
<1>6. Good(u, a, Ttl + MaxHandling)
  <2>1. since \in [Cids -> 0..Outdated] /\ latest \in Cids
    BY Zenon DEF IInv, TypeOK
  <2>2. QED
    BY <1>4, <2>1, AnswerFacts, ReportsApiAssumption DEF Good, Cids
<1>7. Progress(q)
  BY <1>3, <1>6, Zenon DEF Progress
<1>8. RequestOK(q)
  BY <1>3, <1>4, <1>7, Zenon DEF RequestOK, Seen, Live
<1>9. cache' \in [Urls -> Kept] /\ CacheOK'
  <2>1. CASE u.kind = "health"
    BY <2>1, <1>1, <1>5, CacheSame
  <2>2. CASE u.kind # "health"
    BY <2>2, <1>1, <1>2, <1>4, <1>5, CacheRenewed
  <2>3. QED
    BY <2>1, <2>2
<1>10. QED
  BY <1>1, <1>3, <1>8, <1>9, StepKeeps

-----------------------------------------------------------------------------
\* Good is weaker the more ticks it allows.
LEMMA GoodWeakens ==
  ASSUME World, NEW u, NEW a, NEW m \in Int, NEW n \in Int, m <= n, Good(u, a, m)
  PROVE  Good(u, a, n)
<1>1. since \in [Cids -> 0..Outdated] /\ latest \in Cids
  BY Zenon DEF World
<1>2. Cids = 1..Reports /\ Reports \in Nat /\ Outdated \in Nat
  BY AnswerFacts DEF Cids
<1>3. QED
  BY <1>1, <1>2 DEF Good

\* What a step of a request starts from.
LEMMA AtRequest ==
  ASSUME IInv, NEW r \in Requests
  PROVE  /\ World /\ Trees /\ SinceOK
         /\ request[r] \in Request /\ request[r].url \in Urls /\ request[r].cid \in 0..Reports
         /\ request[r].gateway \in 1..Gateways /\ request[r].age \in 0..MaxHandling
         /\ RequestOK(request[r]) /\ Progress(request[r])
<1>1. RequestOK(request[r]) /\ TypeOK /\ SinceOK
  BY RequestParts, Zenon
<1>2. World /\ Trees /\ request[r] \in Request
  BY <1>1, TypeParts, Zenon
<1>3. QED
  BY <1>1, <1>2, Zenon DEF RequestOK, Request

\* Faults stay within their bound.
LEMMA FaultTyped ==
  ASSUME IInv, Fault \/ UNCHANGED faults
  PROVE  faults' \in 0..MaxFaults
<1>1. faults \in 0..MaxFaults
  BY Zenon DEF IInv, TypeOK
<1>2. QED
  BY <1>1, ReportsApiAssumption DEF Fault

\* A request is answered from the cache or goes to its handler.
LEMMA ArriveKeeps ==
  ASSUME IInv, NEW r \in Requests, NEW url \in Urls, Arrive(r, url)
  PROVE  IInv'
<1>1. Same /\ faults' \in 0..MaxFaults /\ Trees' /\ (Hit(r, url) \/ Miss(r, url))
  <2>1. Same /\ faults' = faults /\ trees' = trees /\ stored' = stored
    BY Zenon DEF Arrive, Same
  <2>2. faults' \in 0..MaxFaults
    BY <2>1, FaultTyped
  <2>3. Trees'
    BY <2>1, TreesSame, AtRequest, Zenon
  <2>4. QED
    BY <2>1, <2>2, <2>3, Zenon DEF Arrive
<1>2. database \in BOOLEAN /\ cache[url] \in Kept /\ CacheOK /\ World
  BY TypeParts, Zenon DEF IInv
<1>3. CASE Hit(r, url)
  <2> DEFINE q == [Idle EXCEPT !.pc = "answered", !.url = url, !.answer = cache[url].answer,
                               !.sawUp = database]
  <2>1. TrackBy(url) /\ cache[url].left > 0 /\ cache' = cache /\ request' = [request EXCEPT ![r] = q]
    BY <1>3, Zenon DEF Hit
  <2>2. cache[url].answer \in Answers /\ cache[url].left \in 0..Ttl
    BY <1>2 DEF Kept
  <2>3. q \in Request /\ q.pc = "answered" /\ q.url = url /\ q.answer = cache[url].answer
    BY <1>2, <2>2, IdleFacts, Zenon DEF Request
  <2> HIDE DEF q
  <2>4. url.kind # "health" /\ Good(url, cache[url].answer, Ttl + MaxHandling - cache[url].left)
    BY <1>2, <2>1, Zenon DEF CacheOK
  <2>5. Good(url, cache[url].answer, Ttl + MaxHandling)
    <3>1. /\ Ttl + MaxHandling - cache[url].left \in Int /\ Ttl + MaxHandling \in Int
          /\ Ttl + MaxHandling - cache[url].left <= Ttl + MaxHandling
      BY <2>2, ReportsApiAssumption
    <3>2. QED
      BY <3>1, <2>4, <1>2, GoodWeakens
  <2>6. RequestOK(q)
    BY <2>3, <2>4, <2>5, Zenon DEF RequestOK, Progress, Seen, Live
  <2>7. QED
    BY <1>1, <2>1, <2>3, <2>6, CacheSame, StepKeeps
<1>4. CASE Miss(r, url)
  <2> DEFINE q == [Idle EXCEPT !.pc = FirstStep(url), !.url = url, !.cid = url.cid,
                               !.sawUp = database]
  <2>1. cache' = cache /\ request' = [request EXCEPT ![r] = q]
    BY <1>4, Zenon DEF Miss
  <2>2. /\ url.kind \in {"cid", "last", "previous"} => FirstStep(url) = "vault"
        /\ url.kind = "proof" => FirstStep(url) = "proof"
        /\ url.kind = "health" => FirstStep(url) = "check"
    BY DEF FirstStep
  <2>3. FirstStep(url) \in Phase /\ FirstStep(url) \in {"vault", "proof", "check"}
    BY <2>2, UrlFacts DEF Phase
  <2>4. /\ q \in Request /\ q.pc = FirstStep(url) /\ q.url = url /\ q.cid = url.cid
        /\ (q.sawUp <=> database)
    BY <1>2, <2>3, IdleFacts, UrlFacts, Zenon DEF Request, Phase
  <2> HIDE DEF q
  <2>5. Progress(q)
    BY <2>2, <2>3, <2>4, UrlFacts DEF Progress
  <2>6. Seen(q)
    BY <2>4, Zenon DEF Seen
  <2>7. Live(q)
    BY <2>3, <2>4 DEF Live
  <2>8. QED
    BY <1>1, <2>1, <2>4, <2>5, <2>6, <2>7, CacheSame, StepKeeps DEF RequestOK
<1>5. QED
  BY <1>1, <1>3, <1>4

-----------------------------------------------------------------------------
\* A handler goes on: its phase, its report and its gateway may change.
LEMMA GoesOn ==
  ASSUME IInv, NEW r \in Requests, InProgress(r), NEW q \in Request,
         q.pc \notin {"idle", "answered"}, q.sawUp <=> request[r].sawUp, Progress(q)
  PROVE  RequestOK(q)
<1>1. Seen(request[r])
  BY Zenon DEF IInv, SeenOK
<1>2. Seen(q)
  BY <1>1, Zenon DEF Seen, InProgress
<1>3. Live(q)
  BY Zenon DEF Live
<1>4. QED
  BY <1>2, <1>3 DEF RequestOK

\* Null is an answer that is good for any endpoint but a probe.
LEMMA NullKeeps ==
  ASSUME IInv, Same, faults' \in 0..MaxFaults, Trees',
         NEW r \in Requests, Respond(r, Null), request[r].url.kind # "health"
  PROVE  IInv'
<1>1. Null \in Answers /\ Good(request[r].url, Null, MaxHandling)
  BY AnswerFacts, Zenon DEF Good
<1>2. QED
  BY <1>1, RespondKeeps, Zenon

\* The next gateway is tried for the same report.
LEMMA NextGatewayKeeps ==
  ASSUME IInv, Same, faults' \in 0..MaxFaults, Trees',
         NEW r \in Requests, NextGateway(r), request[r].url.kind # "health", InProgress(r)
  PROVE  IInv'
<1> DEFINE old == request[r]
           q == [old EXCEPT !.gateway = @ + 1]
<1>1. CASE old.gateway < Gateways
  <2>1. Proceed(r, q)
    BY <1>1, Zenon DEF NextGateway
  <2>2. old \in Request /\ old.gateway + 1 \in 1..Gateways /\ Progress(old)
    BY <1>1, AtRequest, ReportsApiAssumption
  <2>3. old.pc \notin {"idle", "answered"}
    BY Zenon DEF InProgress
  <2>4. /\ q \in Request /\ q.pc = old.pc /\ q.url = old.url /\ q.cid = old.cid /\ q.age = old.age
        /\ q.answer = old.answer /\ (q.sawUp <=> old.sawUp)
    BY <2>2, MovedGateway, Zenon
  <2> HIDE DEF q
  <2>5. Progress(q)
    BY <2>2, <2>4, Zenon DEF Progress
  <2>6. RequestOK(q)
    BY <2>3, <2>4, <2>5, GoesOn, Zenon
  <2>7. QED
    BY <2>1, <2>4, <2>6, ProceedKeeps
<1>2. CASE ~(old.gateway < Gateways)
  BY <1>2, NullKeeps, Zenon DEF NextGateway
<1>3. QED
  BY <1>1, <1>2

-----------------------------------------------------------------------------
\* The handlers, one by one.
LEMMA AssertVaultExistsKeeps ==
  ASSUME IInv, NEW r \in Requests, AssertVaultExists(r)
  PROVE  IInv'
<1> DEFINE old == request[r]
           p == IF old.url.kind = "cid" THEN "stored" ELSE "latest"
           q == [old EXCEPT !.pc = p]
<1>1. /\ Same /\ faults' = faults /\ trees' = trees /\ stored' = stored /\ old.pc = "vault"
      /\ Fail(r) \/ Proceed(r, q)
  BY Zenon DEF AssertVaultExists, Elsewhere, Same, At
<1>2. faults' \in 0..MaxFaults /\ Trees'
  BY <1>1, FaultTyped, TreesSame, AtRequest
<1>3. old \in Request /\ Progress(old) /\ InProgress(r)
  BY <1>1, AtRequest DEF InProgress
<1>4. p \in Phase /\ p \in {"stored", "latest"} /\ (p = "stored" <=> old.url.kind = "cid")
  BY DEF Phase
<1>5. /\ q \in Request /\ q.pc = p /\ q.url = old.url /\ q.cid = old.cid
      /\ (q.sawUp <=> old.sawUp)
  BY <1>3, <1>4, MovedPhase, Zenon
<1> HIDE DEF q, p
<1>6. Progress(q)
  BY <1>1, <1>3, <1>4, <1>5 DEF Progress
<1>7. RequestOK(q)
  BY <1>3, <1>4, <1>5, <1>6, GoesOn
<1>8. QED
  BY <1>1, <1>2, <1>5, <1>7, FailKeeps, ProceedKeeps

\* A report that is not stored has no answer; a stored one is in the cache or is fetched.
LEMMA ExistsByCidKeeps ==
  ASSUME IInv, NEW r \in Requests, ExistsByCid(r)
  PROVE  IInv'
<1> DEFINE old == request[r]
           c == old.cid
           q == [old EXCEPT !.pc = "fetch"]
<1>1. Same /\ faults' = faults /\ stored' = stored /\ old.pc = "stored"
  BY Zenon DEF ExistsByCid, Elsewhere, Same, At
<1>2. /\ old \in Request /\ Progress(old) /\ InProgress(r) /\ faults' \in 0..MaxFaults
      /\ Trees /\ World
  BY <1>1, AtRequest, FaultTyped DEF InProgress
<1>3. old.url.kind = "cid" /\ c = old.url.cid /\ c \in Cids
  BY <1>1, <1>2 DEF Progress
<1>4. CASE Fail(r) /\ trees' = trees
  BY <1>1, <1>2, <1>4, TreesSame, FailKeeps
<1>5. CASE Respond(r, Null) /\ trees' = trees
  BY <1>1, <1>2, <1>3, <1>5, TreesSame, NullKeeps
<1>6. CASE c \in stored /\ SetTree(c) /\ Respond(r, Lookup(c))
  <2>1. Trees'
    BY <1>1, <1>2, <1>6, SetTreeKeeps
  <2>2. Lookup(c) \in Answers /\ Good(old.url, Lookup(c), MaxHandling)
    BY <1>3, <1>6, AnswerFacts, Zenon DEF Lookup, Good
  <2>3. QED
    BY <2>1, <2>2, <1>1, <1>2, <1>3, <1>6, RespondKeeps
<1>7. CASE c \in stored /\ Proceed(r, q) /\ trees' = trees
  <2>1. /\ q \in Request /\ q.pc = "fetch" /\ q.url = old.url /\ q.cid = c
        /\ (q.sawUp <=> old.sawUp)
    BY <1>2, MovedPhase, Zenon DEF Phase
  <2> HIDE DEF q
  <2>2. Progress(q)
    BY <1>2, <1>3, <1>7, <2>1 DEF Progress
  <2>3. RequestOK(q)
    BY <1>2, <2>1, <2>2, GoesOn
  <2>4. QED
    BY <1>1, <1>2, <1>7, <2>1, <2>3, TreesSame, ProceedKeeps
<1>8. QED
  BY <1>4, <1>5, <1>6, <1>7, Zenon DEF ExistsByCid

\* The verified report is looked up; after a failed fetch the next gateway is tried.
LEMMA FetchIPFSKeeps ==
  ASSUME IInv, NEW r \in Requests, NEW content \in Fetched, FetchIPFS(r, content)
  PROVE  IInv'
<1> DEFINE old == request[r]
           c == old.cid
<1>1. Same /\ stored' = stored /\ old.pc = "fetch"
  BY Zenon DEF FetchIPFS, Elsewhere, Same, At
<1>2. /\ Progress(old) /\ InProgress(r) /\ Trees
      /\ old.url.kind = "cid" /\ c = old.url.cid /\ c \in Cids /\ c \in stored
  BY <1>1, AtRequest DEF InProgress, Progress
<1>3. CASE content = c /\ SetTree(c) /\ Respond(r, Lookup(content)) /\ faults' = faults
  <2>1. Trees' /\ faults' \in 0..MaxFaults
    BY <1>1, <1>2, <1>3, SetTreeKeeps, FaultTyped
  <2>2. Lookup(content) \in Answers /\ Good(old.url, Lookup(content), MaxHandling)
    BY <1>2, <1>3, AnswerFacts, Zenon DEF Lookup, Good
  <2>3. QED
    BY <2>1, <2>2, <1>1, <1>2, <1>3, RespondKeeps
<1>4. CASE NextGateway(r) /\ Fault /\ trees' = trees
  BY <1>1, <1>2, <1>4, TreesSame, FaultTyped, NextGatewayKeeps
<1>5. QED
  BY <1>3, <1>4, Zenon DEF FetchIPFS, Verified

\* A report beyond the size limit has no answer.
LEMMA ReportTooLargeKeeps ==
  ASSUME IInv, NEW r \in Requests, ReportTooLarge(r)
  PROVE  IInv'
<1>1. /\ Same /\ stored' = stored /\ request[r].pc = "fetch" /\ trees' = trees /\ Fault
      /\ Respond(r, Null)
  BY Zenon DEF ReportTooLarge, Elsewhere, Same, At
<1>2. request[r].url.kind = "cid" /\ Trees
  BY <1>1, AtRequest DEF Progress
<1>3. QED
  BY <1>1, <1>2, TreesSame, FaultTyped, NullKeeps

\* The handler takes the latest report of that moment.
LEMMA GetLatestReportDataKeeps ==
  ASSUME IInv, NEW r \in Requests, GetLatestReportData(r)
  PROVE  IInv'
<1> DEFINE old == request[r]
           p == IF old.url.kind = "last" THEN "reportProof" ELSE "vaultReport"
           q == [old EXCEPT !.pc = p, !.cid = latest]
<1>1. /\ Same /\ faults' = faults /\ trees' = trees /\ stored' = stored /\ old.pc = "latest"
      /\ Proceed(r, q)
  BY Zenon DEF GetLatestReportData, Elsewhere, Same, At
<1>2. faults' \in 0..MaxFaults /\ Trees'
  BY <1>1, FaultTyped, TreesSame, AtRequest
<1>3. old \in Request /\ Progress(old) /\ InProgress(r) /\ World /\ SinceOK /\ old.age \in 0..MaxHandling
  BY <1>1, AtRequest DEF InProgress
<1>4. /\ p \in Phase /\ p \in {"reportProof", "vaultReport"}
      /\ p = "reportProof" <=> old.url.kind = "last"
      /\ latest \in 0..Reports /\ latest \in 1..latest
  BY <1>3, ReportsApiAssumption DEF Phase, World, Cids
<1>5. /\ q \in Request /\ q.pc = p /\ q.url = old.url /\ q.cid = latest /\ q.age = old.age
      /\ (q.sawUp <=> old.sawUp)
  BY <1>3, <1>4, Zenon DEF Request, Phase
<1> HIDE DEF q, p
<1>6. since[latest] <= old.age
  BY <1>3, ReportsApiAssumption DEF SinceOK, World, Cids
<1>7. old.url.kind \in {"last", "previous"}
  BY <1>1, <1>3 DEF Progress
<1>8. Progress(q)
  BY <1>4, <1>5, <1>6, <1>7 DEF Progress
<1>9. RequestOK(q)
  BY <1>3, <1>4, <1>5, <1>8, GoesOn
<1>10. QED
  BY <1>1, <1>2, <1>5, <1>9, ProceedKeeps

\* The contract cannot be read.
LEMMA GetLatestReportDataFailsKeeps ==
  ASSUME IInv, NEW r \in Requests, GetLatestReportDataFails(r)
  PROVE  IInv'
<1>1. Same /\ stored' = stored /\ trees' = trees /\ Fault /\ Fail(r)
  BY Zenon DEF GetLatestReportDataFails, Elsewhere, Same
<1>2. QED
  BY <1>1, TreesSame, AtRequest, FaultTyped, FailKeeps

\* The report that the latest one names as its previous is the next to look at.
LEMMA GetVaultReportKeeps ==
  ASSUME IInv, NEW r \in Requests, NEW content \in Fetched, GetVaultReport(r, content)
  PROVE  IInv'
<1> DEFINE old == request[r]
           q == [old EXCEPT !.pc = "reportProof", !.cid = content - 1, !.gateway = 1]
<1>1. Same /\ stored' = stored /\ trees' = trees /\ old.pc = "vaultReport"
  BY Zenon DEF GetVaultReport, Elsewhere, Same, At
<1>2. /\ old \in Request /\ InProgress(r) /\ Trees' /\ World
      /\ old.age \in 0..MaxHandling
  BY <1>1, AtRequest, TreesSame DEF InProgress
<1>3. /\ old.url.kind = "previous" /\ old.cid \in 1..latest /\ since[old.cid] <= old.age
  BY <1>1, AtRequest DEF Progress
<1>4. CASE Respond(r, Null) /\ UNCHANGED faults
  BY <1>1, <1>2, <1>3, <1>4, FaultTyped, NullKeeps
<1>5. CASE NextGateway(r) /\ (Fault \/ UNCHANGED faults)
  BY <1>1, <1>2, <1>3, <1>5, FaultTyped, NextGatewayKeeps
<1>6. CASE content = old.cid /\ content # 1 /\ Proceed(r, q) /\ UNCHANGED faults
  <2>1. latest \in Nat /\ latest <= Reports /\ Reports \in Nat
    BY <1>2, ReportsApiAssumption DEF World, Cids
  <2>2. /\ content - 1 \in 0..Reports /\ content - 1 \in 1..(latest - 1)
        /\ since[(content - 1) + 1] <= old.age /\ 1 \in 1..Gateways
    BY <1>3, <1>6, <2>1, ReportsApiAssumption
  <2>3. /\ q \in Request /\ q.pc = "reportProof" /\ q.url = old.url /\ q.cid = content - 1
        /\ q.age = old.age /\ (q.sawUp <=> old.sawUp)
    BY <1>2, <2>2, Zenon DEF Request
  <2> HIDE DEF q
  <2>4. Progress(q)
    BY <1>3, <2>2, <2>3 DEF Progress
  <2>5. RequestOK(q)
    BY <1>2, <2>3, <2>4, GoesOn
  <2>6. QED
    BY <1>1, <1>2, <1>6, <2>3, <2>5, FaultTyped, ProceedKeeps
<1>7. QED
  BY <1>4, <1>5, <1>6, Zenon DEF GetVaultReport, Verified

\* The vault in the report of the cid, and in no other.
LEMMA GetReportProofByVaultKeeps ==
  ASSUME IInv, NEW r \in Requests, NEW content \in Fetched, GetReportProofByVault(r, content)
  PROVE  IInv'
<1> DEFINE old == request[r]
<1>1. Same /\ stored' = stored /\ trees' = trees /\ old.pc = "reportProof"
  BY Zenon DEF GetReportProofByVault, Elsewhere, Same, At
<1>2. InProgress(r) /\ Trees' /\ World /\ old.age \in 0..MaxHandling
  BY <1>1, AtRequest, TreesSame DEF InProgress
<1>3. \/ old.url.kind = "last" /\ old.cid \in 1..latest /\ since[old.cid] <= old.age
      \/ old.url.kind = "previous" /\ old.cid \in 1..(latest - 1) /\ since[old.cid + 1] <= old.age
  BY <1>1, AtRequest DEF Progress
<1>4. CASE NextGateway(r) /\ Fault
  BY <1>1, <1>2, <1>3, <1>4, FaultTyped, NextGatewayKeeps
<1>5. CASE content = old.cid /\ Respond(r, Lookup(content)) /\ UNCHANGED faults
  <2>1. /\ latest \in Nat /\ latest <= Reports /\ Reports \in Nat /\ Cids = 1..Reports
        /\ since \in [Cids -> 0..Outdated] /\ Outdated \in Nat
    BY <1>2, AnswerFacts, ReportsApiAssumption DEF World, Cids
  <2>2. content \in Cids
    BY <1>3, <1>5, <2>1
  <2>3. Lookup(content) \in Answers /\ (Lookup(content) \in Cids => Lookup(content) = content /\ content \in holds)
    BY <2>2, AnswerFacts, Zenon DEF Lookup
  <2>4. old.url.kind = "last" => since[content] <= MaxHandling
    BY <1>2, <1>3, <1>5, <2>1, <2>2, ReportsApiAssumption
  <2>5. old.url.kind = "previous" => content < latest /\ since[content + 1] <= MaxHandling
    <3>1. old.url.kind = "previous" => content < latest /\ content + 1 \in Cids /\ since[content + 1] <= old.age
      BY <1>3, <1>5, <2>1, <2>2
    <3>2. QED
      BY <3>1, <1>2, <2>1, ReportsApiAssumption
  <2>6. Good(old.url, Lookup(content), MaxHandling) /\ old.url.kind # "health"
    BY <1>3, <2>3, <2>4, <2>5 DEF Good
  <2>7. QED
    BY <1>1, <1>2, <1>5, <2>3, <2>6, FaultTyped, RespondKeeps
<1>6. QED
  BY <1>4, <1>5, Zenon DEF GetReportProofByVault, Verified

\* A proof, or 400 for an index out of range.
LEMMA CreateProofKeeps ==
  ASSUME IInv, NEW r \in Requests, CreateProof(r)
  PROVE  IInv'
<1>1. /\ Same /\ stored' = stored /\ trees' = trees /\ UNCHANGED faults /\ request[r].pc = "proof"
      /\ Respond(r, Ok) \/ Fail(r)
  BY Zenon DEF CreateProof, Elsewhere, Same, At
<1>2. Trees' /\ faults' \in 0..MaxFaults /\ request[r].url.kind = "proof"
  BY <1>1, AtRequest, TreesSame, FaultTyped DEF Progress
<1>3. Ok \in Answers /\ Good(request[r].url, Ok, MaxHandling)
  BY AnswerFacts, Zenon DEF Good
<1>4. QED
  BY <1>1, <1>2, <1>3, RespondKeeps, FailKeeps

\* The next URL is tried, and after the last one the error is thrown.
LEMMA CreateProofFailsKeeps ==
  ASSUME IInv, NEW r \in Requests, CreateProofFails(r)
  PROVE  IInv'
<1> DEFINE old == request[r]
           q == [old EXCEPT !.gateway = @ + 1]
<1>1. /\ Same /\ stored' = stored /\ trees' = trees /\ Fault /\ old.pc = "proof"
      /\ (old.gateway < Gateways /\ Proceed(r, q)) \/ Fail(r)
  BY Zenon DEF CreateProofFails, Elsewhere, Same, At
<1>2. Trees' /\ faults' \in 0..MaxFaults /\ Progress(old) /\ InProgress(r) /\ old \in Request
  BY <1>1, AtRequest, TreesSame, FaultTyped DEF InProgress
<1>3. CASE old.gateway < Gateways /\ Proceed(r, q)
  <2>1. old.gateway + 1 \in 1..Gateways
    BY <1>3, AtRequest, ReportsApiAssumption
  <2>2. /\ q \in Request /\ q.pc = old.pc /\ q.url = old.url /\ q.cid = old.cid /\ q.age = old.age
        /\ q.answer = old.answer /\ (q.sawUp <=> old.sawUp)
    BY <1>2, <2>1, MovedGateway, Zenon
  <2> HIDE DEF q
  <2>3. Progress(q)
    BY <1>2, <2>2, Zenon DEF Progress
  <2>4. RequestOK(q)
    BY <1>1, <1>2, <2>2, <2>3, GoesOn
  <2>5. QED
    BY <1>1, <1>2, <1>3, <2>2, <2>4, ProceedKeeps
<1>4. CASE Fail(r)
  BY <1>1, <1>2, <1>4, FailKeeps
<1>5. QED
  BY <1>1, <1>3, <1>4

\* A probe answers positively only while it sees the database.
LEMMA CheckKeeps ==
  ASSUME IInv, NEW r \in Requests, Check(r)
  PROVE  IInv'
<1>1. /\ Same /\ stored' = stored /\ trees' = trees /\ UNCHANGED faults /\ request[r].pc = "check"
      /\ (database /\ Respond(r, Ok)) \/ Fail(r)
  BY Zenon DEF Check, Elsewhere, Same, At
<1>2. Trees' /\ faults' \in 0..MaxFaults
  BY <1>1, AtRequest, TreesSame, FaultTyped
<1>3. Ok \in Answers /\ Good(request[r].url, Ok, MaxHandling)
  BY AnswerFacts, Zenon DEF Good
<1>4. Seen(request[r])
  BY Zenon DEF IInv, SeenOK
<1>5. database => request[r].sawUp
  BY <1>1, <1>4 DEF Seen
<1>6. QED
  BY <1>1, <1>2, <1>3, <1>5, RespondKeeps, FailKeeps, Zenon

\* A probe that finds the heap too large fails.
LEMMA CheckHeapFailsKeeps ==
  ASSUME IInv, NEW r \in Requests, CheckHeapFails(r)
  PROVE  IInv'
<1>1. Same /\ stored' = stored /\ trees' = trees /\ Fault /\ Fail(r)
  BY Zenon DEF CheckHeapFails, Elsewhere, Same
<1>2. QED
  BY <1>1, TreesSame, AtRequest, FaultTyped, FailKeeps

-----------------------------------------------------------------------------
\* The world moves: reports are published and imported, the vault is created and the
\* database goes away.
Grows ==
  /\ latest' \in Cids /\ latest' >= latest /\ stored \subseteq stored' /\ stored' \subseteq 1..latest'
  /\ known' \in BOOLEAN /\ database' \in BOOLEAN /\ (database' => database)
  /\ faults' \in 0..MaxFaults /\ UNCHANGED <<asked, holds, trees, cache, request, since>>

\* What only grows (reports, rows, failures) leaves answers and caches as good as before.
LEMMA GrowsKeeps ==
  ASSUME IInv, Grows
  PROVE  IInv'
<1>1. World /\ Trees /\ cache \in [Urls -> Kept] /\ request \in [Requests -> Request]
  BY TypeParts, Zenon DEF IInv
<1>2. latest \in Nat /\ latest' \in Nat /\ latest' >= latest
  BY <1>1, ReportsApiAssumption DEF World, Grows, Cids
<1>3. World'
  BY <1>1, Zenon DEF World, Grows
<1>4. Trees'
  <2>1. stored \subseteq stored' /\ trees' = trees
    BY Zenon DEF Grows
  <2>2. trees \in Seq(stored) /\ Len(trees) \in Nat
    BY <1>1 DEF Trees
  <2>3. \A i \in 1..Len(trees) : trees[i] \in stored'
    BY <2>1, <2>2
  <2>4. trees \in Seq(stored')
    BY <2>2, <2>3
  <2>5. QED
    BY <1>1, <2>1, <2>4, Zenon DEF Trees
<1>5. TypeOK'
  BY <1>1, <1>3, <1>4, TypeParts, Zenon DEF TypeOK, World, Trees, Kept, Grows
<1>6. SinceOK'
  BY <1>1, <1>2 DEF IInv, SinceOK, Grows, World, Cids
<1>7. CacheOK'
  <2> SUFFICES ASSUME NEW u \in Urls, cache'[u].left > 0
               PROVE  u.kind # "health" /\ Good(u, cache[u].answer, Ttl + MaxHandling - cache[u].left)'
    BY Zenon DEF CacheOK
  <2>1. u.kind # "health" /\ Good(u, cache[u].answer, Ttl + MaxHandling - cache[u].left)
    BY Zenon DEF IInv, CacheOK, Grows
  <2>2. \A c \in Cids : c < latest => c < latest'
    BY <1>2 DEF Cids
  <2>3. stored \subseteq stored' /\ cache' = cache /\ since' = since /\ holds' = holds
    BY Zenon DEF Grows
  <2> DEFINE n == Ttl + MaxHandling - cache[u].left
  <2>4. Good(u, cache[u].answer, n)'
    BY <2>1, <2>2, <2>3, Zenon DEF Good
  <2>5. QED
    BY <2>1, <2>4, Zenon
<1>8. RequestsOK'
  <2> SUFFICES ASSUME NEW r \in Requests PROVE Progress(request[r])'
    BY Zenon DEF RequestsOK
  <2>1. Progress(request[r]) /\ request' = request /\ since' = since /\ holds' = holds
    BY Zenon DEF IInv, RequestsOK, Grows
  <2>2. \A c : c \in stored => c \in stored'
    BY Zenon DEF Grows
  <2>3. (\A c \in 1..latest : c \in 1..latest') /\ (\A c \in 1..(latest - 1) : c \in 1..(latest' - 1))
    <3> DEFINE m == latest
               n == latest'
    <3>1. m \in Nat /\ n \in Nat /\ n >= m
      BY <1>2
    <3> HIDE DEF m, n
    <3>2. (\A c \in 1..m : c \in 1..n) /\ (\A c \in 1..(m - 1) : c \in 1..(n - 1))
      BY <3>1
    <3>3. QED
      BY <3>2 DEF m, n
  <2>4. \A c \in Cids : c < latest => c < latest'
    BY <1>2 DEF Cids
  <2> DEFINE q == request[r]
  <2>5. \A n : Good(q.url, q.answer, n) => Good(q.url, q.answer, n)'
    BY <2>1, <2>2, <2>4, Zenon DEF Good
  <2>6. QED
    BY <2>1, <2>2, <2>3, <2>5, Zenon DEF Progress
<1>9. SeenOK' /\ ProbesAreLive'
  BY Zenon DEF IInv, SeenOK, Seen, ProbesAreLive, Grows
<1>10. QED
  BY <1>5, <1>6, <1>7, <1>8, <1>9, Zenon DEF IInv

\* Reports, rows and the database change while requests are handled.
LEMMA WorldKeeps ==
  ASSUME IInv, Publish \/ (\E c \in Cids : SaveReport(c)) \/ CreateVault \/ DatabaseFails
  PROVE  IInv'
<1>1. /\ latest \in Cids /\ stored \subseteq 1..latest /\ known \in BOOLEAN /\ database \in BOOLEAN
      /\ faults \in 0..MaxFaults
  BY Zenon DEF IInv, TypeOK
<1>2. Cids = 1..Reports /\ Reports \in Nat /\ MaxFaults \in Nat /\ latest \in Nat
  BY <1>1, ReportsApiAssumption DEF Cids
<1>3. CASE Publish
  <2>1. latest' \in Cids /\ latest' >= latest /\ 1..latest \subseteq 1..latest'
    BY <1>1, <1>2, <1>3 DEF Publish
  <2>2. Grows
    BY <1>1, <1>3, <2>1, Zenon DEF Grows, Publish
  <2>3. QED
    BY <2>2, GrowsKeeps
<1>4. CASE \E c \in Cids : SaveReport(c)
  <2>1. PICK c \in Cids : SaveReport(c)
    BY <1>4
  <2>2. latest' = latest /\ stored' = stored \cup {c} /\ c \in 1..latest /\ latest >= latest
    BY <1>1, <1>2, <2>1 DEF SaveReport
  <2>3. stored \subseteq stored' /\ stored' \subseteq 1..latest'
    BY <1>1, <2>2
  <2>4. Grows
    BY <1>1, <2>1, <2>2, <2>3, Zenon DEF Grows, SaveReport
  <2>5. QED
    BY <2>4, GrowsKeeps
<1>5. CASE CreateVault
  <2>1. latest >= latest
    BY <1>2
  <2>2. Grows
    BY <1>1, <1>5, <2>1, Zenon DEF Grows, CreateVault
  <2>3. QED
    BY <2>2, GrowsKeeps
<1>6. CASE DatabaseFails
  <2>1. latest >= latest /\ faults' \in 0..MaxFaults
    BY <1>1, <1>2, <1>6 DEF DatabaseFails
  <2>2. Grows
    BY <1>1, <1>6, <2>1, Zenon DEF Grows, DatabaseFails
  <2>3. QED
    BY <2>2, GrowsKeeps
<1>7. QED
  BY <1>3, <1>4, <1>5, <1>6

\* The database comes back, and the requests in progress have seen it.
LEMMA DatabaseRecoversKeeps ==
  ASSUME IInv, DatabaseRecovers
  PROVE  IInv'
<1> DEFINE up(r) == [request[r] EXCEPT !.sawUp = TRUE]
<1>1. /\ database' = TRUE /\ UNCHANGED <<asked, latest, holds, known, stored, faults, trees, cache, since>>
      /\ request' = [r \in Requests |-> IF InProgress(r) THEN up(r) ELSE request[r]]
  BY Zenon DEF DatabaseRecovers
<1>2. /\ World /\ Trees /\ cache \in [Urls -> Kept] /\ request \in [Requests -> Request]
      /\ known \in BOOLEAN /\ faults \in 0..MaxFaults
  BY TypeParts, Zenon DEF IInv
<1>3. \A r \in Requests :
        /\ up(r) \in Request /\ up(r).pc = request[r].pc /\ up(r).url = request[r].url
        /\ up(r).cid = request[r].cid /\ up(r).age = request[r].age
        /\ up(r).answer = request[r].answer /\ up(r).sawUp
  BY <1>2, MovedSaw, Zenon
<1> HIDE DEF up
<1>4. \A r \in Requests :
        /\ request'[r] \in Request /\ request'[r].pc = request[r].pc /\ request'[r].url = request[r].url
        /\ request'[r].cid = request[r].cid /\ request'[r].age = request[r].age
        /\ request'[r].answer = request[r].answer
        /\ InProgress(r) => request'[r].sawUp
        /\ request[r].sawUp => request'[r].sawUp
  <2> TAKE r \in Requests
  <2>1. CASE InProgress(r)
    BY <1>1, <1>3, <2>1, Zenon
  <2>2. CASE ~InProgress(r)
    BY <1>1, <1>2, <2>2, Zenon
  <2>3. QED
    BY <2>1, <2>2
<1>5. request' \in [Requests -> Request]
  BY <1>1, <1>4, Zenon
<1>6. World' /\ Trees'
  BY <1>1, <1>2, Zenon DEF World, Trees
<1>7. TypeOK'
  BY <1>1, <1>2, <1>5, <1>6, Zenon DEF TypeOK, World, Trees, Kept
<1>8. CacheOK' /\ SinceOK'
  BY <1>1, Zenon DEF IInv, CacheOK, SinceOK, Good
<1>9. RequestsOK'
  <2> SUFFICES ASSUME NEW r \in Requests PROVE Progress(request[r])'
    BY Zenon DEF RequestsOK
  <2>1. Progress(request[r])
    BY Zenon DEF IInv, RequestsOK
  <2>2. QED
    BY <1>1, <1>4, <2>1, Zenon DEF Progress, Good
<1>10. SeenOK'
  BY <1>4, Zenon DEF SeenOK, Seen, InProgress
<1>11. ProbesAreLive'
  BY <1>4, Zenon DEF IInv, ProbesAreLive
<1>12. QED
  BY <1>7, <1>8, <1>9, <1>10, <1>11, Zenon DEF IInv

\* A tick ages everything by at most one.
LEMMA TickKeeps ==
  ASSUME IInv, Tick
  PROVE  IInv'
<1> DEFINE older(r) == [request[r] EXCEPT !.age = @ + 1]
           less(u) == [cache[u] EXCEPT !.left = @ - 1]
<1>1. /\ UNCHANGED <<asked, latest, holds, known, stored, database, faults, trees>>
      /\ request' = [r \in Requests |-> IF InProgress(r) THEN older(r) ELSE Idle]
      /\ cache' = [u \in Urls |-> IF cache[u].left > 1 THEN less(u) ELSE NoEntry]
      /\ since' = [c \in Cids |-> IF c < latest /\ since[c] < Outdated THEN since[c] + 1 ELSE since[c]]
      /\ \A r \in Requests : request[r].age < MaxHandling
  BY Zenon DEF Tick
<1>2. /\ World /\ Trees /\ cache \in [Urls -> Kept] /\ request \in [Requests -> Request]
      /\ known \in BOOLEAN /\ database \in BOOLEAN /\ faults \in 0..MaxFaults
  BY TypeParts, Zenon DEF IInv
<1>3. /\ latest \in Nat /\ latest <= Reports /\ Reports \in Nat /\ Cids = 1..Reports
      /\ since \in [Cids -> 0..Outdated] /\ Outdated \in Nat /\ MaxHandling \in Nat /\ Ttl \in Nat
  BY <1>2, AnswerFacts, ReportsApiAssumption DEF World, Cids
<1>4. /\ since' \in [Cids -> 0..Outdated]
      /\ \A c \in Cids : since'[c] <= since[c] + 1
      /\ \A c \in Cids : c >= latest => since'[c] = since[c]
  BY <1>1, <1>3
<1>5. ASSUME NEW r \in Requests
      PROVE  /\ older(r) \in Request /\ older(r).pc = request[r].pc /\ older(r).url = request[r].url
             /\ older(r).cid = request[r].cid /\ older(r).age = request[r].age + 1
             /\ older(r).answer = request[r].answer /\ (older(r).sawUp <=> request[r].sawUp)
  <2>1. request[r] \in Request /\ request[r].age + 1 \in 0..MaxHandling
    BY <1>1, <1>3, AtRequest
  <2>2. QED
    BY <2>1, MovedAge, Zenon
<1>6. ASSUME NEW u \in Urls, cache[u].left > 1
      PROVE  /\ less(u) \in Kept /\ less(u).answer = cache[u].answer /\ less(u).left = cache[u].left - 1
  BY <1>2, <1>3, <1>6 DEF Kept
<1>7. NoEntry \in Kept /\ NoEntry.left = 0
  BY AnswerFacts, <1>3 DEF NoEntry, Kept
<1> HIDE DEF older, less
<1>8. \A r \in Requests : request'[r] = IF InProgress(r) THEN older(r) ELSE Idle
  BY <1>1, Zenon
<1>9. \A u \in Urls : cache'[u] = IF cache[u].left > 1 THEN less(u) ELSE NoEntry
  BY <1>1, Zenon
<1>10. request' \in [Requests -> Request]
  BY <1>1, <1>5, IdleFacts, Zenon
<1>11. cache' \in [Urls -> Kept]
  BY <1>1, <1>6, <1>7, Zenon
<1>12. World'
  BY <1>1, <1>2, <1>4, Zenon DEF World
<1>13. Trees'
  BY <1>1, <1>2, Zenon DEF Trees
<1>14. TypeOK'
  BY <1>1, <1>2, <1>10, <1>11, <1>12, <1>13, Zenon DEF TypeOK, World, Trees, Kept
<1>15. SinceOK'
  BY <1>1, <1>4, Zenon DEF IInv, SinceOK
<1>16. CacheOK'
  <2> SUFFICES ASSUME NEW u \in Urls, cache'[u].left > 0
               PROVE  u.kind # "health" /\ Good(u, cache[u].answer, Ttl + MaxHandling - cache[u].left)'
    BY Zenon DEF CacheOK
  <2> DEFINE a == cache[u].answer
             n == Ttl + MaxHandling - cache[u].left
  <2>1. cache[u].left > 1 /\ cache'[u].answer = a /\ cache'[u].left = cache[u].left - 1
    BY <1>6, <1>7, <1>9
  <2>2. cache[u].left \in 0..Ttl
    BY <1>2 DEF Kept
  <2>3. cache[u].left > 0
    BY <2>1, <2>2, <1>3
  <2>4. u.kind # "health" /\ Good(u, a, n)
    BY <2>3, Zenon DEF IInv, CacheOK
  <2>5. n \in Int /\ Ttl + MaxHandling - cache'[u].left = n + 1
    <3> DEFINE k == cache[u].left
    <3>1. k \in Int /\ Ttl \in Int /\ MaxHandling \in Int
      BY <1>3, <2>2
    <3>2. cache'[u].left = k - 1 /\ n = Ttl + MaxHandling - k
      BY <2>1
    <3> HIDE DEF k, n
    <3>3. QED
      BY <3>1, <3>2
  <2> HIDE DEF a, n
  <2>6. a \in Cids => /\ a \in holds'
                      /\ u.kind = "cid" => a = u.cid /\ a \in stored'
                      /\ u.kind = "last" => since'[a] <= n + 1
                      /\ u.kind = "previous" => a < latest' /\ since'[a + 1] <= n + 1
    <3> HAVE a \in Cids
    <3>1. /\ a \in holds /\ (u.kind = "cid" => a = u.cid /\ a \in stored)
          /\ (u.kind = "last" => since[a] <= n)
          /\ (u.kind = "previous" => a < latest /\ since[a + 1] <= n)
      BY <2>4 DEF Good
    <3>2. u.kind = "last" => since'[a] <= n + 1
      BY <3>1, <1>3, <1>4, <2>5
    <3>3. u.kind = "previous" => a < latest /\ since'[a + 1] <= n + 1
      <4> HAVE u.kind = "previous"
      <4>1. a + 1 \in Cids /\ since[a + 1] <= n
        BY <3>1, <1>3
      <4>2. QED
        BY <4>1, <3>1, <1>3, <1>4, <2>5
    <3>4. QED
      BY <3>1, <3>2, <3>3, <1>1
  <2>7. QED
    BY <2>1, <2>4, <2>5, <2>6 DEF Good
<1>17. RequestsOK'
  <2> SUFFICES ASSUME NEW r \in Requests PROVE Progress(request[r])'
    BY Zenon DEF RequestsOK
  <2>1. CASE ~InProgress(r)
    <3>1. request'[r].pc = "idle"
      BY <2>1, <1>8, IdleFacts
    <3>2. QED
      BY <3>1 DEF Progress
  <2>2. CASE InProgress(r)
    <3> DEFINE q == request[r]
    <3>1. /\ request'[r].pc = q.pc /\ request'[r].url = q.url
          /\ request'[r].cid = q.cid /\ request'[r].age = q.age + 1
      BY <2>2, <1>5, <1>8
    <3>2. q.pc # "answered" /\ Progress(q) /\ q.age \in 0..MaxHandling
      BY <2>2, AtRequest DEF InProgress
    <3>3. latest' = latest /\ stored' = stored
      BY <1>1
    <3>4. \A c \in 1..latest : since[c] <= q.age => since'[c] <= q.age + 1
      BY <1>3, <1>4, <3>2
    <3>5. \A c \in 1..(latest - 1) : c + 1 \in 1..latest
      BY <1>3
    <3>6. QED
      BY <3>1, <3>2, <3>3, <3>4, <3>5, Zenon DEF Progress
  <2>3. QED
    BY <2>1, <2>2
<1>18. \A r \in Requests : Seen(request'[r])
  <2> TAKE r \in Requests
  <2>1. CASE InProgress(r)
    <3>1. Seen(request[r])
      BY Zenon DEF IInv, SeenOK
    <3>2. QED
      BY <2>1, <3>1, <1>5, <1>8, Zenon DEF Seen
  <2>2. CASE ~InProgress(r)
    BY <2>2, <1>8, IdleFacts, Zenon DEF Seen
  <2>3. QED
    BY <2>1, <2>2
<1>19. SeenOK'
  BY <1>1, <1>18, Zenon DEF SeenOK, Seen
<1>20. \A r \in Requests : request'[r].pc # "answered"
  BY <1>5, <1>8, IdleFacts DEF InProgress
<1>21. ProbesAreLive'
  BY <1>20, Zenon DEF ProbesAreLive
<1>22. QED
  BY <1>14, <1>15, <1>16, <1>17, <1>19, <1>21, Zenon DEF IInv

-----------------------------------------------------------------------------
LEMMA InitIInv == Init => IInv
<1> SUFFICES ASSUME Init PROVE IInv
  OBVIOUS
<1>1. /\ asked \in UrlGroups /\ latest = 1 /\ holds \in SUBSET Cids /\ known \in BOOLEAN /\ stored = {}
      /\ database = TRUE /\ faults = 0 /\ trees = << >> /\ cache = [u \in Urls |-> NoEntry]
      /\ request = [r \in Requests |-> Idle] /\ since = [c \in Cids |-> 0]
  BY Zenon DEF Init
<1>2. latest \in Cids /\ faults \in 0..MaxFaults /\ stored \subseteq 1..latest
  BY <1>1, ReportsApiAssumption DEF Cids
<1>3. since \in [Cids -> 0..Outdated] /\ \A c \in Cids : since[c] = 0
  BY <1>1, AnswerFacts
<1>4. World
  BY <1>1, <1>2, <1>3, Zenon DEF World
<1>5. Trees
  BY <1>1, ReportsApiAssumption DEF Trees
<1>6. cache \in [Urls -> Kept] /\ \A u \in Urls : cache[u].left = 0
  BY <1>1, AnswerFacts, ReportsApiAssumption DEF NoEntry, Kept
<1>7. request \in [Requests -> Request] /\ \A r \in Requests : request[r] = Idle
  BY <1>1, IdleFacts, Zenon
<1>8. TypeOK
  BY <1>1, <1>2, <1>4, <1>5, <1>6, <1>7, Zenon DEF TypeOK, World, Trees, Kept
<1>9. CacheOK
  BY <1>6 DEF CacheOK
<1>10. SinceOK
  BY <1>3 DEF SinceOK
<1>11. RequestsOK
  <2> SUFFICES ASSUME NEW r \in Requests PROVE Progress(request[r])
    BY DEF RequestsOK
  <2>1. request[r].pc = "idle"
    BY <1>7, IdleFacts
  <2>2. QED
    BY <2>1 DEF Progress
<1>12. SeenOK /\ ProbesAreLive
  BY <1>7, IdleFacts, Zenon DEF SeenOK, Seen, ProbesAreLive
<1>13. QED
  BY <1>8, <1>9, <1>10, <1>11, <1>12 DEF IInv

\* The steps of a handler together.
LEMMA HandlerStepKeeps ==
  ASSUME IInv, NEW r \in Requests, HandlerStep(r)
  PROVE  IInv'
<1>1. CASE \E content \in Fetched : FetchIPFS(r, content) \/ GetVaultReport(r, content)
                                    \/ GetReportProofByVault(r, content)
  BY <1>1, FetchIPFSKeeps, GetVaultReportKeeps, GetReportProofByVaultKeeps
<1>2. QED
  BY <1>1, AssertVaultExistsKeeps, ExistsByCidKeeps, ReportTooLargeKeeps, GetLatestReportDataKeeps,
     GetLatestReportDataFailsKeeps, CreateProofKeeps, CreateProofFailsKeeps, CheckKeeps,
     CheckHeapFailsKeeps
     DEF HandlerStep

\* Nothing changes.
LEMMA StutterKeeps ==
  ASSUME IInv, UNCHANGED vars
  PROVE  IInv'
<1>1. UNCHANGED <<asked, latest, holds, known, stored, database, faults, trees, cache, request, since>>
  BY Zenon DEF vars
<1>2. TypeOK' /\ SinceOK' /\ SeenOK' /\ ProbesAreLive'
  BY <1>1, Zenon DEF IInv, TypeOK, SinceOK, SeenOK, Seen, ProbesAreLive
<1>3. CacheOK'
  BY <1>1, Zenon DEF IInv, CacheOK, Good
<1>4. RequestsOK'
  BY <1>1, Zenon DEF IInv, RequestsOK, Progress, Good
<1>5. QED
  BY <1>2, <1>3, <1>4, Zenon DEF IInv

\* One case for each action.
LEMMA NextIInv == IInv /\ [Next]_vars => IInv'
<1> SUFFICES ASSUME IInv, [Next]_vars PROVE IInv'
  OBVIOUS
<1>1. CASE Publish \/ (\E c \in Cids : SaveReport(c)) \/ CreateVault \/ DatabaseFails
  BY <1>1, WorldKeeps
<1>2. CASE DatabaseRecovers
  BY <1>2, DatabaseRecoversKeeps
<1>3. CASE Tick
  BY <1>3, TickKeeps
<1>4. CASE \E r \in Requests, url \in Urls : Arrive(r, url)
  BY <1>4, ArriveKeeps
<1>5. CASE \E r \in Requests : HandlerStep(r)
  BY <1>5, HandlerStepKeeps
<1>6. CASE UNCHANGED vars
  BY <1>6, StutterKeeps
<1>7. QED
  BY <1>1, <1>2, <1>3, <1>4, <1>5, <1>6 DEF Next

\* The inductive invariant holds of the endpoints: every kept response and every request
\* between two awaits is of the report asked for, and ages with it.
THEOREM ReportsApiInvariance == Spec => []IInv
BY InitIInv, NextIInv, PTL DEF Spec

\* The caches and the requests keep their types whatever fails outside: no exception is
\* kept by the interceptor, and the LRU holds each key once and never too many.
THEOREM ReportsApiTypeCorrect == Spec => []TypeOK
<1>1. IInv => TypeOK
  BY DEF IInv
<1>2. QED
  BY <1>1, ReportsApiInvariance, PTL

\* HttpCacheInterceptor, the LRU of trees and the gateways: an answer with data is the
\* verified content of the report that was asked for.
THEOREM AnswersMatchTheirReport == Spec => []AnswersAreOfTheirReport
<1>1. IInv => AnswersAreOfTheirReport
  <2> SUFFICES ASSUME IInv, NEW r \in Requests, Served(r)
               PROVE  LET a == request[r].answer IN
                      /\ a \in holds
                      /\ request[r].url.kind = "cid" => a = request[r].url.cid /\ a \in stored
                      /\ request[r].url.kind = "previous" => a < latest
    BY Zenon DEF AnswersAreOfTheirReport
  <2>1. Good(request[r].url, request[r].answer, Ttl + MaxHandling) /\ request[r].answer \in Cids
    BY AtRequest DEF Progress, Served
  <2>2. QED
    BY <2>1, Zenon DEF Good
<1>2. QED
  BY <1>1, ReportsApiInvariance, PTL

\* getLast and getPrevious behind the cache: what is answered was right at most one TTL
\* and one handling ago, for any TTL and any bound on the handling.
THEOREM AnswersAreFresh == Spec => []StalenessBounded
<1>1. IInv => StalenessBounded
  <2> SUFFICES ASSUME IInv, NEW r \in Requests, Served(r)
               PROVE  /\ request[r].url.kind = "last" => since[request[r].answer] < Outdated
                      /\ request[r].url.kind = "previous" => since[request[r].answer + 1] < Outdated
    BY Zenon DEF StalenessBounded
  <2> DEFINE a == request[r].answer
  <2>1. Good(request[r].url, a, Ttl + MaxHandling) /\ a \in Cids /\ World
    BY AtRequest DEF Progress, Served
  <2>2. /\ request[r].url.kind = "last" => since[a] <= Ttl + MaxHandling
        /\ request[r].url.kind = "previous" => a < latest /\ since[a + 1] <= Ttl + MaxHandling
    BY <2>1, Zenon DEF Good
  <2> HIDE DEF a
  <2>3. /\ Cids = 1..Reports /\ Reports \in Nat /\ latest \in Cids
        /\ since \in [Cids -> 0..Outdated]
    BY <2>1, AnswerFacts DEF Cids, World
  <2>4. a < latest => a + 1 \in Cids
    BY <2>1, <2>3
  <2>5. \A c \in Cids : since[c] <= Ttl + MaxHandling => since[c] < Outdated
    BY <2>3, ReportsApiAssumption DEF Outdated
  <2>6. QED
    BY <2>1, <2>2, <2>4, <2>5 DEF a
<1>2. QED
  BY <1>1, ReportsApiInvariance, PTL

\* HealthController and ReadinessController: no kept response vouches for a database that
\* is down, however many probes are handled at once.
THEOREM PositiveProbesAreLive == Spec => []ProbesAreLive
<1>1. IInv => ProbesAreLive
  BY DEF IInv
<1>2. QED
  BY <1>1, ReportsApiInvariance, PTL
=============================================================================
