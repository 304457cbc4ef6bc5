---------------------------- MODULE GatewayProofs ----------------------------
(* What holds of Gateway for any number of requests, any pool, limit, time to *)
(* live and load time.                                                        *)
EXTENDS Gateway, FiniteSetTheorems, TLAPS

(* The inductive invariant.  Sound says of one request what each of its steps *)
(* may rely on: above all that what is true now is already in seen, that a    *)
(* database check is remembered only with its evidence, and that what is      *)
(* about to be stored is no older than a load takes.                          *)
Truthful(q) ==
  /\ q.op = "ready" /\ q.code = 200 => {"redis", "db"} \subseteq q.seen
  /\ q.code = 503 => "trouble" \in q.seen

Sound(q, redisUp, dbUp) ==
  /\ q.pc = "idle" => q = Blank
  /\ q.pc # "idle" => q.op \in Routes
  /\ q.pc \in {"get", "store"} => q.op = "page"
  /\ q.pc = "ping" => q.op = "ready"
  /\ q.pc = "store" => q.data \in 0..LoadTicks
  /\ q.pc \notin {"idle", "end"} =>
       q.code = 0 /\ Now(q.op, redisUp, dbUp) \subseteq q.seen
  /\ q.dbOk = TRUE => "db" \in q.seen
  /\ q.pc = "ping" /\ q.dbOk = FALSE => "trouble" \in q.seen
  /\ Truthful(q)

EntryInv(e) ==
  /\ e \in Entry \union {NoEntry}
  /\ e # NoEntry => e.age + e.left <= MaxAge

Holding == {"query", "store", "end"}
PoolInv(out, reqs) ==
  /\ out \subseteq Slots /\ IsFiniteSet(out) /\ Cardinality(out) <= PoolSize
  /\ \A r \in out : reqs[r].pc \in Holding

Requests(reqs, redisUp, dbUp) ==
  /\ reqs \in [Slots -> Request]
  /\ \A r \in Slots : Sound(reqs[r], redisUp, dbUp)

GInv ==
  /\ LimitTypeOK
  /\ EntryInv(entry)
  /\ redis \in BOOLEAN /\ db \in BOOLEAN
  /\ PoolInv(conns, req)
  /\ Requests(req, redis, db)

(* The bounds of an age are numbers.                                          *)
LEMMA Ages ==
  CacheTTL \in Nat \ {0} /\ LoadTicks \in Nat /\ MaxAge = CacheTTL + LoadTicks
BY CacheAssumption DEF MaxAge

(* What the invariant gives of one request.                                   *)
LEMMA OneRequest ==
  ASSUME GInv, NEW r \in Slots
  PROVE  req[r] \in Request /\ Sound(req[r], redis, db)
BY DEF GInv, Requests

(* A step of one request that leaves the pool alone, returns its connection   *)
(* or takes one.                                                              *)
LEMMA SlotKeepsRequests ==
  ASSUME GInv, NEW r \in Slots, NEW q \in Request, Sound(q, redis, db),
         redis' = redis, db' = db, req' = [req EXCEPT ![r] = q]
  PROVE  Requests(req, redis, db)'
<1>1. req' \in [Slots -> Request]
  BY DEF GInv, Requests
<1>2. \A s \in Slots : req'[s] = IF s = r THEN q ELSE req[s]
  BY DEF GInv, Requests
<1>3. \A s \in Slots : Sound(req'[s], redis, db)
  BY <1>2 DEF GInv, Requests
<1> QED BY <1>1, <1>3 DEF Requests

(* The same for the pool.                                                     *)
LEMMA SlotKeepsPool ==
  ASSUME GInv, NEW r \in Slots, NEW q \in Request, req' = [req EXCEPT ![r] = q],
         \/ conns' = conns /\ (r \in conns => q.pc \in Holding)
         \/ conns' = conns \ {r}
         \/ conns' = conns \union {r} /\ ~Full /\ q.pc \in Holding
  PROVE  PoolInv(conns, req)'
<1>1. \A s \in Slots : req'[s] = IF s = r THEN q ELSE req[s]
  BY DEF GInv, Requests
<1>2. /\ conns \subseteq Slots /\ IsFiniteSet(conns) /\ Cardinality(conns) <= PoolSize
      /\ \A s \in conns : req[s].pc \in Holding
  BY DEF GInv, PoolInv
<1>3. Cardinality(conns) \in Nat /\ PoolSize \in Nat
  BY <1>2, FS_CardinalityType, PoolAssumption
<1>4. CASE conns' = conns /\ (r \in conns => q.pc \in Holding)
  BY <1>1, <1>2, <1>4 DEF PoolInv
<1>5. CASE conns' = conns \ {r}
  <2>1. IsFiniteSet(conns \ {r})
        /\ Cardinality(conns \ {r}) =
             IF r \in conns THEN Cardinality(conns) - 1 ELSE Cardinality(conns)
    BY <1>2, FS_RemoveElement
  <2>2. Cardinality(conns \ {r}) <= PoolSize
    BY <1>2, <1>3, <2>1
  <2> QED BY <1>1, <1>2, <1>5, <2>1, <2>2 DEF PoolInv
<1>6. CASE conns' = conns \union {r} /\ ~Full /\ q.pc \in Holding
  <2>1. IsFiniteSet(conns \union {r})
        /\ Cardinality(conns \union {r}) =
             IF r \in conns THEN Cardinality(conns) ELSE Cardinality(conns) + 1
    BY <1>2, FS_AddElement
  <2>2. Cardinality(conns \union {r}) <= PoolSize
    BY <1>2, <1>3, <1>6, <2>1 DEF Full
  <2> QED BY <1>1, <1>2, <1>6, <2>1, <2>2 DEF PoolInv
<1> QED BY <1>4, <1>5, <1>6

(* A request that has no connection is not in conns.                          *)
LEMMA Waiting ==
  ASSUME GInv, NEW r \in Slots, req[r].pc \notin Holding
  PROVE  r \notin conns
BY DEF GInv, PoolInv

-----------------------------------------------------------------------------
(* The answers.                                                               *)
(* What makes each kind of answer a true one.                                 *)
Backed(q, code) ==
  /\ q.op \in Routes /\ (q.dbOk = TRUE => "db" \in q.seen)
  /\ code = 200 /\ q.op = "ready" => {"redis", "db"} \subseteq q.seen
  /\ code = 503 => "trouble" \in q.seen

(* An answer changes the code and nothing it rests on.                        *)
LEMMA AnswerSound ==
  ASSUME NEW q \in Request, NEW code \in {0, 200, 429, 500, 503},
         Backed(q, code)
  PROVE  /\ Answered(q, code) \in Request
         /\ Answered(q, code).pc = "end"
         /\ \A redisUp, dbUp : Sound(Answered(q, code), redisUp, dbUp)
<1> DEFINE a == Answered(q, code)
<1>1. /\ a \in Request /\ a.pc = "end" /\ a.op = q.op /\ a.code = code
      /\ a.seen = q.seen /\ a.dbOk = q.dbOk
  <2> DEFINE p == [q EXCEPT !.pc = "end"]
  <2>1. /\ p \in Request /\ p.pc = "end" /\ p.op = q.op /\ p.seen = q.seen
        /\ p.dbOk = q.dbOk
    BY DEF Request
  <2>2. a = [p EXCEPT !.code = code]
    BY DEF Answered
  <2> HIDE DEF p, a
  <2> QED BY <2>1, <2>2 DEF Request
<1> HIDE DEF a
<1>2. Truthful(a)
  BY <1>1 DEF Truthful, Backed
<1>3. \A redisUp, dbUp : Sound(a, redisUp, dbUp)
  BY <1>1, <1>2 DEF Sound, Backed
<1> QED BY <1>1, <1>3 DEF a

(* Before an answer there is nothing to be true of.                           *)
LEMMA UnansweredTruthful ==
  ASSUME NEW q, q.code = 0
  PROVE  Truthful(q)
BY DEF Truthful

(* What is true now, one by one.                                              *)
LEMMA NowIs ==
  ASSUME NEW redisUp \in BOOLEAN, NEW dbUp \in BOOLEAN, NEW op \in Routes
  PROVE  /\ Now(op, redisUp, dbUp) \subseteq Witness
         /\ "trouble" \in Now(op, redisUp, dbUp) <=> ~(redisUp /\ dbUp)
         /\ "redis" \in Now(op, redisUp, dbUp) <=> redisUp /\ op = "ready"
         /\ "db" \in Now(op, redisUp, dbUp) <=> dbUp /\ op = "ready"
BY DEF Now, Witness, Routes

(* A slot without a request.                                                  *)
LEMMA BlankIs == Blank \in Request /\ (\A a, b : Sound(Blank, a, b)) /\ Blank.pc = "idle"
<1>1. Blank \in Request
  BY DEF Blank, Request
<1>2. /\ Blank.pc = "idle" /\ Blank.code = 0 /\ Blank.dbOk = FALSE
      /\ Blank.seen = {}
  BY DEF Blank
<1>3. Truthful(Blank)
  BY <1>2, UnansweredTruthful
<1> QED BY <1>1, <1>2, <1>3 DEF Sound

(* Every handler ends in one of these two.                                    *)
LEMMA DbFailsSound ==
  ASSUME NEW q \in Request, NEW redisUp \in BOOLEAN, NEW dbUp \in BOOLEAN,
         q.pc \in {"wait", "query"}, Sound(q, redisUp, dbUp), "trouble" \in q.seen
  PROVE  /\ DbFails(q) \in Request /\ DbFails(q).pc \in {"ping", "end"}
         /\ Sound(DbFails(q), redisUp, dbUp)
<1>1. q.op \in Routes /\ (q.dbOk = TRUE => "db" \in q.seen)
  BY DEF Sound
<1>2. CASE q.op = "ready"
  <2> DEFINE p == [q EXCEPT !.pc = "ping"]
  <2>1. /\ p \in Request /\ p.pc = "ping" /\ p.op = q.op /\ p.dbOk = q.dbOk
        /\ p.code = q.code /\ p.seen = q.seen
    BY DEF Request
  <2>2. DbFails(q) = p
    BY <1>2 DEF DbFails
  <2> HIDE DEF p
  <2>3. q.code = 0 /\ Now(q.op, redisUp, dbUp) \subseteq q.seen
    BY DEF Sound
  <2>4. Truthful(p)
    BY <2>1, <2>3, UnansweredTruthful
  <2> QED BY <1>1, <1>2, <2>1, <2>2, <2>3, <2>4 DEF Sound
<1>3. CASE q.op # "ready"
  <2>1. DbFails(q) = Answered(q, 500)
    BY <1>3 DEF DbFails, Raised
  <2>2. Backed(q, 500)
    BY <1>1, <1>3 DEF Backed
  <2> QED BY <2>1, <2>2, AnswerSound
<1> QED BY <1>2, <1>3

-----------------------------------------------------------------------------
(* The steps of one request.                                                  *)
LEMMA ArriveKeeps ==
  ASSUME GInv, NEW r \in Slots, NEW peer \in Peers, NEW op \in Routes,
         Arrive(r, peer, op)
  PROVE  GInv'
<1> DEFINE q == [Blank EXCEPT !.op = op, !.seen = Now(op, redis, db)]
<1>0. redis \in BOOLEAN /\ db \in BOOLEAN /\ LimitTypeOK /\ <<peer, op>> \in Windows
  BY PathsAssumption DEF GInv, Windows
<1>1. req[r].pc = "idle"
  BY DEF Arrive
<1>2. /\ q \in Request /\ q.op = op /\ q.seen = Now(op, redis, db) /\ q.code = 0
      /\ q.dbOk = FALSE
  <2>1. Now(op, redis, db) \in SUBSET Witness
    BY <1>0, NowIs
  <2> QED BY <2>1 DEF Blank, Request
<1>3. LimitTypeOK'
  <2>1. CASE redis
    <3>1. hits' = [hits EXCEPT ![<<peer, op>>] = Count(<<peer, op>>)]
      BY <2>1 DEF Arrive, Hit
    <3>2. hits \in [Windows -> 0..Limit] /\ Limit \in Nat
      BY <1>0, LimitAssumption DEF LimitTypeOK
    <3>3. Count(<<peer, op>>) \in 0..Limit
      BY <1>0, <3>2 DEF Count
    <3> QED BY <3>1, <3>2, <3>3 DEF LimitTypeOK
  <2>2. CASE ~redis
    BY <1>0, <2>2 DEF Arrive, LimitTypeOK
  <2> QED BY <2>1, <2>2
<1>4. \E n \in Request : /\ n.pc \in {"get", "wait", "end"} /\ Sound(n, redis, db)
                         /\ req' = [req EXCEPT ![r] = n]
  <2>1. CASE ~redis
    <3>1. req' = [req EXCEPT ![r] = Answered(q, 500)]
      BY <2>1 DEF Arrive, Goes, Raised
    <3>2. "trouble" \in q.seen
      BY <1>0, <1>2, <2>1, NowIs
    <3> HIDE DEF q
    <3>3. Answered(q, 500) \in Request
          /\ Answered(q, 500).pc = "end"
          /\ Sound(Answered(q, 500), redis, db)
      <4>1. Backed(q, 500)
        BY <1>2, <3>2 DEF Backed
      <4> QED BY <1>2, <4>1, AnswerSound
    <3> QED BY <3>1, <3>3
  <2>2. CASE redis /\ ~Passes(<<peer, op>>)
    <3>1. req' = [req EXCEPT ![r] = Answered(q, 429)]
      BY <2>2 DEF Arrive, Goes
    <3> HIDE DEF q
    <3>2. Answered(q, 429) \in Request
          /\ Answered(q, 429).pc = "end"
          /\ Sound(Answered(q, 429), redis, db)
      <4>1. Backed(q, 429)
        BY <1>2 DEF Backed
      <4> QED BY <1>2, <4>1, AnswerSound
    <3> QED BY <3>1, <3>2
  <2>3. CASE redis /\ Passes(<<peer, op>>)
    <3> DEFINE goal == IF op = "page" THEN "get" ELSE "wait"
               n == [q EXCEPT !.pc = goal]
    <3>1. req' = [req EXCEPT ![r] = n]
      BY <2>3 DEF Arrive, Goes
    <3> HIDE DEF q
    <3>2. /\ n \in Request /\ n.pc = goal /\ n.op = op /\ n.seen = Now(op, redis, db)
          /\ n.code = 0 /\ n.dbOk = FALSE
      BY <1>2 DEF Request
    <3>3. goal \in {"get", "wait"} /\ (goal = "get" <=> op = "page")
      OBVIOUS
    <3> HIDE DEF n, goal
    <3>4. Truthful(n)
      BY <3>2, UnansweredTruthful
    <3>5. Sound(n, redis, db)
      BY <3>2, <3>3, <3>4 DEF Sound
    <3> QED BY <3>1, <3>2, <3>3, <3>5
  <2> QED BY <2>1, <2>2, <2>3
<1>5. PICK n \in Request : /\ n.pc \in {"get", "wait", "end"} /\ Sound(n, redis, db)
                           /\ req' = [req EXCEPT ![r] = n]
  BY <1>4
<1>6. entry' = entry /\ redis' = redis /\ db' = db /\ conns' = conns
  BY DEF Arrive
<1>7. r \notin conns
  BY <1>1, Waiting DEF Holding
<1>8. Requests(req, redis, db)'
  BY <1>5, <1>6, SlotKeepsRequests
<1>9. PoolInv(conns, req)'
  BY <1>5, <1>6, <1>7, SlotKeepsPool
<1> QED BY <1>3, <1>6, <1>8, <1>9 DEF GInv, EntryInv

(* What the other steps of a request have in common.                          *)
LEMMA StepKeeps ==
  ASSUME GInv, NEW r \in Slots, NEW q \in Request, Sound(q, redis, db),
         UNCHANGED <<hits, redis, db>>, EntryInv(entry)',
         req' = [req EXCEPT ![r] = q],
         \/ conns' = conns /\ (r \in conns => q.pc \in Holding)
         \/ conns' = conns \ {r}
         \/ conns' = conns \union {r} /\ ~Full /\ q.pc \in Holding
  PROVE  GInv'
<1>1. redis' = redis /\ db' = db /\ hits' = hits
  OBVIOUS
<1>2. Requests(req, redis, db)'
  BY <1>1, SlotKeepsRequests
<1>3. PoolInv(conns, req)'
  BY SlotKeepsPool
<1> QED BY <1>1, <1>2, <1>3 DEF GInv, LimitTypeOK

(* A hit shows what the entry holds; a miss, or Redis down, goes on to the    *)
(* loader.                                                                    *)
LEMMA GetKeeps ==
  ASSUME GInv, NEW r \in Slots, Get(r)
  PROVE  GInv'
<1>1. req[r].pc = "get" /\ req[r] \in Request /\ Sound(req[r], redis, db)
  BY OneRequest DEF Get
<1>2. EntryInv(entry)' /\ EntryInv(entry)
  BY DEF Get, GInv, EntryInv
<1>3. r \notin conns
  BY <1>1, Waiting DEF Holding
<1>4. CASE redis /\ entry # NoEntry
  <2> DEFINE q == [req[r] EXCEPT !.data = entry.age]
             a == Answered(q, 200)
  <2>1. req' = [req EXCEPT ![r] = a]
    BY <1>4 DEF Get, Goes
  <2>2. entry.age \in 0..MaxAge
    BY <1>2, <1>4 DEF EntryInv, Entry
  <2>3. q \in Request /\ q.op = req[r].op /\ q.seen = req[r].seen /\ q.dbOk = req[r].dbOk
    BY <1>1, <2>2 DEF Request
  <2>4. req[r].op = "page" /\ (req[r].dbOk = TRUE => "db" \in req[r].seen)
    BY <1>1 DEF Sound
  <2> HIDE DEF q
  <2>5. a \in Request /\ a.pc = "end" /\ Sound(a, redis, db)
    <3>1. Backed(q, 200)
      BY <2>3, <2>4 DEF Backed, Routes
    <3> QED BY <2>3, <3>1, AnswerSound
  <2> HIDE DEF a
  <2> QED BY <1>2, <1>3, <2>1, <2>5, StepKeeps DEF Get
<1>5. CASE ~(redis /\ entry # NoEntry)
  <2> DEFINE q == [req[r] EXCEPT !.pc = "wait"]
  <2>1. req' = [req EXCEPT ![r] = q]
    BY <1>5 DEF Get, Goes
  <2>2. /\ q \in Request /\ q.pc = "wait" /\ q.op = req[r].op /\ q.seen = req[r].seen
        /\ q.dbOk = req[r].dbOk /\ q.code = req[r].code
    BY <1>1 DEF Request
  <2> HIDE DEF q
  <2>3. q.code = 0
    BY <1>1, <2>2 DEF Sound
  <2>4. Truthful(q)
    BY <2>3, UnansweredTruthful
  <2>5. Sound(q, redis, db)
    BY <1>1, <2>2, <2>4 DEF Sound
  <2> QED BY <1>2, <1>3, <2>1, <2>2, <2>5, StepKeeps DEF Get
<1> QED BY <1>4, <1>5

(* A connection is taken only where there is one, or PostgreSQL is down and   *)
(* that has been noted.                                                       *)
LEMMA CheckoutKeeps ==
  ASSUME GInv, NEW r \in Slots, Checkout(r)
  PROVE  GInv'
<1>1. req[r].pc = "wait" /\ req[r] \in Request /\ Sound(req[r], redis, db)
  BY OneRequest DEF Checkout
<1>2. EntryInv(entry)' /\ UNCHANGED <<hits, redis, db>> /\ ~Full
  BY DEF Checkout, GInv, EntryInv
<1>3. r \notin conns
  BY <1>1, Waiting DEF Holding
<1>4. redis \in BOOLEAN /\ db \in BOOLEAN /\ req[r].op \in Routes
      /\ Now(req[r].op, redis, db) \subseteq req[r].seen
  BY <1>1 DEF GInv, Sound
<1>5. CASE db
  <2> DEFINE q == [req[r] EXCEPT !.pc = "query"]
  <2>1. req' = [req EXCEPT ![r] = q] /\ conns' = conns \union {r}
    BY <1>5 DEF Checkout, Goes
  <2>2. /\ q \in Request /\ q.pc = "query" /\ q.op = req[r].op /\ q.seen = req[r].seen
        /\ q.dbOk = req[r].dbOk /\ q.code = req[r].code
    BY <1>1 DEF Request
  <2> HIDE DEF q
  <2>3. q.code = 0
    BY <1>1, <2>2 DEF Sound
  <2>4. Truthful(q)
    BY <2>3, UnansweredTruthful
  <2>5. Sound(q, redis, db) /\ q.pc \in Holding
    BY <1>1, <2>2, <2>4 DEF Sound, Holding
  <2> QED BY <1>2, <2>1, <2>2, <2>5, StepKeeps
<1>6. CASE ~db
  <2> DEFINE q == DbFails(req[r])
  <2>1. req' = [req EXCEPT ![r] = q] /\ conns' = conns
    BY <1>6 DEF Checkout, Goes
  <2>2. "trouble" \in req[r].seen
    BY <1>4, <1>6, NowIs
  <2>3. q \in Request /\ Sound(q, redis, db)
    BY <1>1, <1>4, <2>2, DbFailsSound
  <2> HIDE DEF q
  <2> QED BY <1>2, <1>3, <2>1, <2>3, StepKeeps
<1> QED BY <1>5, <1>6

(* A full pool is trouble, and is noted as such.                              *)
LEMMA PoolTimeoutKeeps ==
  ASSUME GInv, NEW r \in Slots, PoolTimeout(r)
  PROVE  GInv'
<1>1. req[r].pc = "wait" /\ req[r] \in Request /\ Sound(req[r], redis, db)
  BY OneRequest DEF PoolTimeout
<1>2. EntryInv(entry)' /\ UNCHANGED <<hits, redis, db>> /\ conns' = conns
  BY DEF PoolTimeout, GInv, EntryInv
<1>3. r \notin conns
  BY <1>1, Waiting DEF Holding
<1>4. redis \in BOOLEAN /\ db \in BOOLEAN
  BY DEF GInv
<1> DEFINE p == [req[r] EXCEPT !.seen = @ \union {"trouble"}]
           q == DbFails(p)
<1>5. req' = [req EXCEPT ![r] = q]
  BY DEF PoolTimeout, Goes
<1>6. /\ p \in Request /\ p.pc = "wait" /\ p.op = req[r].op
      /\ p.seen = req[r].seen \union {"trouble"}
      /\ p.dbOk = req[r].dbOk /\ p.code = req[r].code
  BY <1>1 DEF Request, Witness
<1> HIDE DEF p
<1>7. p.code = 0
  BY <1>1, <1>6 DEF Sound
<1>8. Truthful(p)
  BY <1>7, UnansweredTruthful
<1>9. Sound(p, redis, db)
  BY <1>1, <1>6, <1>7, <1>8 DEF Sound
<1>10. q \in Request /\ Sound(q, redis, db)
  BY <1>4, <1>6, <1>9, DbFailsSound
<1> HIDE DEF q
<1> QED BY <1>2, <1>3, <1>5, <1>10, StepKeeps

(* The query gives a value of age 0, passes the database check, or fails and  *)
(* gives the connection back.                                                 *)
LEMMA QueryKeeps ==
  ASSUME GInv, NEW r \in Slots, Query(r)
  PROVE  GInv'
<1>1. req[r].pc = "query" /\ req[r] \in Request /\ Sound(req[r], redis, db)
  BY OneRequest DEF Query
<1>2. EntryInv(entry)' /\ UNCHANGED <<hits, redis, db>>
  BY DEF Query, GInv, EntryInv
<1>3. redis \in BOOLEAN /\ db \in BOOLEAN /\ req[r].op \in Routes
      /\ Now(req[r].op, redis, db) \subseteq req[r].seen
      /\ req[r].code = 0 /\ (req[r].dbOk = TRUE => "db" \in req[r].seen)
  BY <1>1 DEF GInv, Sound
<1>4. CASE ~db
  <2> DEFINE q == DbFails(req[r])
  <2>1. req' = [req EXCEPT ![r] = q] /\ conns' = conns \ {r}
    BY <1>4 DEF Query, Goes
  <2>2. "trouble" \in req[r].seen
    BY <1>3, <1>4, NowIs
  <2>3. q \in Request /\ Sound(q, redis, db)
    BY <1>1, <1>3, <2>2, DbFailsSound
  <2> HIDE DEF q
  <2> QED BY <1>2, <2>1, <2>3, StepKeeps
<1>5. CASE db /\ req[r].op = "ready"
  <2> DEFINE after == (req[r].seen \ {"redis"}) \union Now("ready", redis, db)
             q == [req[r] EXCEPT !.pc = "ping", !.dbOk = TRUE, !.seen = after]
  <2>1. req' = [req EXCEPT ![r] = q] /\ conns' = conns \ {r}
    BY <1>5 DEF Query, Goes, Queried
  <2>2. after \in SUBSET Witness /\ Now("ready", redis, db) \subseteq after /\ "db" \in after
    <3>1. "ready" \in Routes
      BY DEF Routes
    <3>2. req[r].seen \in SUBSET Witness
      BY <1>1 DEF Request
    <3>3. Now("ready", redis, db) \subseteq Witness /\ "db" \in Now("ready", redis, db)
      BY <1>3, <1>5, <3>1, NowIs
    <3> QED BY <3>2, <3>3
  <2> HIDE DEF after
  <2>3. /\ q \in Request /\ q.pc = "ping" /\ q.op = "ready" /\ q.seen = after
        /\ q.dbOk = TRUE /\ q.code = req[r].code
    <3> DEFINE o == [req[r] EXCEPT !.pc = "ping"]
               yes == TRUE
               p == [o EXCEPT !.dbOk = yes]
    <3>1. q = [p EXCEPT !.seen = after]
      OBVIOUS
    <3>2. /\ o \in Request /\ o.pc = "ping" /\ o.op = req[r].op
          /\ o.code = req[r].code
      BY <1>1 DEF Request
    <3>3. yes \in BOOLEAN
      OBVIOUS
    <3> HIDE DEF o, yes
    <3>4. /\ p \in Request /\ p.pc = "ping" /\ p.op = o.op /\ p.dbOk = yes
          /\ p.code = o.code
      BY <3>2, <3>3 DEF Request
    <3> HIDE DEF p, q
    <3>5. /\ q \in Request /\ q.pc = p.pc /\ q.op = p.op /\ q.seen = after
          /\ q.dbOk = p.dbOk /\ q.code = p.code
      BY <2>2, <3>1, <3>4 DEF Request
    <3> QED BY <1>5, <3>2, <3>4, <3>5 DEF yes
  <2> HIDE DEF q
  <2>4. Truthful(q)
    BY <1>3, <2>3, UnansweredTruthful
  <2>5. Sound(q, redis, db)
    BY <1>3, <2>2, <2>3, <2>4 DEF Sound, Routes
  <2> QED BY <1>2, <2>1, <2>3, <2>5, StepKeeps
<1>6. CASE db /\ req[r].op # "ready"
  <2> DEFINE q == [req[r] EXCEPT !.pc = "store", !.data = 0]
  <2>1. req' = [req EXCEPT ![r] = q] /\ conns' = conns
    BY <1>6 DEF Query, Goes, Queried
  <2>2. 0 \in 0..LoadTicks /\ 0 \in 0..MaxAge
    BY Ages
  <2>3. /\ q \in Request /\ q.pc = "store" /\ q.op = req[r].op /\ q.seen = req[r].seen
        /\ q.data = 0
        /\ q.dbOk = req[r].dbOk /\ q.code = req[r].code
    <3> DEFINE p == [req[r] EXCEPT !.pc = "store"]
    <3>1. /\ p \in Request /\ p.pc = "store" /\ p.op = req[r].op /\ p.seen = req[r].seen
          /\ p.dbOk = req[r].dbOk /\ p.code = req[r].code
      BY <1>1 DEF Request
    <3>2. q = [p EXCEPT !.data = 0]
      OBVIOUS
    <3> HIDE DEF p, q
    <3> QED BY <2>2, <3>1, <3>2 DEF Request
  <2> HIDE DEF q
  <2>4. Truthful(q)
    BY <1>3, <2>3, UnansweredTruthful
  <2>5. Sound(q, redis, db) /\ q.pc \in Holding
    BY <1>3, <1>6, <2>2, <2>3, <2>4 DEF Sound, Routes, Holding
  <2> QED BY <1>2, <2>1, <2>3, <2>5, StepKeeps
<1> QED BY <1>4, <1>5, <1>6

(* What is stored is as old as the load at most.                              *)
LEMMA StoreKeeps ==
  ASSUME GInv, NEW r \in Slots, Store(r)
  PROVE  GInv'
<1>1. req[r].pc = "store" /\ req[r] \in Request /\ Sound(req[r], redis, db)
  BY OneRequest DEF Store
<1>2. req[r].op = "page" /\ req[r].data \in 0..LoadTicks
      /\ (req[r].dbOk = TRUE => "db" \in req[r].seen)
  BY <1>1 DEF Sound
<1>3. EntryInv(entry)'
  <2>1. CASE redis
    <3> DEFINE age == req[r].data
               e == [age |-> age, left |-> CacheTTL]
    <3>1. entry' = e
      BY <2>1 DEF Store, SetEx
    <3>2. age \in 0..MaxAge /\ CacheTTL \in 1..CacheTTL /\ age + CacheTTL <= MaxAge
      BY <1>2, Ages
    <3> HIDE DEF age
    <3>3. e \in Entry /\ e.age + e.left <= MaxAge
      BY <3>2 DEF Entry
    <3> QED BY <3>1, <3>3 DEF EntryInv
  <2>2. CASE ~redis
    BY <2>2 DEF Store, GInv, EntryInv
  <2> QED BY <2>1, <2>2
<1> DEFINE a == Answered(req[r], 200)
<1>4. a \in Request /\ a.pc = "end" /\ Sound(a, redis, db)
  <2>1. Backed(req[r], 200)
    BY <1>2 DEF Backed, Routes
  <2> QED BY <1>1, <2>1, AnswerSound
<1>5. /\ req' = [req EXCEPT ![r] = a] /\ conns' = conns
      /\ UNCHANGED <<hits, redis, db>>
  BY DEF Store, Goes
<1> HIDE DEF a
<1> QED BY <1>3, <1>4, <1>5, StepKeeps DEF Holding

(* The probe puts its two checks together.                                    *)
LEMMA PingKeeps ==
  ASSUME GInv, NEW r \in Slots, Ping(r)
  PROVE  GInv'
<1>1. req[r].pc = "ping" /\ req[r] \in Request /\ Sound(req[r], redis, db)
  BY OneRequest DEF Ping
<1>2. /\ EntryInv(entry)' /\ conns' = conns /\ UNCHANGED <<hits, redis, db>>
      /\ redis \in BOOLEAN /\ db \in BOOLEAN
  BY DEF Ping, GInv, EntryInv
<1>3. /\ req[r].op = "ready" /\ req[r].dbOk \in BOOLEAN
      /\ Now("ready", redis, db) \subseteq req[r].seen
      /\ (req[r].dbOk = TRUE => "db" \in req[r].seen)
      /\ (req[r].dbOk = FALSE => "trouble" \in req[r].seen)
  BY <1>1 DEF Sound, Request
<1>4. "ready" \in Routes
  BY DEF Routes
<1>5. r \notin conns
  BY <1>1, Waiting DEF Holding
<1>6. CASE req[r].dbOk /\ redis
  <2> DEFINE a == Answered(req[r], 200)
  <2>1. req' = [req EXCEPT ![r] = a]
    BY <1>6 DEF Ping, Goes
  <2>2. "redis" \in req[r].seen
    BY <1>2, <1>3, <1>4, <1>6, NowIs
  <2>3. Backed(req[r], 200)
    BY <1>3, <1>4, <1>6, <2>2 DEF Backed
  <2>4. a \in Request /\ Sound(a, redis, db)
    BY <1>1, <2>3, AnswerSound
  <2> HIDE DEF a
  <2> QED BY <1>2, <1>5, <2>1, <2>4, StepKeeps
<1>7. CASE ~(req[r].dbOk /\ redis)
  <2> DEFINE a == Answered(req[r], 503)
  <2>1. req' = [req EXCEPT ![r] = a]
    BY <1>7 DEF Ping, Goes
  <2>2. "trouble" \in req[r].seen
    BY <1>2, <1>3, <1>4, <1>7, NowIs
  <2>3. Backed(req[r], 503)
    BY <1>3, <1>4, <2>2 DEF Backed
  <2>4. a \in Request /\ Sound(a, redis, db)
    BY <1>1, <2>3, AnswerSound
  <2> HIDE DEF a
  <2> QED BY <1>2, <1>5, <2>1, <2>4, StepKeeps
<1> QED BY <1>6, <1>7

(* The end of a request returns what it has.                                  *)
LEMMA FinishKeeps ==
  ASSUME GInv, NEW r \in Slots, Finish(r)
  PROVE  GInv'
<1>1. EntryInv(entry)' /\ UNCHANGED <<hits, redis, db>>
  BY DEF Finish, GInv, EntryInv
<1>2. req' = [req EXCEPT ![r] = Blank] /\ conns' = conns \ {r}
  BY DEF Finish, Goes
<1>3. Blank \in Request /\ Sound(Blank, redis, db)
  BY BlankIs
<1> HIDE DEF Blank
<1> QED BY <1>1, <1>2, <1>3, StepKeeps

-----------------------------------------------------------------------------
(* The steps of the surroundings.                                             *)
LEMMA NextWindowKeeps ==
  ASSUME GInv, NEW k \in Windows, NextWindow(k)
  PROVE  GInv'
<1>1. UNCHANGED <<entry, redis, db, conns, req>>
  BY DEF NextWindow
<1>2. LimitTypeOK'
  <2>1. hits' = [hits EXCEPT ![k] = 0] /\ hits \in [Windows -> 0..Limit]
    BY DEF NextWindow, WindowEnds, GInv, LimitTypeOK
  <2>2. 0 \in 0..Limit
    BY LimitAssumption
  <2> QED BY <2>1, <2>2 DEF LimitTypeOK
<1> QED BY <1>1, <1>2 DEF GInv, EntryInv, PoolInv, Requests

(* An absent entry is not stale.                                              *)
LEMMA InvalidateKeeps ==
  ASSUME GInv, Invalidate
  PROVE  GInv'
<1>1. UNCHANGED <<hits, redis, db, conns, req>>
  BY DEF Invalidate
<1>2. EntryInv(entry)'
  BY DEF Invalidate, Forget, GInv, EntryInv
<1> QED BY <1>1, <1>2 DEF GInv, LimitTypeOK, PoolInv, Requests

(* What an outage adds to seen keeps a request sound, whatever is up now.     *)
LEMMA NotedSound ==
  ASSUME NEW q \in Request, q.pc \notin {"idle", "end"},
         NEW a \in BOOLEAN, NEW b \in BOOLEAN, Sound(q, a, b),
         NEW c \in BOOLEAN, NEW d \in BOOLEAN
  PROVE  LET n == [q EXCEPT !.seen = @ \union Now(q.op, c, d)]
         IN  n \in Request /\ n.pc = q.pc /\ Sound(n, c, d)
<1> DEFINE more == q.seen \union Now(q.op, c, d)
           n == [q EXCEPT !.seen = more]
<1>1. q.op \in Routes /\ q.code = 0
  BY DEF Sound
<1>2. more \in SUBSET Witness /\ Now(q.op, c, d) \subseteq more /\ q.seen \subseteq more
  BY <1>1, NowIs DEF Request
<1> HIDE DEF more
<1>3. /\ n \in Request /\ n.pc = q.pc /\ n.op = q.op /\ n.seen = more /\ n.data = q.data
      /\ n.dbOk = q.dbOk /\ n.code = q.code
  BY <1>2 DEF Request
<1> HIDE DEF n
<1>4. Truthful(n)
  BY <1>1, <1>3, UnansweredTruthful
<1>5. Sound(n, c, d)
  BY <1>1, <1>2, <1>3, <1>4 DEF Sound
<1> QED BY <1>3, <1>5 DEF n, more

(* Outages do not touch who has no request, or has its answer.                *)
LEMMA SettledSound ==
  ASSUME NEW q, q.pc \in {"idle", "end"}, NEW a, NEW b, Sound(q, a, b), NEW c, NEW d
  PROVE  Sound(q, c, d)
BY DEF Sound

(* An outage, or a recovery.                                                  *)
LEMMA SwitchKeeps ==
  ASSUME GInv, Noting, redis' \in BOOLEAN, db' \in BOOLEAN,
         UNCHANGED <<hits, entry, conns>>
  PROVE  GInv'
<1> DEFINE n(r) == IF req[r].pc \in {"idle", "end"} THEN req[r]
                   ELSE [req[r] EXCEPT !.seen = @ \union Now(req[r].op, redis', db')]
<1>1. req' = [r \in Slots |-> n(r)] /\ redis \in BOOLEAN /\ db \in BOOLEAN
  BY DEF Noting, GInv
<1>2. ASSUME NEW r \in Slots
      PROVE  n(r) \in Request /\ n(r).pc = req[r].pc /\ Sound(n(r), redis', db')
  <2>1. req[r] \in Request /\ Sound(req[r], redis, db)
    BY OneRequest
  <2>2. CASE req[r].pc \in {"idle", "end"}
    BY <2>1, <2>2, SettledSound
  <2>3. CASE req[r].pc \notin {"idle", "end"}
    <3>1. n(r) = [req[r] EXCEPT !.seen = @ \union Now(req[r].op, redis', db')]
      BY <2>3
    <3> HIDE DEF n
    <3> QED BY <1>1, <2>1, <2>3, <3>1, NotedSound
  <2> QED BY <2>2, <2>3
<1> HIDE DEF n
<1>3. Requests(req, redis, db)'
  BY <1>1, <1>2 DEF Requests
<1>4. PoolInv(conns, req)'
  <2>1. \A r \in Slots : req'[r].pc = req[r].pc
    BY <1>1, <1>2
  <2> QED BY <2>1 DEF GInv, PoolInv
<1> QED BY <1>3, <1>4 DEF GInv, LimitTypeOK, EntryInv

(* A tick moves an age from what is left of the entry to its age, and adds    *)
(* one to a load.                                                             *)
LEMMA TickKeeps ==
  ASSUME GInv, Tick
  PROVE  GInv'
<1>1. EntryInv(entry)'
  <2>1. entry' = Aged(entry) /\ EntryInv(entry)
    BY DEF Tick, GInv
  <2>2. CASE entry = NoEntry \/ entry.left = 1
    BY <2>1, <2>2 DEF Aged, EntryInv
  <2>3. CASE ~(entry = NoEntry \/ entry.left = 1)
    <3> DEFINE e == [age |-> entry.age + 1, left |-> entry.left - 1]
    <3>1. entry' = e
      BY <2>1, <2>3 DEF Aged
    <3>2. /\ entry.age \in 0..MaxAge /\ entry.left \in 1..CacheTTL
          /\ entry.age + entry.left <= MaxAge
      BY <2>1, <2>3 DEF EntryInv, Entry
    <3>3. /\ entry.age + 1 \in 0..MaxAge /\ entry.left - 1 \in 1..CacheTTL
          /\ (entry.age + 1) + (entry.left - 1) <= MaxAge
      BY <2>3, <3>2, Ages
    <3>4. e \in Entry /\ e.age + e.left <= MaxAge
      BY <3>3 DEF Entry
    <3> QED BY <3>1, <3>4 DEF EntryInv
  <2> QED BY <2>2, <2>3
<1> DEFINE n(r) == IF req[r].pc # "store" THEN req[r]
                   ELSE [req[r] EXCEPT !.data = @ + 1]
<1>2. req' = [r \in Slots |-> n(r)] /\ UNCHANGED <<hits, redis, db, conns>>
  BY DEF Tick
<1>3. ASSUME NEW r \in Slots
      PROVE  n(r) \in Request /\ n(r).pc = req[r].pc /\ Sound(n(r), redis, db)
  <2>1. req[r] \in Request /\ Sound(req[r], redis, db)
    BY OneRequest
  <2>2. CASE req[r].pc # "store"
    BY <2>1, <2>2
  <2>3. CASE req[r].pc = "store"
    <3> DEFINE age == req[r].data + 1
               m == [req[r] EXCEPT !.data = age]
    <3>1. n(r) = m
      BY <2>3
    <3>2. req[r].data \in 0..LoadTicks /\ req[r].data < LoadTicks
      BY <2>1, <2>3 DEF Sound, Tick
    <3>3. age \in 0..LoadTicks /\ age \in 0..MaxAge
      BY <3>2, Ages
    <3> HIDE DEF age
    <3>4. /\ m \in Request /\ m.pc = req[r].pc /\ m.op = req[r].op /\ m.data = age
          /\ m.seen = req[r].seen /\ m.dbOk = req[r].dbOk /\ m.code = req[r].code
         
      BY <2>1, <3>3 DEF Request
    <3> HIDE DEF m, n
    <3>5. m.code = 0
      BY <2>1, <2>3, <3>4 DEF Sound
    <3>6. Truthful(m)
      BY <3>5, UnansweredTruthful
    <3>7. Sound(m, redis, db)
      BY <2>1, <2>3, <3>3, <3>4, <3>6 DEF Sound
    <3> QED BY <3>1, <3>4, <3>7
  <2> QED BY <2>2, <2>3
<1> HIDE DEF n
<1>4. Requests(req, redis, db)'
  BY <1>2, <1>3 DEF Requests
<1>5. PoolInv(conns, req)'
  <2>1. \A r \in Slots : req'[r].pc = req[r].pc
    BY <1>2, <1>3
  <2> QED BY <1>2, <2>1 DEF GInv, PoolInv
<1> QED BY <1>1, <1>2, <1>4, <1>5 DEF GInv, LimitTypeOK

-----------------------------------------------------------------------------
(* Nothing is there at first.                                                 *)
LEMMA InitHolds ==
  ASSUME Init
  PROVE  GInv
<1>1. LimitTypeOK
  <2>1. 0 \in 0..Limit
    BY LimitAssumption
  <2> QED BY <2>1 DEF Init, LimitInit, LimitTypeOK
<1>2. EntryInv(entry)
  BY DEF Init, CacheInit, EntryInv
<1>3. PoolInv(conns, req)
  <2>1. conns = {} /\ IsFiniteSet(conns) /\ Cardinality(conns) = 0
    BY FS_EmptySet DEF Init
  <2> QED BY <2>1, PoolAssumption DEF PoolInv
<1>4. Requests(req, redis, db)
  <2>1. req = [r \in Slots |-> Blank]
    BY DEF Init
  <2> HIDE DEF Blank
  <2> QED BY <2>1, BlankIs DEF Requests
<1> QED BY <1>1, <1>2, <1>3, <1>4 DEF Init, GInv

(* Every step keeps the invariant.                                            *)
LEMMA NextKeeps ==
  ASSUME GInv, [Next]_vars
  PROVE  GInv'
<1>1. CASE \E r \in Slots :
             Progress(r) \/ (\E p \in Peers, op \in Routes : Arrive(r, p, op))
  <2>1. PICK r \in Slots :
          Progress(r) \/ (\E p \in Peers, op \in Routes : Arrive(r, p, op))
    BY <1>1
  <2>2. CASE Progress(r)
    BY <2>2, GetKeeps, CheckoutKeeps, PoolTimeoutKeeps, QueryKeeps, StoreKeeps,
       PingKeeps, FinishKeeps DEF Progress
  <2>3. CASE \E p \in Peers, op \in Routes : Arrive(r, p, op)
    BY <2>3, ArriveKeeps
  <2> QED BY <2>1, <2>2, <2>3
<1>2. CASE \E k \in Windows : NextWindow(k)
  BY <1>2, NextWindowKeeps
<1>3. CASE Invalidate
  BY <1>3, InvalidateKeeps
<1>4. CASE RedisSwitches
  <2>1. redis' \in BOOLEAN /\ db' \in BOOLEAN
    BY <1>4 DEF RedisSwitches, GInv
  <2> QED BY <1>4, <2>1, SwitchKeeps DEF RedisSwitches
<1>5. CASE DbSwitches
  <2>1. redis' \in BOOLEAN /\ db' \in BOOLEAN
    BY <1>5 DEF DbSwitches, GInv
  <2> QED BY <1>5, <2>1, SwitchKeeps DEF DbSwitches
<1>6. CASE Tick
  BY <1>6, TickKeeps
<1>7. CASE UNCHANGED vars
  BY <1>7 DEF vars, GInv, LimitTypeOK, EntryInv, PoolInv, Requests
<1> QED BY <1>1, <1>2, <1>3, <1>4, <1>5, <1>6, <1>7 DEF Next

(* The inductive invariant holds in every reachable state, for every request  *)
(* and whatever Redis and PostgreSQL do (app/main.py, core/cache.py, db.py).  *)
THEOREM Invariance == Spec => []GInv
<1>1. Init => GInv
  BY InitHolds
<1>2. GInv /\ [Next]_vars => GInv'
  BY NextKeeps
<1> QED BY <1>1, <1>2, PTL DEF Spec

(* Counters, entry, pool and requests keep their types.                       *)
THEOREM TypeCorrect == Spec => []TypeOK
<1>1. GInv => TypeOK
  BY DEF GInv, EntryInv, PoolInv, Requests, TypeOK, CacheTypeOK
<1> QED BY <1>1, Invariance, PTL

(* Whatever fails, the pool is never overdrawn and a connection is out only   *)
(* for a request that is using it (get_db, readiness).                        *)
THEOREM ConnectionsReturn == Spec => []NoLeak
<1>1. GInv => NoLeak
  BY DEF GInv, PoolInv, NoLeak, Holding
<1> QED BY <1>1, Invariance, PTL

(* For any pool and any number of requests, the probe never says ready but    *)
(* on what it saw of PostgreSQL and, later, of Redis, and never says          *)
(* unavailable when both were up all the time and a connection was free       *)
(* (readiness).  What the limiter answers in its place is not said here.      *)
THEOREM ProbeTrue == Spec => []ProbeIsTruthful
<1>1. GInv => ProbeIsTruthful
  BY DEF GInv, Requests, Sound, Truthful, ProbeIsTruthful
<1> QED BY <1>1, Invariance, PTL

(* For any time to live and load time, no page and no entry of the cache is   *)
(* older than their sum (get_or_set, invalidate).                             *)
THEOREM PagesRecent == Spec => []PageIsRecent
<1>1. ASSUME GInv, NEW r \in Slots, req[r].data # None
      PROVE  req[r].data <= MaxAge
  <2>1. req[r].data \in 0..MaxAge
    BY <1>1, OneRequest DEF Request
  <2> QED BY <2>1, Ages
<1>2. GInv => PageIsRecent
  BY <1>1 DEF GInv, EntryInv, PageIsRecent
<1> QED BY <1>2, Invariance, PTL

-----------------------------------------------------------------------------
(* How far a request is from its end.                                         *)
Rank(pc) ==
  CASE pc = "idle" -> 0
    [] pc = "end" -> 1
    [] pc \in {"ping", "store"} -> 2
    [] pc = "query" -> 3
    [] pc = "wait" -> 4
    [] pc = "get" -> 5

(* The surroundings change what a request carries, not where it is.           *)
StepsForward ==
  [][\A r \in Slots :
       req[r].pc # "idle" /\ req'[r].pc # req[r].pc =>
         Rank(req'[r].pc) < Rank(req[r].pc)]_vars

(* Where a step of the handler, the pool or the layers brings a request.      *)
LEMMA ProgressForward ==
  ASSUME GInv, NEW r \in Slots, Progress(r)
  PROVE  /\ Rank(req'[r].pc) < Rank(req[r].pc)
         /\ \A s \in Slots \ {r} : req'[s] = req[s]
<1>1. req \in [Slots -> Request]
  BY DEF GInv, Requests
<1>2. ASSUME NEW q, Goes(r, q)
      PROVE  req'[r] = q /\ \A s \in Slots \ {r} : req'[s] = req[s]
  BY <1>1, <1>2 DEF Goes
<1>3. \A q \in Request : \A code : Answered(q, code).pc = "end"
  BY DEF Answered, Request
<1>4. \A q \in Request : DbFails(q).pc \in {"ping", "end"}
  BY <1>3 DEF DbFails, Raised, Request
<1>5. \A q \in Request : Queried(q).pc \in {"ping", "store"}
  BY DEF Queried, Request
<1>6. CASE Get(r)
  <2>1. req[r].pc = "get" /\ req'[r].pc \in {"end", "wait"}
    BY <1>1, <1>6 DEF Get, Goes, Answered, Request
  <2> QED BY <1>2, <1>6, <2>1 DEF Get, Rank
<1>7. CASE Checkout(r)
  <2>1. req[r].pc = "wait" /\ req'[r].pc \in {"query", "ping", "end"}
    BY <1>1, <1>2, <1>4, <1>7 DEF Checkout, Request
  <2> QED BY <1>2, <1>7, <2>1 DEF Checkout, Rank
<1>8. CASE PoolTimeout(r)
  <2> DEFINE q == [req[r] EXCEPT !.seen = @ \union {"trouble"}]
  <2>1. q \in Request
    BY <1>1 DEF Request, Witness
  <2>2. req[r].pc = "wait" /\ Goes(r, DbFails(q))
    BY <1>8 DEF PoolTimeout
  <2> HIDE DEF q
  <2> QED BY <1>2, <1>4, <2>1, <2>2 DEF Rank
<1>9. CASE Query(r)
  <2>1. req[r].pc = "query" /\ req'[r].pc \in {"ping", "store", "end"}
    BY <1>1, <1>2, <1>4, <1>5, <1>9 DEF Query
  <2> QED BY <1>2, <1>9, <2>1 DEF Query, Rank
<1>10. CASE Store(r) \/ Ping(r)
  <2>1. req[r].pc \in {"store", "ping"} /\ req'[r].pc = "end"
    BY <1>1, <1>2, <1>3, <1>10 DEF Store, Ping
  <2> QED BY <1>2, <1>10, <2>1 DEF Store, Ping, Rank
<1>11. CASE Finish(r)
  <2>1. req[r].pc = "end" /\ req'[r].pc = "idle"
    BY <1>2, <1>11 DEF Finish, Blank
  <2> QED BY <1>2, <1>11, <2>1 DEF Finish, Rank
<1> QED BY <1>6, <1>7, <1>8, <1>9, <1>10, <1>11 DEF Progress

(* Whatever Redis, PostgreSQL and the other requests do, a request goes       *)
(* through the layers, the pool and the probe's two checks in one direction:  *)
(* it is over after at most five steps of its own (main.py, cache.py, db.py). *)
THEOREM ServiceIsBounded == Spec => StepsForward
<1>1. ASSUME GInv, [Next]_vars, NEW r \in Slots,
             req[r].pc # "idle", req'[r].pc # req[r].pc
      PROVE  Rank(req'[r].pc) < Rank(req[r].pc)
  <2>1. req \in [Slots -> Request]
    BY <1>1 DEF GInv, Requests
  <2>2. ASSUME NEW o \in Slots, NEW p, NEW op, Arrive(o, p, op)
        PROVE  FALSE
    BY <1>1, <2>1, <2>2 DEF Arrive, Goes
  <2>3. ~(\E k \in Windows : NextWindow(k)) /\ ~Invalidate
    BY <1>1 DEF NextWindow, Invalidate
  <2>4. ~Noting
    BY <1>1, <2>1 DEF Noting, Request
  <2>5. ~Tick
    BY <1>1, <2>1 DEF Tick, Request
  <2> QED
    BY <1>1, <2>2, <2>3, <2>4, <2>5, ProgressForward
    DEF Next, vars, RedisSwitches, DbSwitches
<1>2. GInv /\ [Next]_vars =>
        [\A r \in Slots :
           req[r].pc # "idle" /\ req'[r].pc # req[r].pc =>
             Rank(req'[r].pc) < Rank(req[r].pc)]_vars
  BY <1>1
<1> QED BY <1>2, Invariance, PTL DEF Spec, StepsForward
==============================================================================
