------------------------------ MODULE Gateway ------------------------------
(* One request after another through a worker: the middleware app/main.py     *)
(* puts around the routes, the limiter and the cache it shares Redis with,    *)
(* and the connection pool of app/core/db.py.  Redis and PostgreSQL come and  *)
(* go.  Two routes stand for all: "ready" is GET /health/ready, "page" a      *)
(* handler that reads through get_or_set with a loader that queries its       *)
(* session.  (No handler does so at this commit; a handler that only queries  *)
(* is a page whose cache is always empty.)                                    *)
EXTENDS RateLimit, Cache, FiniteSets

CONSTANTS
  Slots,      \* requests the worker serves at once
  PoolSize,   \* DATABASE_POOL_SIZE + DATABASE_MAX_OVERFLOW
  None

Routes == {"ready", "page"}

ASSUME PathsAssumption == Routes \subseteq Paths
ASSUME PoolAssumption == PoolSize \in Nat \ {0}
ASSUME NullAssumption == None \notin Routes \union Nat

VARIABLES
  redis, db,   \* whether they answer
  conns,       \* slots that have a connection checked out
  req          \* slot -> request

vars == <<hits, entry, redis, db, conns, req>>

(* pc: get    page: about to GET the key       wait  for a connection         *)
(*     query  has one and is about to use it   store page: about to SETEX     *)
(*     ping   ready: about to PING Redis       end   answer made, about to go *)
(* data: age of what the page shows.  dbOk: what checks["database"] says.     *)
(* seen: what was true at some moment of the request, of "redis" and "db"     *)
(* (up) and "trouble" (one down, or no connection left); only the properties  *)
(* read it.                                                                   *)
Witness == {"redis", "db", "trouble"}
Request ==
  [pc : {"idle", "get", "wait", "query", "store", "ping", "end"},
   op : Routes \union {None}, data : 0..MaxAge \union {None}, dbOk : BOOLEAN,
   code : {0, 200, 429, 500, 503}, seen : SUBSET Witness]

Blank == [pc |-> "idle", op |-> None, data |-> None, dbOk |-> FALSE,
          code |-> 0, seen |-> {}]

Init ==
  /\ LimitInit /\ CacheInit
  /\ redis = TRUE /\ db = TRUE
  /\ conns = {}
  /\ req = [r \in Slots |-> Blank]

-----------------------------------------------------------------------------
Answered(q, code) == [q EXCEPT !.pc = "end", !.code = code]

(* An exception no handler takes.                                             *)
Raised(q) == Answered(q, 500)

Full == Cardinality(conns) >= PoolSize
Now(op, redisUp, dbUp) ==
  {w \in Witness : \/ w = "trouble" /\ ~(redisUp /\ dbUp)
                   \/ w = "redis" /\ redisUp /\ op = "ready"
                   \/ w = "db" /\ dbUp /\ op = "ready"}

Goes(r, q) == req' = [req EXCEPT ![r] = q]

-----------------------------------------------------------------------------
(* The limiter is outermost and counts first.  Without Redis it raises.       *)
Arrive(r, peer, op) ==
  /\ req[r].pc = "idle"
  /\ LET q == [Blank EXCEPT !.op = op, !.seen = Now(op, redis, db)]
     IN IF redis
        THEN /\ Hit(<<peer, op>>)
             /\ Goes(r, IF ~Passes(<<peer, op>>) THEN Answered(q, 429)
                        ELSE [q EXCEPT !.pc = IF op = "page" THEN "get"
                                              ELSE "wait"])
        ELSE UNCHANGED hits /\ Goes(r, Raised(q))
  /\ UNCHANGED <<entry, redis, db, conns>>

(* GET: a hit, or the loader, also when Redis fails.                          *)
Get(r) ==
  /\ req[r].pc = "get"
  /\ Goes(r, IF redis /\ entry # NoEntry
             THEN Answered([req[r] EXCEPT !.data = entry.age], 200)
             ELSE [req[r] EXCEPT !.pc = "wait"])
  /\ UNCHANGED <<hits, entry, redis, db, conns>>

(* What a failure to get or use a connection does: the probe catches it.      *)
DbFails(q) ==
  IF q.op = "ready" THEN [q EXCEPT !.pc = "ping"] ELSE Raised(q)

(* pool_pre_ping: a connection that is handed out was alive.                  *)
Checkout(r) ==
  /\ req[r].pc = "wait" /\ ~Full
  /\ IF db THEN conns' = conns \union {r} /\ Goes(r, [req[r] EXCEPT !.pc = "query"])
           ELSE UNCHANGED conns /\ Goes(r, DbFails(req[r]))
  /\ UNCHANGED <<hits, entry, redis, db>>

(* Thirty seconds without a free connection.                                  *)
PoolTimeout(r) ==
  /\ req[r].pc = "wait" /\ Full
  /\ Goes(r, DbFails([req[r] EXCEPT !.seen = @ \union {"trouble"}]))
  /\ UNCHANGED <<hits, entry, redis, db, conns>>

Queried(q) ==
  IF q.op = "ready"
  THEN [q EXCEPT !.pc = "ping", !.dbOk = TRUE,
                 !.seen = (@ \ {"redis"}) \union Now("ready", redis, db)]
  ELSE [q EXCEPT !.pc = "store", !.data = 0]

(* Mutant: a query that fails is tried again.                                 *)
QueryRetried(r) ==
  /\ req[r].pc = "query" /\ db
  /\ Goes(r, Queried(req[r]))
  /\ conns' = IF req[r].op = "ready" THEN conns \ {r} ELSE conns
  /\ UNCHANGED <<hits, entry, redis, db>>

(* Mutant: a connection that is given back on success only.                   *)
QueryLeaking(r) ==
  /\ req[r].pc = "query"
  /\ Goes(r, IF db THEN Queried(req[r]) ELSE DbFails(req[r]))
  /\ conns' = IF req[r].op = "ready" /\ db THEN conns \ {r} ELSE conns
  /\ UNCHANGED <<hits, entry, redis, db>>

(* The probe's connection goes back at once, a session's at the end of the    *)
(* request, or when its query raises.                                         *)
Query(r) ==
  /\ req[r].pc = "query"
  /\ Goes(r, IF db THEN Queried(req[r]) ELSE DbFails(req[r]))
  /\ conns' = IF req[r].op = "ready" \/ ~db THEN conns \ {r} ELSE conns
  /\ UNCHANGED <<hits, entry, redis, db>>

(* SETEX, or nothing when Redis fails.                                        *)
Store(r) ==
  /\ req[r].pc = "store"
  /\ IF redis THEN SetEx(req[r].data) ELSE UNCHANGED entry
  /\ Goes(r, Answered(req[r], 200))
  /\ UNCHANGED <<hits, redis, db, conns>>

(* Mutant: all_ok looks at the database alone.                                *)
PingIgnored(r) ==
  /\ req[r].pc = "ping"
  /\ Goes(r, Answered(req[r], IF req[r].dbOk THEN 200 ELSE 503))
  /\ UNCHANGED <<hits, entry, redis, db, conns>>

(* ping() catches every error; readiness raises ServiceUnavailable.           *)
Ping(r) ==
  /\ req[r].pc = "ping"
  /\ Goes(r, Answered(req[r], IF req[r].dbOk /\ redis THEN 200 ELSE 503))
  /\ UNCHANGED <<hits, entry, redis, db, conns>>

(* The answer leaves, and get_db closes its session around it.                *)
Finish(r) ==
  /\ req[r].pc = "end"
  /\ conns' = conns \ {r}
  /\ Goes(r, Blank)
  /\ UNCHANGED <<hits, entry, redis, db>>

-----------------------------------------------------------------------------
(* invalidate, by any caller: the key goes if Redis answers, and the caller   *)
(* is not told when it does not.                                              *)
Invalidate ==
  /\ IF redis THEN Forget ELSE UNCHANGED entry
  /\ UNCHANGED <<hits, redis, db, conns, req>>

NextWindow(k) == WindowEnds(k) /\ UNCHANGED <<entry, redis, db, conns, req>>

(* An outage or a recovery, noted by the requests under way.                  *)
Noting ==
  req' = [r \in Slots |-> IF req[r].pc \in {"idle", "end"} THEN req[r]
            ELSE [req[r] EXCEPT !.seen = @ \union Now(req[r].op, redis', db')]]

RedisSwitches ==
  redis' = ~redis /\ UNCHANGED <<hits, entry, db, conns>> /\ Noting
DbSwitches ==
  db' = ~db /\ UNCHANGED <<hits, entry, redis, conns>> /\ Noting

(* Time passes, but for no more than LoadTicks before a SETEX.                *)
Tick ==
  /\ \A r \in Slots : req[r].pc = "store" => req[r].data < LoadTicks
  /\ entry' = Aged(entry)
  /\ req' = [r \in Slots |-> IF req[r].pc # "store" THEN req[r]
               ELSE [req[r] EXCEPT !.data = @ + 1]]
  /\ UNCHANGED <<hits, redis, db, conns>>

Progress(r) ==
  \/ Get(r) \/ Checkout(r) \/ PoolTimeout(r) \/ Query(r) \/ Store(r)
  \/ Ping(r) \/ Finish(r)

Next ==
  \/ \E r \in Slots : Progress(r) \/ (\E p \in Peers, op \in Routes : Arrive(r, p, op))
  \/ \E k \in Windows : NextWindow(k)
  \/ Invalidate \/ RedisSwitches \/ DbSwitches \/ Tick

Spec == Init /\ [][Next]_vars

(* Handlers go on.                                                            *)
FairSpec == Spec /\ \A r \in Slots : WF_vars(Progress(r))

-----------------------------------------------------------------------------
TypeOK ==
  /\ LimitTypeOK /\ CacheTypeOK
  /\ redis \in BOOLEAN /\ db \in BOOLEAN
  /\ conns \subseteq Slots
  /\ req \in [Slots -> Request]

(* No connection leaks, whatever fails: one is out only for a request that is *)
(* using it, never for one that waits for another, so that a full pool always *)
(* empties (get_db's finally, the probe's async with).                        *)
NoLeak ==
  /\ Cardinality(conns) <= PoolSize
  /\ \A r \in conns : req[r].pc \in {"query", "store", "end"}

(* What the readiness probe says was so, though its two checks look at two    *)
(* moments (main.py:166-186).  Ready: PostgreSQL was up during the probe, and *)
(* Redis after PostgreSQL had answered.  Unavailable: one was down, or the    *)
(* pool was full.                                                             *)
ProbeIsTruthful ==
  \A r \in Slots : req[r].op = "ready" =>
    /\ req[r].code = 200 => {"redis", "db"} \subseteq req[r].seen
    /\ req[r].code = 503 => "trouble" \in req[r].seen

(* Whatever invalidate missed or a slow loader stored after it, no page shows *)
(* data older than the time to live and the time a load takes.                *)
PageIsRecent ==
  /\ entry # NoEntry => entry.age + entry.left <= MaxAge
  /\ \A r \in Slots : req[r].data # None => req[r].data <= MaxAge

(* Every request is answered, Redis and PostgreSQL up or not.                 *)
EveryRequestAnswered == \A r \in Slots : req[r].pc # "idle" ~> req[r].pc = "idle"

-----------------------------------------------------------------------------
(* A claim of the repository that its code does not keep.                     *)

(* progress/current-state.md:171 says GET /health/ready returns 503 with      *)
(* details if PostgreSQL or Redis fails.  With Redis down the limiter raises  *)
(* before the probe is reached, and the answer is a bare 500.                 *)
ProbeReports503 ==
  \A r \in Slots :
    req[r].op = "ready" /\ req[r].pc = "end" => req[r].code \in {200, 429, 503}
=============================================================================
