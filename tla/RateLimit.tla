----------------------------- MODULE RateLimit -----------------------------
(* The fixed-window counters the limiter of app/main.py keeps in Redis: one   *)
(* key per peer address and URL path, for both workers.  hits[k] = 0 means    *)
(* the key is not there.                                                      *)
EXTENDS Naturals

CONSTANTS
  Peers,  \* addresses the limiter sees: its own for each client that connects
          \* to the published port, nginx's alone where nginx is in between
  Paths,
  Limit   \* RATE_LIMIT_PER_IP_PER_MINUTE

ASSUME LimitAssumption == Limit \in Nat \ {0}

VARIABLE hits

Windows == Peers \X Paths
LimitInit == hits = [k \in Windows |-> 0]

(* A counter beyond Limit is not told apart from Limit: both are spent.       *)
Count(k) == IF hits[k] < Limit THEN hits[k] + 1 ELSE Limit

(* INCR, and the answer is compared with the limit.                           *)
Passes(k) == hits[k] < Limit
Hit(k) == hits' = [hits EXCEPT ![k] = Count(k)]

(* The key expires a minute after the INCR that made it, or is evicted before *)
(* (allkeys-lru).                                                             *)
WindowEnds(k) == hits[k] > 0 /\ hits' = [hits EXCEPT ![k] = 0]

LimitTypeOK == hits \in [Windows -> 0..Limit]
=============================================================================
