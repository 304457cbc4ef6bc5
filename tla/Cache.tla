------------------------------- MODULE Cache -------------------------------
(* One key of the read-through cache of app/core/cache.py.  The data is       *)
(* abstracted to its age, the ticks since a loader read it; the entry says    *)
(* how long Redis will still keep it.                                         *)
EXTENDS Naturals

CONSTANTS
  CacheTTL,   \* ttl_seconds
  LoadTicks,  \* ticks from a loader's read to the end of its SETEX, bounded
              \* by the socket timeouts and their retry
  NoEntry

ASSUME CacheAssumption == CacheTTL \in Nat \ {0} /\ LoadTicks \in Nat

MaxAge == CacheTTL + LoadTicks
Entry == [age : 0..MaxAge, left : 1..CacheTTL]

ASSUME NoEntryAssumption == NoEntry \notin Entry

VARIABLE entry

CacheInit == entry = NoEntry

SetEx(age) == entry' = [age |-> age, left |-> CacheTTL]

(* DEL, an eviction, or a Redis that lost its data.                           *)
Forget == entry' = NoEntry

(* Mutant: SET without a time to live.                                        *)
AgedForever(e) ==
  IF e = NoEntry THEN NoEntry ELSE [age |-> e.age + 1, left |-> e.left]

(* The entry a tick later.                                                    *)
Aged(e) ==
  IF e = NoEntry \/ e.left = 1 THEN NoEntry
  ELSE [age |-> e.age + 1, left |-> e.left - 1]

CacheTypeOK == entry \in Entry \union {NoEntry}
=============================================================================
