--------------------------- MODULE AccountDirectory ---------------------------
(* What the account endpoints promise about identity, without requests, locks *)
(* or transactions: an account is opened under keys (an email, a Firebase     *)
(* uid) nobody else has, may exchange them for other free ones, and is closed *)
(* once, which gives all its keys back.                                       *)
CONSTANTS Ids, AllKeys

VARIABLES
  keys,     \* id -> the keys of the account, none unless it is open
  closed    \* ids whose account was deleted

vars == <<keys, closed>>

Init == keys = [i \in Ids |-> {}] /\ closed = {}

(* From now on i has other keys, or its first ones, which nobody else has.    *)
Takes(i) ==
  /\ keys'[i] # {} /\ keys'[i] \subseteq AllKeys
  /\ \A j \in Ids \ {i} : keys[j] \intersect keys'[i] = {}
  /\ keys' = [keys EXCEPT ![i] = keys'[i]]
  /\ UNCHANGED closed

Open(i) == keys[i] = {} /\ i \notin closed /\ Takes(i)
Rekey(i) == keys[i] # {} /\ Takes(i)

Close(i) ==
  /\ keys[i] # {}
  /\ keys' = [keys EXCEPT ![i] = {}]
  /\ closed' = closed \union {i}

Next == \E i \in Ids : Open(i) \/ Rekey(i) \/ Close(i)

Spec == Init /\ [][Next]_vars
=============================================================================
