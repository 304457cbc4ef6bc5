----------------------------- MODULE AddressBook -----------------------------
(* What the address endpoints promise each user, without requests, row locks  *)
(* or transactions: a book of addresses with at most one default.  The first  *)
(* address is the default; another becomes it at once in place of the old     *)
(* one; a default that is unset or removed is not replaced.                   *)
CONSTANTS Users, Ids

VARIABLES
  book,     \* user -> the user's addresses
  default   \* user -> the default among them, a set of at most one

vars == <<book, default>>

Init == book = [u \in Users |-> {}] /\ default = [u \in Users |-> {}]

Add(u) ==
  \E a \in Ids :
    /\ \A v \in Users : a \notin book[v]
    /\ book' = [book EXCEPT ![u] = @ \union {a}]
    /\ \/ default' = [default EXCEPT ![u] = {a}]
       \/ book[u] # {} /\ UNCHANGED default

Switch(u) ==
  /\ \E a \in book[u] : default' = [default EXCEPT ![u] = {a}]
  /\ UNCHANGED book

Unset(u) ==
  /\ default' = [default EXCEPT ![u] = {}]
  /\ UNCHANGED book

Remove(u) ==
  \E a \in book[u] :
    /\ book' = [book EXCEPT ![u] = @ \ {a}]
    /\ default' = [default EXCEPT ![u] = @ \ {a}]

Next == \E u \in Users : Add(u) \/ Switch(u) \/ Unset(u) \/ Remove(u)

Spec == Init /\ [][Next]_vars
=============================================================================
