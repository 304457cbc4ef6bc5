----------------------------- MODULE Addresses -----------------------------
(* The user_addresses table and the four /me/addresses handlers that write    *)
(* it, as concurrent requests against PostgreSQL at READ COMMITTED:           *)
(* app/modules/auth/service.py:343-461.  What is kept of an address is whose  *)
(* it is and whether it is the default delivery address.                      *)
(*                                                                            *)
(* A request r goes through                                                   *)
(*   idle    no request is being served in this slot                          *)
(*   begin   about to run the UPDATE that clears the user's defaults          *)
(*   clear   that UPDATE has taken its snapshot and is locking rows           *)
(*   flush   about to flush the UPDATE or DELETE of its own row               *)
(*   answer  the handler has returned                                         *)
(*   commit  answered, the commit outstanding (ReplyFirst only)               *)
(*   reply   the transaction is over, the answer outstanding                  *)
EXTENDS Naturals, FiniteSets

CONSTANTS
  Requests,    \* request slots: bounds how many requests run at once
  Users,       \* callers with a valid access token
  Patient,     \* users whose client awaits each answer before it goes on
  AddrIds,     \* bounds the addresses that exist at once
  ReplyFirst,  \* get_db commits after the response is sent (see Accounts)
  None         \* no row, or a PATCH that does not touch is_default

ASSUME PatientAssumption == Patient \subseteq Users
ASSUME ReplyAssumption == ReplyFirst \in BOOLEAN

(* A request needs a connection of the pool, which has a largest size.        *)
ASSUME RequestsAssumption == IsFiniteSet(Requests)

Writers == {"create", "update", "delete"}

ASSUME NullAssumption ==
  None \notin Users \union AddrIds /\ None \notin BOOLEAN /\ None \notin Writers

Address == [owner : Users, default : BOOLEAN]
ASSUME RowAssumption == None \notin Address

VARIABLES
  addrs,   \* the committed table: id -> row or None
  req      \* slot -> request

vars == <<addrs, req>>

Request ==
  [pc : {"idle", "begin", "clear", "flush", "answer", "commit", "reply"},
   op : Writers \union {None}, user : Users \union {None},
   id : AddrIds \union {None},        \* the row created, updated or deleted
   sets : BOOLEAN \union {None},      \* the value its is_default column gets
   targets : SUBSET AddrIds,          \* defaults of the snapshot still to clear
   cleared : SUBSET AddrIds,          \* rows this transaction has cleared
   locks : SUBSET AddrIds]            \* rows it has locked

Blank == [pc |-> "idle", op |-> None, user |-> None, id |-> None, sets |-> None,
          targets |-> {}, cleared |-> {}, locks |-> {}]

Init ==
  /\ addrs = [a \in AddrIds |-> None]
  /\ req = [r \in Requests |-> Blank]

-----------------------------------------------------------------------------
Owned(u) == {a \in AddrIds : addrs[a] # None /\ addrs[a].owner = u}
Defaults(u) == {a \in Owned(u) : addrs[a].default}

(* Primary keys are uuid4(): one that is referred to is not drawn again.      *)
FreshIds ==
  {a \in AddrIds : addrs[a] = None
     /\ \A r \in Requests : a \notin {req[r].id} \union req[r].targets}

Unanswered(u) ==
  \E r \in Requests : req[r].user = u /\ req[r].pc \notin {"idle", "commit"}

Arrives(r, u) == req[r].pc = "idle" /\ (u \in Patient => ~Unanswered(u))

Proceed(r, pc, op, u, a, sets) ==
  req' = [req EXCEPT ![r] = [pc |-> pc, op |-> op, user |-> u, id |-> a,
            sets |-> sets, targets |-> {}, cleared |-> {}, locks |-> {}]]

(* An error, after the rollback, on its way to the client.                    *)
Refuse(r, u) ==
  req' = [req EXCEPT ![r] = [Blank EXCEPT !.pc = "reply", !.user = u]]

-----------------------------------------------------------------------------
(* Arrivals, up to and with the SELECT that opens the handler.                *)
(* Mutant: the first address of a user is not made the default.               *)
CreateUnforced(r) ==
  /\ \E u \in Users, default \in BOOLEAN, a \in FreshIds :
       /\ Arrives(r, u)
       /\ Proceed(r, IF default THEN "begin" ELSE "answer", "create", u, a, default)
  /\ UNCHANGED addrs

Create(r) ==
  /\ \E u \in Users, wants \in BOOLEAN, a \in FreshIds :
       LET default == wants \/ Owned(u) = {}
       IN /\ Arrives(r, u)
          /\ Proceed(r, IF default THEN "begin" ELSE "answer", "create", u, a, default)
  /\ UNCHANGED addrs

(* Mutant: the old default is not cleared.                                    *)
UpdateWithoutClear(r) ==
  /\ \E u \in Users, a \in AddrIds :
       /\ Arrives(r, u)
       /\ a \in Owned(u)
       /\ \E d \in BOOLEAN : Proceed(r, "flush", "update", u, a, d)
  /\ UNCHANGED addrs

(* The body sets is_default, or (None) only other fields.  A value the row    *)
(* already has is no change and nothing is flushed; an explicit null fails    *)
(* the column's NOT NULL.                                                     *)
Update(r) ==
  /\ \E u \in Users, a \in AddrIds :
       /\ Arrives(r, u)
       /\ \/ a \notin Owned(u) /\ Refuse(r, u)
          \/ a \in Owned(u) /\ Refuse(r, u)
          \/ /\ a \in Owned(u)
             /\ \E d \in BOOLEAN \union {None} :
                  Proceed(r, IF d = addrs[a].default THEN "answer"
                             ELSE IF d = TRUE THEN "begin" ELSE "flush",
                          "update", u, a, IF d = addrs[a].default THEN None ELSE d)
  /\ UNCHANGED addrs

Delete(r) ==
  /\ \E u \in Users, a \in AddrIds :
       /\ Arrives(r, u)
       /\ \/ a \notin Owned(u) /\ Refuse(r, u)
          \/ a \in Owned(u) /\ Proceed(r, "flush", "delete", u, a, None)
  /\ UNCHANGED addrs

-----------------------------------------------------------------------------
(* Row locks of the transactions in flight.                                   *)
HoldersOf(a, r) == {o \in Requests \ {r} : a \in req[o].locks}

(* The row, if it is still there to lock.                                     *)
Found(a) == {a} \intersect {b \in AddrIds : addrs[b] # None}

AfterClear(r) == IF req[r].op = "create" THEN "answer" ELSE "flush"

(* Mutant: the UPDATE has no condition on user_id.                            *)
StartClearOfAll(r) ==
  /\ req[r].pc = "begin"
  /\ LET all == UNION {Defaults(u) : u \in Users}
     IN req' = [req EXCEPT ![r].targets = all, ![r].locks = all, ![r].cleared = all,
                           ![r].pc = AfterClear(r)]
  /\ UNCHANGED addrs

(* _clear_default_addresses: the UPDATE sees the defaults of its snapshot,    *)
(* locks one row after the other, and leaves a row that is no longer a        *)
(* default when it gets the lock as it is.                                    *)
StartClear(r) ==
  /\ req[r].pc = "begin"
  /\ req' = [req EXCEPT ![r].targets = Defaults(req[r].user),
               ![r].pc = IF Defaults(req[r].user) = {} THEN AfterClear(r) ELSE "clear"]
  /\ UNCHANGED addrs

ClearRow(r) ==
  /\ req[r].pc = "clear"
  /\ \E a \in req[r].targets :
       /\ HoldersOf(a, r) = {}
       /\ req' = [req EXCEPT ![r].targets = @ \ {a},
                    ![r].locks = @ \union Found(a),
                    ![r].cleared = @ \union ({a} \intersect Defaults(req[r].user)),
                    ![r].pc = IF req[r].targets = {a} THEN AfterClear(r) ELSE "clear"]
  /\ UNCHANGED addrs

(* Mutant: an UPDATE that finds no row passes unnoticed, and writes nothing.  *)
FlushRowUnchecked(r) ==
  /\ req[r].pc = "flush" /\ HoldersOf(req[r].id, r) = {}
  /\ req' = [req EXCEPT ![r].pc = "answer", ![r].locks = @ \union Found(req[r].id),
               ![r].sets = IF addrs[req[r].id] = None THEN None ELSE @]
  /\ UNCHANGED addrs

(* The flush of the request's own row.  A DELETE that finds no row is only    *)
(* warned about; an UPDATE that finds none raises StaleDataError.             *)
FlushRow(r) ==
  /\ req[r].pc = "flush" /\ HoldersOf(req[r].id, r) = {}
  /\ req[r].op = "update" => addrs[req[r].id] # None
  /\ req' = [req EXCEPT ![r].pc = "answer", ![r].locks = @ \union Found(req[r].id)]
  /\ UNCHANGED addrs

(* Mutant: a handler that finds its row gone starts again.                    *)
StaleDataRetried(r) ==
  /\ req[r].pc = "flush" /\ req[r].op = "update" /\ addrs[req[r].id] = None
  /\ req' = [req EXCEPT ![r].pc = "begin"]
  /\ UNCHANGED addrs

StaleData(r) ==
  /\ req[r].pc = "flush" /\ HoldersOf(req[r].id, r) = {}
  /\ req[r].op = "update" /\ addrs[req[r].id] = None
  /\ Refuse(r, req[r].user)
  /\ UNCHANGED addrs

(* Mutant: the waits of an UPDATE of several rows are not looked at.          *)
WaitsForOwnRow(r) == IF req[r].pc = "flush" THEN HoldersOf(req[r].id, r) ELSE {}

WaitsFor(r) ==
  CASE req[r].pc = "clear" ->
         IF \E a \in req[r].targets : HoldersOf(a, r) = {} THEN {}
         ELSE UNION {HoldersOf(a, r) : a \in req[r].targets}
    [] req[r].pc = "flush" -> HoldersOf(req[r].id, r)
    [] OTHER -> {}

AllWait(S) == S # {} /\ \A o \in S : WaitsFor(o) \intersect S # {}

InCycle(r) ==
  \E S \in SUBSET Requests :
    r \in S /\ AllWait(S) /\ \A T \in SUBSET S : AllWait(T) => T = S

DeadlockVictim(r) ==
  /\ InCycle(r)
  /\ Refuse(r, req[r].user)
  /\ UNCHANGED addrs

-----------------------------------------------------------------------------
(* What the transaction of r makes of address a.                              *)
Written(r, a) ==
  LET old == addrs[a]
  IN CASE a = req[r].id /\ req[r].op = "create" ->
            [owner |-> req[r].user, default |-> req[r].sets]
       [] a = req[r].id /\ req[r].op = "delete" -> None
       [] a = req[r].id /\ req[r].op = "update" /\ req[r].sets # None ->
            [old EXCEPT !.default = req[r].sets]
       [] a # req[r].id /\ a \in req[r].cleared -> [old EXCEPT !.default = FALSE]
       [] OTHER -> old

Commit(r) ==
  /\ req[r].pc = IF ReplyFirst THEN "commit" ELSE "answer"
  /\ addrs' = [a \in AddrIds |-> Written(r, a)]
  /\ IF ReplyFirst THEN req' = [req EXCEPT ![r] = Blank]
                   ELSE Refuse(r, req[r].user)

(* The answer leaves: before the commit when ReplyFirst, else after it.       *)
Send(r) ==
  /\ req[r].pc \in {"reply"} \union (IF ReplyFirst THEN {"answer"} ELSE {})
  /\ req' = [req EXCEPT ![r] = IF @.pc = "reply" THEN Blank
                                 ELSE [@ EXCEPT !.pc = "commit"]]
  /\ UNCHANGED addrs

(* The worker dies: the transaction is rolled back and no answer is sent.     *)
Drop(r) ==
  /\ req[r].pc # "idle"
  /\ req' = [req EXCEPT ![r] = Blank]
  /\ UNCHANGED addrs

Arrive(r) == Create(r) \/ Update(r) \/ Delete(r)

Progress(r) ==
  \/ StartClear(r) \/ ClearRow(r) \/ FlushRow(r) \/ StaleData(r)
  \/ DeadlockVictim(r) \/ Commit(r) \/ Send(r)

Next == \E r \in Requests : Arrive(r) \/ Progress(r) \/ Drop(r)

Spec == Init /\ [][Next]_vars

(* As in Accounts: handlers keep running and lock queues are fair.            *)
FairSpec == Spec /\ \A r \in Requests : SF_vars(Progress(r))
-----------------------------------------------------------------------------
(* Types; and a request holds locks, and clears rows, only of its own user.   *)
TypeOK ==
  /\ addrs \in [AddrIds -> Address \union {None}]
  /\ req \in [Requests -> Request]
  /\ \A r \in Requests :
       /\ req[r].cleared \subseteq req[r].locks
       /\ \A a \in req[r].locks : addrs[a] # None /\ addrs[a].owner = req[r].user

(* A user whose client sends one request at a time never has two default      *)
(* addresses, whatever others do: service.py:354-385 and 429-434.  It needs   *)
(* the commit before the answer.                                              *)
OneDefaultIfServedInTurn ==
  ~ReplyFirst => \A u \in Patient : Cardinality(Defaults(u)) <= 1

(* What the comment at service.py:380 promises of every user, in any order.   *)
OneDefault == \A u \in Users : Cardinality(Defaults(u)) <= 1

(* The commit of r is the step.                                               *)
Commits(r) == req[r].pc \in {"answer", "commit"} /\ addrs' # addrs /\ req'[r] # req[r]

(* An address changes or goes only by the commit of a request of its owner:   *)
(* the user_id conditions of _get_address and _clear_default_addresses.       *)
OnlyOwnerWrites ==
  [][\A a \in AddrIds : addrs[a] # None /\ addrs'[a] # addrs[a] =>
       \E r \in Requests : Commits(r) /\ req[r].user = addrs[a].owner]_vars

(* However the requests of a user overlap, the last default goes only when    *)
(* the user deletes it or unsets it.  Making another address the default      *)
(* clears the old one and sets the new one, or does neither: service.py:433   *)
(* to 439 in one transaction, and a flush that finds its row gone fails.      *)
DefaultLostOnlyOnPurpose ==
  [][\A u \in Users : Defaults(u) # {} /\ Defaults(u)' = {} =>
       \E r \in Requests :
         /\ Commits(r) /\ Defaults(u) = {req[r].id}
         /\ req[r].op = "delete" \/ req[r].sets = FALSE]_vars

(* The books the table implements: those of the users who are served in turn. *)
ServedInTurn == IF ReplyFirst THEN {} ELSE Patient

Book == INSTANCE AddressBook WITH
  Users <- ServedInTurn,
  Ids <- AddrIds,
  book <- [u \in ServedInTurn |-> Owned(u)],
  default <- [u \in ServedInTurn |-> Defaults(u)]

(* To a user whose client sends one request at a time, each request happens   *)
(* at once and alone, though it counts the addresses, clears the defaults and *)
(* writes its own row in separate statements, and others commit between them: *)
(* the first address is the default (service.py:379) and stays the only one.  *)
ImplementsBook == Book!Spec

(* The guards of Progress(r).                                                 *)
CanProceed(r) ==
  \/ req[r].pc \in {"begin", "answer", "reply"}
  \/ req[r].pc = "clear" /\ \E a \in req[r].targets : HoldersOf(a, r) = {}
  \/ req[r].pc = "flush" /\ HoldersOf(req[r].id, r) = {}
  \/ InCycle(r)
  \/ req[r].pc = "commit" /\ ReplyFirst

(* Requests that clear and set the defaults of one user lock the same rows,   *)
(* in any order; while one is being served, one can go on.                    *)
NeverStuck ==
  (\E r \in Requests : req[r].pc # "idle") => \E r \in Requests : CanProceed(r)

(* Every request is answered or dropped: waiting for row locks ends.          *)
EveryRequestEnds == \A r \in Requests : req[r].pc # "idle" ~> req[r].pc = "idle"
=============================================================================
