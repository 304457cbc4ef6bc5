------------------------------ MODULE Sessions ------------------------------
(* How long a client can act for an account: the tokens of                    *)
(* app/core/security.py, the endpoints that issue or accept them, and a       *)
(* clock.  Nothing on the server can be revoked, so what ends a session is    *)
(* expiry, and the look refresh_tokens takes at the account.  The address     *)
(* endpoints belong here because they trust a token without reading users.    *)
(*                                                                            *)
(* Time passes in ticks.  A token is what its claims say: a kind, an account  *)
(* and the ticks it has left; of several only the freshest is kept.  A        *)
(* request that is refused changes nothing and is left out.                   *)
EXTENDS Naturals

CONSTANTS
  Slots,        \* requests that run at once
  Users,        \* accounts, all of them registered
  TTL,          \* kind of token -> ticks from issue to expiry
  Patience,     \* ticks a client waits for its answer: nginx's
                \* proxy_read_timeout, or its own where nginx is not in between
  Development,  \* APP_ENV = "development": reset tokens reach a person by log
  ReplyFirst,   \* get_db commits after the answer, as in Accounts
  None

Kinds == {"access", "refresh", "password_reset"}
Pair == {"access", "refresh"}
Statuses == {"open", "suspended", "deleted"}
BearerOps == {"add_address", "drop_address", "change_password", "delete_me"}
Ops == BearerOps \union {"login", "refresh", "reset_confirm"}

ASSUME TTLAssumption == TTL \in [Kinds -> Nat]
ASSUME PatienceAssumption == Patience \in Nat
ASSUME SwitchAssumption == Development \in BOOLEAN /\ ReplyFirst \in BOOLEAN
ASSUME NullAssumption == None \notin Users \union Ops \union Nat

(* Where the counters of ticks stop: past it nothing the properties ask can   *)
(* tell one value from another.                                               *)
Late == Patience + 1
Horizon(k) ==
  IF k = "access" THEN TTL[k] + Patience + Late ELSE TTL[k] + Late

VARIABLES
  status,     \* users.is_active and users.deleted_at
  address,    \* whether the account has an address
  life,       \* account -> kind -> ticks left of the freshest token held
  closedFor,  \* ticks since the account was last open
  askedFor,   \* ticks since a reset of its password was last requested
  req         \* slot -> request

vars == <<status, address, life, closedFor, askedFor, req>>

(* pc: lock   about to run the statement that locks the users row             *)
(*     held   the handler has returned, its statement done and its lock held  *)
(*     sent   answered and not committed     done   committed, not answered   *)
(* age: ticks since it arrived.  mint: ticks since it signed a pair of tokens *)
Request == [pc : {"idle", "lock", "held", "sent", "done"},
            op : Ops \union {None}, id : Users \union {None},
            age : 0..Late, mint : 0..Late \union {None}]

Blank == [pc |-> "idle", op |-> None, id |-> None, age |-> 0, mint |-> None]

Init ==
  /\ status = [a \in Users |-> "open"]
  /\ address = [a \in Users |-> FALSE]
  /\ life = [a \in Users |-> [k \in Kinds |-> 0]]
  /\ closedFor = [a \in Users |-> 0]
  /\ askedFor = [a \in Users |-> Horizon("password_reset")]
  /\ req = [r \in Slots |-> Blank]

Live(a) == status[a] # "deleted"
Open(a) == status[a] = "open"

(* Mutant: decode_token forgets the type claim.                               *)
AcceptsAnyKind(a, expected) == \E k \in Kinds : life[a][k] > 0

(* A client has a token for a that decode_token accepts.                      *)
Accepts(a, expected) == life[a][expected] > 0

Begin(r, op, a, pc, mint) ==
  /\ req[r].pc = "idle"
  /\ req' = [req EXCEPT ![r] =
       [pc |-> pc, op |-> op, id |-> a, age |-> 0, mint |-> mint]]
  /\ UNCHANGED <<status, address, life, closedFor, askedFor>>

-----------------------------------------------------------------------------
(* Arrivals.  A login, with the right password or a Firebase token, reads the *)
(* account and signs its tokens only after it has touched last_login_at.      *)
Login(r, a) == Open(a) /\ Begin(r, "login", a, "lock", None)

(* Mutant: any account that still exists may refresh.                         *)
RefreshUnlessDeleted(r, a) ==
  Accepts(a, "refresh") /\ Live(a) /\ Begin(r, "refresh", a, "held", 0)

(* Reads the account and signs the pair without another await.                *)
Refresh(r, a) ==
  Accepts(a, "refresh") /\ Open(a) /\ Begin(r, "refresh", a, "held", 0)

(* The token is in the log before the answer leaves; in production nobody     *)
(* sends it.  A suspended account gets one too.                               *)
RequestReset(a) ==
  /\ Live(a) /\ Development
  /\ life' = [life EXCEPT ![a]["password_reset"] = TTL["password_reset"]]
  /\ askedFor' = [askedFor EXCEPT ![a] = 0]
  /\ UNCHANGED <<status, address, closedFor, req>>

ConfirmReset(r, a) ==
  /\ Accepts(a, "password_reset") /\ Live(a)
  /\ Begin(r, "reset_confirm", a, "lock", None)

ChangePassword(r, a) ==
  /\ Accepts(a, "access") /\ Live(a)
  /\ Begin(r, "change_password", a, "lock", None)

DeleteMe(r, a) ==
  Accepts(a, "access") /\ Live(a) /\ Begin(r, "delete_me", a, "lock", None)

(* The user id comes from the token alone.  The INSERT locks the users row    *)
(* it refers to, the DELETE does not.                                         *)
AddAddress(r, a) ==
  Accepts(a, "access") /\ Begin(r, "add_address", a, "lock", None)

DropAddress(r, a) ==
  Accepts(a, "access") /\ address[a] /\ Begin(r, "drop_address", a, "held", None)

(* The server keeps nothing: the client throws its tokens away.               *)
Logout(a) ==
  /\ life' = [life EXCEPT ![a]["access"] = 0, ![a]["refresh"] = 0]
  /\ UNCHANGED <<status, address, closedFor, askedFor, req>>

-----------------------------------------------------------------------------
(* The lock modes of the users row: the foreign key's FOR KEY SHARE conflicts *)
(* only with a deletion, which changes the email, a key.                      *)
Conflict(o, p) ==
  IF "add_address" \in {o, p} THEN "delete_me" \in {o, p} ELSE TRUE

Locking(q) ==
  q.pc \in {"held", "sent"} /\ q.op \notin {"refresh", "drop_address"}

Holders(r) ==
  {s \in Slots \ {r} : /\ Locking(req[s]) /\ req[s].id = req[r].id
                       /\ Conflict(req[s].op, req[r].op)}

(* The row is found by id again, deleted or not, and a login goes on to sign. *)
Lock(r) ==
  /\ req[r].pc = "lock" /\ Holders(r) = {}
  /\ req' = [req EXCEPT ![r].pc = "held",
               ![r].mint = IF req[r].op = "login" THEN 0 ELSE None]
  /\ UNCHANGED <<status, address, life, closedFor, askedFor>>

Commit(r) ==
  /\ req[r].pc = IF ReplyFirst THEN "sent" ELSE "held"
  /\ LET q == req[r]
     IN /\ status' = IF q.op = "delete_me"
                     THEN [status EXCEPT ![q.id] = "deleted"] ELSE status
        /\ address' = [a \in Users |->
             IF a # q.id THEN address[a]
             ELSE q.op = "add_address" \/ (address[a] /\ q.op # "drop_address")]
  /\ req' = [req EXCEPT ![r] =
               IF ReplyFirst THEN Blank ELSE [@ EXCEPT !.pc = "done"]]
  /\ UNCHANGED <<life, closedFor, askedFor>>

(* Mutant: a new token adds its time to what is left of the old one.          *)
FresherBySum(x, y) == x + y

Fresher(x, y) == IF x >= y THEN x ELSE y

(* An answer later than Patience finds nobody.                                *)
Send(r) ==
  /\ req[r].pc = IF ReplyFirst THEN "held" ELSE "done"
  /\ life' = IF req[r].mint = None \/ req[r].age > Patience THEN life
             ELSE [life EXCEPT ![req[r].id] = [k \in Kinds |->
                     IF k \in Pair /\ req[r].mint < TTL[k]
                     THEN Fresher(@[k], TTL[k] - req[r].mint) ELSE @[k]]]
  /\ req' = [req EXCEPT ![r] =
               IF ReplyFirst THEN [@ EXCEPT !.pc = "sent", !.mint = None]
                             ELSE Blank]
  /\ UNCHANGED <<status, address, closedFor, askedFor>>

(* The worker dies, or the statement fails: the transaction rolls back.       *)
Drop(r) ==
  /\ req[r].pc # "idle"
  /\ req' = [req EXCEPT ![r] = Blank]
  /\ UNCHANGED <<status, address, life, closedFor, askedFor>>

(* An operator's UPDATE of is_active.                                         *)
SetActive(a, s) ==
  /\ Live(a) /\ s \in {"open", "suspended"} \ {status[a]}
  /\ \A r \in Slots :
       ~(Locking(req[r]) /\ req[r].id = a /\ req[r].op # "add_address")
  /\ status' = [status EXCEPT ![a] = s]
  /\ closedFor' = [closedFor EXCEPT ![a] = 0]
  /\ UNCHANGED <<address, life, askedFor, req>>

Up(n, max) == IF n < max THEN n + 1 ELSE n
Down(n) == IF n > 0 THEN n - 1 ELSE 0

Tick ==
  /\ life' = [a \in Users |-> [k \in Kinds |-> Down(life[a][k])]]
  /\ closedFor' = [a \in Users |->
       IF Open(a) THEN 0 ELSE Up(closedFor[a], Horizon("access"))]
  /\ askedFor' = [a \in Users |->
       Up(askedFor[a], Horizon("password_reset"))]
  /\ req' = [r \in Slots |->
       [req[r] EXCEPT
         !.age = IF req[r].pc = "idle" THEN 0 ELSE Up(@, Late),
         !.mint = IF @ = None THEN None ELSE Up(@, Late)]]
  /\ UNCHANGED <<status, address>>

-----------------------------------------------------------------------------
Arrive(r, a) ==
  \/ Login(r, a)          \/ Refresh(r, a)    \/ ConfirmReset(r, a)
  \/ ChangePassword(r, a) \/ DeleteMe(r, a)   \/ AddAddress(r, a)
  \/ DropAddress(r, a)

Progress(r) == Lock(r) \/ Commit(r) \/ Send(r)

Next ==
  \/ \E r \in Slots : (\E a \in Users : Arrive(r, a)) \/ Progress(r) \/ Drop(r)
  \/ \E a \in Users : RequestReset(a) \/ Logout(a)
  \/ \E a \in Users, s \in Statuses : SetActive(a, s)
  \/ Tick

Spec == Init /\ [][Next]_vars

(* Time passes, and PostgreSQL serves lock waiters in their order.            *)
Fairness == WF_vars(Tick) /\ \A r \in Slots : SF_vars(Progress(r))
FairSpec == Spec /\ Fairness

-----------------------------------------------------------------------------
TypeOK ==
  /\ status \in [Users -> Statuses]
  /\ address \in [Users -> BOOLEAN]
  /\ life \in [Users -> [Kinds -> Nat]]
  /\ \A a \in Users, k \in Kinds : life[a][k] <= TTL[k]
  /\ closedFor \in [Users -> 0..Horizon("access")]
  /\ askedFor \in [Users -> 0..Horizon("password_reset")]
  /\ req \in [Slots -> Request]

(* A closed account's access tokens run out: whatever logins and refreshes    *)
(* were under way when it was closed, none is valid TTL + Patience later      *)
(* (service.py:203-206 is the only place that looks).                         *)
AccessLapses ==
  \A a \in Users :
    closedFor[a] > 0 /\ life[a]["access"] > 0 =>
      life[a]["access"] + closedFor[a] <= TTL["access"] + Patience

(* No endpoint serves a token of another kind or past its time: a request     *)
(* with a bearer token arrived within TTL + Patience of the account's last    *)
(* open moment, a reset confirmation within the TTL of the last request for   *)
(* one (decode_token), however often a reset token is used.                   *)
ActsWithinLifetime ==
  \A r \in Slots :
    req[r].pc # "idle" /\ req[r].age <= Patience =>
      /\ req[r].op \in BearerOps =>
           closedFor[req[r].id] <= TTL["access"] + Patience + req[r].age
      /\ req[r].op = "reset_confirm" =>
           askedFor[req[r].id] <= TTL["password_reset"] + req[r].age

(* The longest time a token of kind k that a client holds, or that is still   *)
(* to be signed or delivered, can be valid for a.                             *)
Pending(r, k) ==
  LET q == req[r]
  IN IF q.age > Patience THEN 0
     ELSE IF q.op = "login" /\ q.pc = "lock" THEN TTL[k]
     ELSE IF q.mint # None /\ q.mint < TTL[k] THEN TTL[k] - q.mint ELSE 0

Prospects(a, k) ==
  {life[a][k]} \union {Pending(r, k) : r \in {s \in Slots : req[s].id = a}}

(* Closing an account is the end of its sessions: while it stays closed no    *)
(* step lengthens the time anybody can still act for it.                      *)
NoRenewalOnceClosed ==
  [][\A a \in Users, k \in Pair :
       ~Open(a) /\ ~Open(a)' =>
         \A x \in Prospects(a, k)' : \E y \in Prospects(a, k) : x <= y]_vars

(* An account that stays closed is in the end left alone: no session token    *)
(* and no request with one, so its addresses stay as they are.                *)
ClosedAccountGoesQuiet ==
  \A a \in Users :
    <>[](~Open(a)) =>
      <>[](/\ \A k \in Pair : life[a][k] = 0
           /\ \A r \in Slots : req[r].id = a => req[r].op = "reset_confirm")
=============================================================================
