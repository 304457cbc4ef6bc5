------------------------------ MODULE Accounts ------------------------------
(* The users table and the account endpoints that read and write it, as       *)
(* concurrent requests against one PostgreSQL database at READ COMMITTED:     *)
(* app/modules/auth/service.py behind the routes of app/api/consumer, with    *)
(* the session of app/core/db.py.                                             *)
(*                                                                            *)
(* A request is a slot r with its own transaction.  Its state is the place    *)
(* the handler has reached, pc, and what its session holds:                   *)
(*   idle    no request is being served in this slot                          *)
(*   find    about to run the handler's second SELECT, by email               *)
(*   insert  about to flush an INSERT          write  about to run an UPDATE  *)
(*   index   row locked, its new keys not yet in the unique indexes           *)
(*   answer  the handler has returned or is about to                          *)
(*   commit  the response has left before the commit (ReplyFirst only)        *)
(*   reply   the transaction is over, the response has not left yet           *)
(* A SELECT that opens a handler is part of the arrival: nothing else of the  *)
(* request has happened before it.                                            *)
EXTENDS Naturals, FiniteSets

CONSTANTS
  Requests,    \* request slots: bounds how many requests run at once
  UserIds,     \* primary keys uuid4() can draw: bounds the accounts ever made
  Emails,      \* normalised addresses a client or a Firebase token can name
  Uids,        \* Firebase user ids
  Passwords,   \* plaintext passwords
  Names,       \* display names
  Digests,     \* what bcrypt keeps of a password
  Digest,      \* Passwords -> Digests: bcrypt sees only 72 bytes
  LowerUid,    \* Uids -> the same id lower-cased, as in a placeholder address
  Ops,         \* the endpoints clients call in this instance
  ReplyFirst,  \* TRUE: get_db commits after the response is sent (FastAPI
               \* 0.118 on); FALSE: before (0.106 to 0.117)
  None,        \* NULL
  Unset        \* a field the PATCH body does not mention

AnonEmail(i) == <<"deleted", i>>
PhoneEmail(u) == <<"phone", LowerUid[u]>>
AnonEmails == {AnonEmail(i) : i \in UserIds}
PhoneEmails == {PhoneEmail(u) : u \in Uids}
AllEmails == Emails \union AnonEmails \union PhoneEmails

(* EmailStr refuses the special-use domains .local and .invalid, so no client *)
(* can name the address of a deleted account or of a phone-only one.          *)
ASSUME EmailsAssumption == Emails \intersect (AnonEmails \union PhoneEmails) = {}
ASSUME NullAssumption ==
  None \notin AllEmails \union UserIds \union Uids \union Names \union Digests
ASSUME UnsetAssumption == Unset \notin Emails \union Names \union {None}
ASSUME DigestAssumption == Digest \in [Passwords -> Digests]
ASSUME ReplyAssumption == ReplyFirst \in BOOLEAN

(* A request needs a connection of the pool, which has a largest size.        *)
ASSUME RequestsAssumption == IsFiniteSet(Requests)

Columns == {"email", "password", "uid", "name", "active", "verified", "deleted"}
Keys == {"email", "uid"}
OptNames == Names \union {None}

User == [email : AllEmails, password : Digests \union {None},
         uid : Uids \union {None}, name : OptNames,
         active : BOOLEAN, verified : BOOLEAN, deleted : BOOLEAN]

ASSUME RowAssumption == None \notin User

NewUser(e, d, u, n, v) ==
  [email |-> e, password |-> d, uid |-> u, name |-> n,
   active |-> TRUE, verified |-> v, deleted |-> FALSE]

Endpoints == {"register", "login", "firebase", "refresh", "get_me", "update_me",
              "reset_request", "reset_confirm", "change_password", "delete_me"}
TokenOps == {"register", "login", "firebase"}
Codes == {0, 200, 201, 204, 400, 401, 404, 409, 500}

VARIABLES
  users,    \* the committed table: id -> row, None where no row was committed
  req,      \* slot -> request
  tokens,   \* ids some client holds an access and a refresh token for
  resets    \* ids a password-reset token was issued for

vars == <<users, req, tokens, resets>>

Blank == [pc |-> "idle", op |-> None, id |-> None, row |-> None, dirty |-> {},
          locked |-> FALSE, held |-> {}, code |-> 0]

Init ==
  /\ users = [i \in UserIds |-> None]
  /\ req = [r \in Requests |-> Blank]
  /\ tokens = {}
  /\ resets = {}

-----------------------------------------------------------------------------
(* What a SELECT sees: committed rows whose deleted_at is NULL.               *)
(* Mutant: the condition on deleted_at is left out.                           *)
LiveOrClosed(i) == users[i] # None

Live(i) == users[i] # None /\ ~users[i].deleted
LiveWith(c, v) == {i \in UserIds : Live(i) /\ users[i][c] = v}

FreshIds == {i \in UserIds : /\ users[i] = None
                             /\ i \notin tokens
                             /\ \A r \in Requests : req[r].id # i}

(* The columns a flush of the session writes: those whose value differs from  *)
(* the row as it was loaded.                                                  *)
Changed(old, new) == {c \in Columns : old[c] # new[c]}

Arrives(r, op) == op \in Ops /\ req[r].pc = "idle"

Proceed(r, op, pc, i, row, dirty) ==
  req' = [req EXCEPT ![r] = [pc |-> pc, op |-> op, id |-> i, row |-> row,
            dirty |-> dirty, locked |-> FALSE, held |-> {}, code |-> 0]]

(* A reply that needs nothing more from the transaction.                      *)
Respond(r, op, i, code) ==
  req' = [req EXCEPT ![r] =
            [Blank EXCEPT !.pc = "reply", !.op = op, !.id = i, !.code = code]]

(* The session rolls back.  The client reads the error, unless its success    *)
(* has already been sent.                                                     *)
Fail(r, code) ==
  IF req[r].pc = "commit" THEN req' = [req EXCEPT ![r] = Blank]
                          ELSE Respond(r, req[r].op, None, code)

-----------------------------------------------------------------------------
(* Arrivals: the handler up to its first await that waits.                    *)
Register(r) ==
  /\ Arrives(r, "register")
  /\ \E e \in Emails, p \in Passwords, n \in OptNames :
       \/ /\ LiveWith("email", e) # {}
          /\ Respond(r, "register", None, 409)
       \/ /\ LiveWith("email", e) = {}
          /\ \E i \in FreshIds :
               Proceed(r, "register", "insert", i,
                       NewUser(e, Digest[p], None, n, FALSE), Columns)
  /\ UNCHANGED <<users, tokens, resets>>

Login(r) ==
  /\ Arrives(r, "login")
  /\ \E e \in Emails, p \in Passwords :
       LET known == {i \in LiveWith("email", e) :
                       users[i].password = Digest[p] /\ users[i].active}
       IN \/ known = {} /\ Respond(r, "login", None, 401)
          \/ \E i \in known : Proceed(r, "login", "write", i, users[i], {})
  /\ UNCHANGED <<users, tokens, resets>>

(* e = None: a phone login, whose token carries no email claim.               *)
LoginWithFirebase(r) ==
  /\ Arrives(r, "firebase")
  /\ \E u \in Uids, e \in Emails \union {None}, n \in OptNames, v \in BOOLEAN :
       \/ \E i \in LiveWith("uid", u) :
            IF users[i].active
            THEN Proceed(r, "firebase", "write", i, users[i], {})
            ELSE Respond(r, "firebase", None, 401)
       \/ /\ LiveWith("uid", u) = {}
          /\ \E i \in FreshIds :
               IF e = None
               THEN Proceed(r, "firebase", "insert", i,
                            NewUser(PhoneEmail(u), None, u, n, v), Columns)
               ELSE Proceed(r, "firebase", "find", i,
                            NewUser(e, None, u, n, v), Columns)
  /\ UNCHANGED <<users, tokens, resets>>

Refresh(r) ==
  /\ Arrives(r, "refresh")
  /\ \E i \in tokens :
       IF Live(i) /\ users[i].active THEN Respond(r, "refresh", i, 200)
                                     ELSE Respond(r, "refresh", None, 401)
  /\ UNCHANGED <<users, tokens, resets>>

(* UserPublic.email is an EmailStr: a placeholder address fails validation    *)
(* on the way out.                                                            *)
Serializable(e) == e \in Emails

GetMe(r) ==
  /\ Arrives(r, "get_me")
  /\ \E i \in tokens :
       \/ ~Live(i) /\ Respond(r, "get_me", None, 404)
       \/ /\ Live(i)
          /\ IF Serializable(users[i].email) THEN Respond(r, "get_me", i, 200)
                                             ELSE Respond(r, "get_me", None, 500)
  /\ UNCHANGED <<users, tokens, resets>>

(* Mutant: the verified flag outlives the address it was given for.           *)
PatchedKeepingFlag(row, e, n) ==
  [row EXCEPT !.email = IF e = Unset THEN @ ELSE e,
              !.name = IF n = Unset THEN @ ELSE n]

Patched(row, e, n) ==
  LET mail == IF e = Unset THEN row.email ELSE e
  IN [row EXCEPT !.email = mail,
                 !.name = IF n = Unset THEN @ ELSE n,
                 !.verified = @ /\ mail = row.email]

(* An email sent as null passes the schema and fails the column's NOT NULL.   *)
UpdateMe(r) ==
  /\ Arrives(r, "update_me")
  /\ \E i \in tokens :
       \/ ~Live(i) /\ Respond(r, "update_me", None, 404)
       \/ /\ Live(i)
          /\ Respond(r, "update_me", None, 500)
       \/ /\ Live(i)
          /\ \E e \in Emails \union {Unset}, n \in OptNames \union {Unset} :
               LET row == Patched(users[i], e, n)
                   dirty == Changed(users[i], row)
               IN Proceed(r, "update_me",
                          CASE "email" \in dirty -> "find"
                            [] dirty = {} -> "answer"
                            [] OTHER -> "write",
                          i, row, dirty)
  /\ UNCHANGED <<users, tokens, resets>>

RequestReset(r) ==
  /\ Arrives(r, "reset_request")
  /\ \E e \in Emails :
       IF LiveWith("email", e) = {}
       THEN Respond(r, "reset_request", None, 200)
       ELSE \E i \in LiveWith("email", e) : Respond(r, "reset_request", i, 200)
  /\ UNCHANGED <<users, tokens, resets>>

ConfirmReset(r) ==
  /\ Arrives(r, "reset_confirm")
  /\ \E i \in resets, p \in Passwords :
       IF Live(i)
       THEN Proceed(r, "reset_confirm", "write", i,
                    [users[i] EXCEPT !.password = Digest[p]], {"password"})
       ELSE Respond(r, "reset_confirm", None, 401)
  /\ UNCHANGED <<users, tokens, resets>>

ChangePassword(r) ==
  /\ Arrives(r, "change_password")
  /\ \E i \in tokens, old \in Passwords, new \in Passwords :
       \/ ~Live(i) /\ Respond(r, "change_password", None, 404)
       \/ /\ Live(i) /\ users[i].password = None
          /\ Respond(r, "change_password", None, 400)
       \/ /\ Live(i) /\ users[i].password \notin {None, Digest[old]}
          /\ Respond(r, "change_password", None, 401)
       \/ /\ Live(i) /\ users[i].password = Digest[old]
          /\ IF old = new
             THEN Respond(r, "change_password", None, 400)
             ELSE Proceed(r, "change_password", "write", i,
                          [users[i] EXCEPT !.password = Digest[new]], {"password"})
  /\ UNCHANGED <<users, tokens, resets>>

(* Mutant: the address of a deleted account is set to NULL.                   *)
AnonymisedToNull(i) ==
  [users[i] EXCEPT !.email = None, !.password = None, !.uid = None,
                   !.name = None, !.active = FALSE, !.deleted = TRUE]

Anonymised(i) ==
  [users[i] EXCEPT !.email = AnonEmail(i), !.password = None, !.uid = None,
                   !.name = None, !.active = FALSE, !.deleted = TRUE]

DeleteMe(r) ==
  /\ Arrives(r, "delete_me")
  /\ \E i \in tokens :
       IF Live(i)
       THEN Proceed(r, "delete_me", "write", i, Anonymised(i),
                    Changed(users[i], Anonymised(i)))
       ELSE Respond(r, "delete_me", None, 404)
  /\ UNCHANGED <<users, tokens, resets>>

-----------------------------------------------------------------------------
(* The second SELECT of a handler, by email.                                  *)
FindForUpdate(r) ==
  /\ req[r].pc = "find" /\ req[r].op = "update_me"
  /\ IF LiveWith("email", req[r].row.email) \ {req[r].id} = {}
     THEN req' = [req EXCEPT ![r].pc = "write"]
     ELSE Fail(r, 409)
  /\ UNCHANGED <<users, tokens, resets>>

(* An account with the token's email is linked to the uid: the assignment     *)
(* waits in the session for the commit, the touch of last_login_at comes      *)
(* first and locks the row.                                                   *)
FindForFirebase(r) ==
  /\ req[r].pc = "find" /\ req[r].op = "firebase"
  /\ \/ /\ LiveWith("email", req[r].row.email) = {}
        /\ req' = [req EXCEPT ![r].pc = "insert"]
     \/ \E i \in LiveWith("email", req[r].row.email) :
          LET linked == [users[i] EXCEPT !.uid = req[r].row.uid]
          IN IF users[i].active
             THEN Proceed(r, "firebase", "write", i, linked,
                          Changed(users[i], linked))
             ELSE Fail(r, 401)
  /\ UNCHANGED <<users, tokens, resets>>

-----------------------------------------------------------------------------
(* PostgreSQL: row locks and unique indexes.  An UPDATE locks its row; a new  *)
(* key waits for a transaction that has the same key pending or has updated   *)
(* the row that holds it, and then fails if a committed row, deleted or not,  *)
(* still has it.                                                              *)
Lockers(r) ==
  {o \in Requests \ {r} : req[o].locked /\ req[o].id = req[r].id}

Blockers(r, c) ==
  {o \in Requests \ {r} :
     \/ c \in req[o].held /\ req[o].row[c] = req[r].row[c]
     \/ /\ req[o].locked /\ req[o].id # req[r].id
        /\ users[req[o].id] # None
        /\ users[req[o].id][c] = req[r].row[c]}

Taken(r, c) ==
  \E i \in UserIds \ {req[r].id} :
    users[i] # None /\ users[i][c] = req[r].row[c]

Free(r, c) == Blockers(r, c) = {} /\ ~Taken(r, c)

(* The keys a flush has yet to put into their indexes, the email before the   *)
(* uid.  The entries already made are kept while it waits for the next, if    *)
(* there is one.                                                              *)
Unreserved(r) ==
  {c \in Keys \intersect req[r].dirty : req[r].row[c] # None} \ req[r].held
NextKey(r) == IF "email" \in Unreserved(r) THEN {"email"} ELSE Unreserved(r)

(* Mutant: no unique constraint, the handlers' own SELECTs must do.           *)
ClaimableWithoutIndex(r) == req[r].pc # "idle"

Claimable(r) == \A c \in NextKey(r) : Free(r, c)

Collides(r) == \E c \in NextKey(r) : Blockers(r, c) = {} /\ Taken(r, c)

Lock(r) ==
  /\ req[r].pc = "write" /\ Lockers(r) = {}
  /\ req' = [req EXCEPT ![r].locked = TRUE,
               ![r].pc = IF "email" \in req[r].dirty THEN "index" ELSE "answer"]
  /\ UNCHANGED <<users, tokens, resets>>

Reserve(r) ==
  /\ req[r].pc \in {"insert", "index"} /\ Claimable(r)
  /\ req' = [req EXCEPT ![r].pc = IF Unreserved(r) = NextKey(r) THEN "answer" ELSE @,
                        ![r].locked = TRUE, ![r].held = @ \union NextKey(r)]
  /\ UNCHANGED <<users, tokens, resets>>

(* Where get_db's commit stands: after the answer, or before it.              *)
CommitPc == IF ReplyFirst THEN "commit" ELSE "answer"

(* Mutant: the handler catches the error and tries the same write again.      *)
IntegrityErrorRetried(r) ==
  /\ req[r].pc \in {"insert", "index", CommitPc} /\ Collides(r)
  /\ UNCHANGED vars

(* No code catches IntegrityError: the client reads a 500.                    *)
IntegrityError(r) ==
  /\ req[r].pc \in {"insert", "index", CommitPc} /\ Collides(r)
  /\ Fail(r, 500)
  /\ UNCHANGED <<users, tokens, resets>>

(* Mutant: waits for an index entry are left out of deadlock detection.       *)
WaitsForRow(r) == IF req[r].pc = "write" THEN Lockers(r) ELSE {}

WaitsFor(r) ==
  CASE req[r].pc = "write" -> Lockers(r)
    [] req[r].pc \in {"insert", "index", CommitPc} ->
         UNION {Blockers(r, c) : c \in NextKey(r)}
    [] OTHER -> {}

AllWait(S) == S # {} /\ \A o \in S : WaitsFor(o) \intersect S # {}

(* A smallest set whose members all wait for one another is a cycle.          *)
InCycle(r) ==
  \E S \in SUBSET Requests :
    r \in S /\ AllWait(S) /\ \A T \in SUBSET S : AllWait(T) => T = S

(* PostgreSQL cancels one of the transactions of a cycle.                     *)
DeadlockVictim(r) ==
  /\ InCycle(r)
  /\ Fail(r, 500)
  /\ UNCHANGED <<users, tokens, resets>>

-----------------------------------------------------------------------------
(* The end of a request.                                                      *)
SuccessCode(op) ==
  CASE op = "register" -> 201
    [] op \in {"reset_confirm", "change_password", "delete_me"} -> 204
    [] OTHER -> 200

Unserializable(r) == req[r].op = "update_me" /\ ~Serializable(req[r].row.email)

ValidationError(r) ==
  /\ req[r].pc = "answer" /\ Unserializable(r)
  /\ Fail(r, 500)
  /\ UNCHANGED <<users, tokens, resets>>

IssuedTo(r) == IF req[r].op \in TokenOps /\ req[r].id # None THEN {req[r].id} ELSE {}

(* Mutant: a flush writes the whole row as it was loaded.                     *)
MergedWhole(old, new, dirty) == IF dirty = {} THEN old ELSE new

Merged(old, new, dirty) ==
  IF old = None THEN new
  ELSE [email    |-> IF "email" \in dirty THEN new.email ELSE old.email,
        password |-> IF "password" \in dirty THEN new.password ELSE old.password,
        uid      |-> IF "uid" \in dirty THEN new.uid ELSE old.uid,
        name     |-> IF "name" \in dirty THEN new.name ELSE old.name,
        active   |-> IF "active" \in dirty THEN new.active ELSE old.active,
        verified |-> IF "verified" \in dirty THEN new.verified ELSE old.verified,
        deleted  |-> IF "deleted" \in dirty THEN new.deleted ELSE old.deleted]

(* session.commit() flushes what is still in the session, a firebase link.    *)
Commit(r) ==
  /\ req[r].pc = CommitPc /\ ~Unserializable(r) /\ Claimable(r)
  /\ users' = [users EXCEPT ![req[r].id] = Merged(@, req[r].row, req[r].dirty)]
  /\ IF ReplyFirst
     THEN req' = [req EXCEPT ![r] = Blank]
     ELSE Respond(r, req[r].op, req[r].id, SuccessCode(req[r].op))
  /\ UNCHANGED <<tokens, resets>>

(* Mutant: the response leaves from inside the handler.                       *)
SendInHandler(r) ==
  /\ req[r].pc = "answer" /\ ~Unserializable(r)
  /\ req' = [req EXCEPT ![r].pc = "commit"]
  /\ tokens' = tokens \union IssuedTo(r)
  /\ UNCHANGED <<users, resets>>

SendThenCommit(r) ==
  /\ ReplyFirst
  /\ req[r].pc = "answer" /\ ~Unserializable(r)
  /\ req' = [req EXCEPT ![r].pc = "commit"]
  /\ tokens' = tokens \union IssuedTo(r)
  /\ UNCHANGED <<users, resets>>

Send(r) ==
  /\ req[r].pc = "reply"
  /\ req' = [req EXCEPT ![r] = Blank]
  /\ tokens' = tokens \union IssuedTo(r)
  /\ resets' = resets \union
       (IF req[r].op = "reset_request" /\ req[r].id # None THEN {req[r].id} ELSE {})
  /\ UNCHANGED users

(* The worker dies: what was not committed is gone, nothing is answered.      *)
Drop(r) ==
  /\ req[r].pc # "idle"
  /\ req' = [req EXCEPT ![r] = Blank]
  /\ UNCHANGED <<users, tokens, resets>>

(* No endpoint clears is_active on a live account; an operator does, in SQL.  *)
Suspend(i) ==
  /\ "suspend" \in Ops
  /\ Live(i) /\ users[i].active
  /\ \A r \in Requests : ~(req[r].locked /\ req[r].id = i)
  /\ users' = [users EXCEPT ![i].active = FALSE]
  /\ UNCHANGED <<req, tokens, resets>>

-----------------------------------------------------------------------------
Arrive(r) ==
  \/ Register(r) \/ Login(r) \/ LoginWithFirebase(r) \/ Refresh(r)
  \/ GetMe(r) \/ UpdateMe(r) \/ RequestReset(r) \/ ConfirmReset(r)
  \/ ChangePassword(r) \/ DeleteMe(r)

Progress(r) ==
  \/ FindForUpdate(r) \/ FindForFirebase(r)
  \/ Lock(r) \/ Reserve(r) \/ IntegrityError(r) \/ DeadlockVictim(r)
  \/ ValidationError(r) \/ Commit(r) \/ SendThenCommit(r) \/ Send(r)

Next ==
  \/ \E r \in Requests : Arrive(r) \/ Progress(r) \/ Drop(r)
  \/ \E i \in UserIds : Suspend(i)

Spec == Init /\ [][Next]_vars

(* A handler keeps running until it has answered; lock queues are first come, *)
(* first served, so a waiter that could proceed again and again does.         *)
FairSpec == Spec /\ \A r \in Requests : SF_vars(Progress(r))
-----------------------------------------------------------------------------
Request ==
  [pc : {"idle", "find", "insert", "write", "index", "answer", "commit", "reply"},
   op : Endpoints \union {None}, id : UserIds \union {None},
   row : User \union {None}, dirty : SUBSET Columns, locked : BOOLEAN,
   held : SUBSET Keys, code : Codes]

(* Committed rows are complete: NOT NULL columns, and what each handler puts  *)
(* into a request's session, hold values the schema admits.                   *)
TypeOK ==
  /\ users \in [UserIds -> User \union {None}]
  /\ req \in [Requests -> Request]
  /\ tokens \subseteq UserIds
  /\ resets \subseteq UserIds

(* No two committed accounts share an email or a Firebase uid, whatever       *)
(* interleaving of the check-then-write handlers register_user, update_me and *)
(* login_with_firebase led there.                                             *)
UniqueKeys ==
  \A i, j \in UserIds : \A c \in Keys :
    (i # j /\ users[i] # None /\ users[j] # None /\ users[i][c] # None)
      => users[i][c] # users[j][c]

(* A client that was given a token for an account finds the account in the    *)
(* table: no register or Firebase login answers before its row is durable.    *)
(* Only what get_db promises, commit before reply, makes it true.             *)
TokenHasAccount ==
  ~ReplyFirst => \A i \in tokens : users[i] # None

(* An account that changes its address while it lives is not verified         *)
(* afterwards, also when two PATCH requests overlap.                          *)
NewEmailUnverified ==
  [][\A i \in UserIds :
       (Live(i) /\ Live(i)' /\ users'[i].email # users[i].email)
         => ~users'[i].verified]_vars

(* Deletion is final: no request, also none that loaded the row before it was *)
(* deleted, brings an account back to life.                                   *)
DeletedForever ==
  [][\A i \in UserIds :
       users[i] # None /\ users[i].deleted =>
         users'[i] # None /\ users'[i].deleted /\ ~users'[i].active]_vars

(* A deleted row is settled once the requests that overlapped the deletion    *)
(* have ended: no other request finds the account (every SELECT of service.py *)
(* asks for deleted_at IS NULL), and not a column of it is written again.     *)
Settled(i) ==
  /\ users[i] # None /\ users[i].deleted
  /\ \A r \in Requests : req[r].id = i => req[r].pc = "reply"

ErasureSettles ==
  [][\A i \in UserIds : Settled(i) => Settled(i)' /\ users'[i] = users[i]]_vars

(* A suspended account stays suspended until it is deleted: an overlapping    *)
(* request that loaded the row while it was active does not write that back.  *)
SuspensionSticks ==
  [][\A i \in UserIds :
       users[i] # None /\ ~users[i].active => ~users'[i].active]_vars

(* A commit changes no column its handler does not assign, however old the    *)
(* row it loaded is: a profile edit cannot restore a replaced password, a     *)
(* password change cannot restore a replaced address.                         *)
Assigned(op) ==
  CASE op = "update_me" -> {"email", "name", "verified"}
    [] op \in {"reset_confirm", "change_password"} -> {"password"}
    [] op = "firebase" -> {"uid"}
    [] op = "delete_me" -> Columns \ {"verified"}
    [] OTHER -> {}

NoStaleOverwrite ==
  [][\A r \in Requests :
       LET i == req[r].id
       IN (req[r].pc = CommitPc /\ req'[r].pc # CommitPc /\ users[i] # None)
            => \A c \in Columns \ Assigned(req[r].op) : users'[i][c] = users[i][c]]_vars

(* The identity the table implements: the keys of every live account.         *)
KeysOf(i) ==
  IF Live(i) THEN {<<c, users[i][c]>> : c \in {k \in Keys : users[i][k] # None}}
             ELSE {}

Directory == INSTANCE AccountDirectory WITH
  Ids <- UserIds,
  AllKeys <- ({"email"} \X AllEmails) \union ({"uid"} \X Uids),
  keys <- [i \in UserIds |-> KeysOf(i)],
  closed <- {i \in UserIds : users[i] # None /\ users[i].deleted}

(* Registration, linking, address changes and deletion, interleaved in any    *)
(* way, look to an observer of the committed table like one atomic change of  *)
(* a directory with exclusive keys at a time.                                 *)
ImplementsDirectory == Directory!Spec

(* What a request has put in the unique indexes is its own until it ends: no  *)
(* committed row of another account and no other request has the key.         *)
ReservedKeysExclusive ==
  \A r \in Requests : \A c \in req[r].held :
    req[r].row[c] # None =>
      /\ \A i \in UserIds \ {req[r].id} :
           users[i] # None => users[i][c] # req[r].row[c]
      /\ \A o \in Requests \ {r} :
           c \in req[o].held => req[o].row[c] # req[r].row[c]

(* The guards of Progress(r).                                                 *)
CanProceed(r) ==
  \/ req[r].pc = "find" /\ req[r].op \in {"update_me", "firebase"}
  \/ req[r].pc = "write" /\ Lockers(r) = {}
  \/ req[r].pc \in {"insert", "index"} /\ Claimable(r)
  \/ req[r].pc \in {"insert", "index", CommitPc} /\ Collides(r)
  \/ InCycle(r)
  \/ req[r].pc = "answer" /\ (Unserializable(r) \/ ReplyFirst)
  \/ req[r].pc = CommitPc /\ ~Unserializable(r) /\ Claimable(r)
  \/ req[r].pc = "reply"

(* Requests that wait for one another's row locks and index entries are never *)
(* all stuck: one that holds a lock or an entry is running, one that waits    *)
(* for nobody can go on, and if all wait there is a cycle for PostgreSQL to   *)
(* break.                                                                     *)
NeverStuck ==
  (\E r \in Requests : req[r].pc # "idle") => \E r \in Requests : CanProceed(r)

(* Every request that arrives is answered or dropped, however often others    *)
(* get the lock or the key it waits for first.                                *)
EveryRequestEnds ==
  \A r \in Requests : req[r].pc # "idle" ~> req[r].pc = "idle"

-----------------------------------------------------------------------------
(* Claims of the repository that its code does not keep.                      *)

(* progress/current-state.md:153 says DELETE /me anonymises the PII of the    *)
(* account.  Of the columns soft_delete_account clears (service.py:284-290),  *)
(* which leave out gender, birth date and city, a request that overlaps the   *)
(* deletion writes one again.                                                 *)
ClearedForGood ==
  \A i \in UserIds :
    (users[i] # None /\ users[i].deleted)
      => /\ users[i].email = AnonEmail(i)
         /\ users[i].password = None /\ users[i].uid = None /\ users[i].name = None

(* progress/current-state.md:137 says register answers 409 on a duplicate.    *)
(* Of two that pass the SELECT together, the second answers 500.              *)
DuplicateAnswers409 ==
  \A r \in Requests :
    req[r].pc = "reply" /\ req[r].op = "register" => req[r].code \in {201, 409}
=============================================================================
