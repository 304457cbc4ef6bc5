--------------------------- MODULE AccountsProofs ---------------------------
(* Theorems about Accounts for every number of requests, accounts, addresses  *)
(* and uids, both orders of commit and reply, and any set of endpoints.       *)
EXTENDS Accounts, TLAPS

(* A request whose handler is running has a row and an id.                    *)
RowsHeld ==
  \A r \in Requests : req[r].pc \notin {"idle", "reply"} =>
                         req[r].row \in User /\ req[r].id \in UserIds

TypeInv == TypeOK /\ RowsHeld

-----------------------------------------------------------------------------
(* What the building blocks of the actions do to the types.                   *)
LEMMA NullFacts ==
  /\ None \notin AllEmails /\ None \notin UserIds /\ None \notin Uids
  /\ None \notin Names /\ None \notin Digests
BY NullAssumption

(* Every email a row can hold is in AllEmails.                                *)
LEMMA EmailFacts ==
  /\ Emails \subseteq AllEmails
  /\ \A i \in UserIds : AnonEmail(i) \in AllEmails
  /\ \A u \in Uids : PhoneEmail(u) \in AllEmails
BY DEF AllEmails, AnonEmails, PhoneEmails

(* The free slot.                                                             *)
LEMMA BlankType == Blank \in Request
BY DEF Blank, Request, Columns, Keys, Codes

(* A new User() is a row.                                                     *)
LEMMA NewUserType ==
  ASSUME NEW e \in AllEmails, NEW d \in Digests \union {None},
         NEW u \in Uids \union {None}, NEW n \in OptNames, NEW v \in BOOLEAN
  PROVE  NewUser(e, d, u, n, v) \in User
BY DEF NewUser, User

(* An account that is there has a row.                                        *)
LEMMA LiveType ==
  ASSUME TypeOK, NEW i \in UserIds, Live(i)
  PROVE  users[i] \in User
BY DEF TypeOK, Live

(* A handler that has read its rows and goes on.                              *)
LEMMA ProceedType ==
  ASSUME TypeInv, NEW r \in Requests, NEW op \in Endpoints,
         NEW pc \in {"find", "insert", "write", "answer"},
         NEW i \in UserIds, NEW row \in User, NEW dirty \in SUBSET Columns,
         Proceed(r, op, pc, i, row, dirty), UNCHANGED <<users, tokens, resets>>
  PROVE  TypeInv'
<1> DEFINE new == [pc |-> pc, op |-> op, id |-> i, row |-> row, dirty |-> dirty,
                   locked |-> FALSE, held |-> {}, code |-> 0]
<1>1. new \in Request
  BY DEF Request, Codes, Keys
<1>2. req' = [req EXCEPT ![r] = new]
  BY DEF Proceed
<1>3. new.row = row /\ new.id = i
  OBVIOUS
<1> HIDE DEF new
<1> QED
  BY <1>1, <1>2, <1>3 DEF TypeInv, TypeOK, RowsHeld

(* A handler that ends with an answer.                                        *)
LEMMA RespondType ==
  ASSUME TypeInv, NEW r \in Requests, NEW op \in Endpoints \union {None},
         NEW i \in UserIds \union {None}, NEW code \in Codes,
         Respond(r, op, i, code), users' \in [UserIds -> User \union {None}],
         UNCHANGED <<tokens, resets>>
  PROVE  TypeInv'
<1> DEFINE new == [Blank EXCEPT !.pc = "reply", !.op = op, !.id = i, !.code = code]
<1>1. new \in Request /\ new.pc = "reply"
  BY BlankType DEF Request
<1>2. req' = [req EXCEPT ![r] = new]
  BY DEF Respond
<1> HIDE DEF new
<1> QED
  BY <1>1, <1>2 DEF TypeInv, TypeOK, RowsHeld

(* A slot that becomes free.                                                  *)
LEMMA ClearType ==
  ASSUME TypeInv, NEW r \in Requests, req' = [req EXCEPT ![r] = Blank],
         users' \in [UserIds -> User \union {None}],
         tokens' \subseteq UserIds, resets' \subseteq UserIds
  PROVE  TypeInv'
<1>1. Blank \in Request /\ Blank.pc = "idle"
  BY BlankType DEF Blank
<1> QED
  BY <1>1 DEF TypeInv, TypeOK, RowsHeld

(* A handler that raises, before its answer or after it.                      *)
LEMMA FailType ==
  ASSUME TypeInv, NEW r \in Requests, NEW code \in Codes,
         Fail(r, code), UNCHANGED <<users, tokens, resets>>
  PROVE  TypeInv'
<1>1. CASE req[r].pc = "commit"
  BY <1>1, ClearType DEF Fail, TypeInv, TypeOK
<1>2. CASE req[r].pc # "commit"
  <2>1. req[r].op \in Endpoints \union {None}
    BY DEF TypeInv, TypeOK, Request
  <2> QED
    BY <1>2, <2>1, RespondType DEF Fail, TypeInv, TypeOK
<1> QED
  BY <1>1, <1>2

-----------------------------------------------------------------------------
(* An arrival answers, or goes on with an account that it found or that is    *)
(* fresh.                                                                     *)
LEMMA ArriveShape ==
  ASSUME NEW r \in Requests, Arrive(r)
  PROVE  \/ \E op, i, code : Respond(r, op, i, code)
         \/ \E op, pc, i, row, dirty :
              /\ pc \notin {"idle", "commit"}
              /\ pc = "find" => op \in {"update_me", "firebase"}
              /\ Live(i) \/ i \in FreshIds
              /\ Proceed(r, op, pc, i, row, dirty)
<1>1. CASE Register(r)
  BY <1>1 DEF Register
<1>2. CASE Login(r)
  BY <1>2 DEF Login, LiveWith
<1>3. CASE LoginWithFirebase(r)
  BY <1>3 DEF LoginWithFirebase, LiveWith
<1>4. CASE Refresh(r) \/ GetMe(r) \/ RequestReset(r)
  BY <1>4 DEF Refresh, GetMe, RequestReset
<1>5. CASE UpdateMe(r)
  BY <1>5 DEF UpdateMe
<1>6. CASE ConfirmReset(r)
  <2>1. PICK i \in resets, p \in Passwords :
          \/ Live(i) /\ Proceed(r, "reset_confirm", "write", i,
                          [users[i] EXCEPT !.password = Digest[p]], {"password"})
          \/ Respond(r, "reset_confirm", None, 401)
    BY <1>6 DEF ConfirmReset
  <2> QED
    BY <2>1
<1>7. CASE ChangePassword(r)
  <2>1. PICK i \in tokens, new \in Passwords :
          \/ Live(i) /\ Proceed(r, "change_password", "write", i,
                          [users[i] EXCEPT !.password = Digest[new]], {"password"})
          \/ \E code : Respond(r, "change_password", None, code)
    BY <1>7 DEF ChangePassword
  <2> QED
    BY <2>1
<1>8. CASE DeleteMe(r)
  BY <1>8 DEF DeleteMe
<1> QED
  BY <1>1, <1>2, <1>3, <1>4, <1>5, <1>6, <1>7, <1>8 DEF Arrive

(* Arrivals.                                                                  *)
LEMMA ArriveType ==
  ASSUME TypeInv, NEW r \in Requests, Arrive(r)
  PROVE  TypeInv'
<1> USE NullFacts, EmailFacts, DigestAssumption
<1>0. /\ users \in [UserIds -> User \union {None}]
      /\ tokens \subseteq UserIds /\ resets \subseteq UserIds
      /\ FreshIds \subseteq UserIds
      /\ \A c, v : LiveWith(c, v) \subseteq UserIds
  BY DEF TypeInv, TypeOK, FreshIds, LiveWith
<1>1. CASE Register(r)
  <2>1. UNCHANGED <<users, tokens, resets>>
    BY <1>1 DEF Register
  <2>2. PICK e \in Emails, p \in Passwords, n \in OptNames :
          \/ Respond(r, "register", None, 409)
          \/ \E i \in FreshIds : Proceed(r, "register", "insert", i,
                        NewUser(e, Digest[p], None, n, FALSE), Columns)
    BY <1>1 DEF Register
  <2>3. NewUser(e, Digest[p], None, n, FALSE) \in User
    BY NewUserType
  <2>4. CASE Respond(r, "register", None, 409)
    BY <1>0, <2>1, <2>4, RespondType DEF Endpoints, Codes
  <2>5. ASSUME NEW i \in FreshIds,
               Proceed(r, "register", "insert", i,
                       NewUser(e, Digest[p], None, n, FALSE), Columns)
        PROVE  TypeInv'
    BY <1>0, <2>1, <2>3, <2>5, ProceedType DEF Endpoints
  <2> QED
    BY <2>2, <2>4, <2>5
<1>2. CASE Login(r)
  <2>1. UNCHANGED <<users, tokens, resets>>
    BY <1>2 DEF Login
  <2>2. \/ Respond(r, "login", None, 401)
        \/ \E i \in UserIds : Live(i) /\ Proceed(r, "login", "write", i, users[i], {})
    BY <1>2 DEF Login, LiveWith
  <2> QED
    BY <1>0, <2>1, <2>2, RespondType, ProceedType, LiveType DEF Endpoints, Codes, TypeInv
<1>3. CASE LoginWithFirebase(r)
  <2>1. UNCHANGED <<users, tokens, resets>>
    BY <1>3 DEF LoginWithFirebase
  <2>2. PICK u \in Uids, e \in Emails \union {None}, n \in OptNames, v \in BOOLEAN :
          \/ \E i \in LiveWith("uid", u) :
               IF users[i].active
               THEN Proceed(r, "firebase", "write", i, users[i], {})
               ELSE Respond(r, "firebase", None, 401)
          \/ \E i \in FreshIds :
               IF e = None
               THEN Proceed(r, "firebase", "insert", i,
                            NewUser(PhoneEmail(u), None, u, n, v), Columns)
               ELSE Proceed(r, "firebase", "find", i,
                            NewUser(e, None, u, n, v), Columns)
    BY <1>3 DEF LoginWithFirebase
  <2>3. \A i \in LiveWith("uid", u) : users[i] \in User /\ i \in UserIds
    BY LiveType DEF LiveWith, TypeInv
  <2>4. NewUser(PhoneEmail(u), None, u, n, v) \in User
    BY NewUserType
  <2>5. e # None => NewUser(e, None, u, n, v) \in User
    BY NewUserType
  <2>6. CASE \E i \in LiveWith("uid", u) :
               IF users[i].active
               THEN Proceed(r, "firebase", "write", i, users[i], {})
               ELSE Respond(r, "firebase", None, 401)
    <3>1. PICK i \in LiveWith("uid", u) :
               IF users[i].active
               THEN Proceed(r, "firebase", "write", i, users[i], {})
               ELSE Respond(r, "firebase", None, 401)
      BY <2>6
    <3>2. CASE users[i].active
      BY <2>1, <2>3, <3>1, <3>2, ProceedType DEF Endpoints
    <3>3. CASE ~users[i].active
      BY <1>0, <2>1, <3>1, <3>3, RespondType DEF Endpoints, Codes
    <3> QED
      BY <3>2, <3>3
  <2>7. CASE \E i \in FreshIds :
               IF e = None
               THEN Proceed(r, "firebase", "insert", i,
                            NewUser(PhoneEmail(u), None, u, n, v), Columns)
               ELSE Proceed(r, "firebase", "find", i,
                            NewUser(e, None, u, n, v), Columns)
    BY <1>0, <2>1, <2>4, <2>5, <2>7, ProceedType DEF Endpoints
  <2> QED
    BY <2>2, <2>6, <2>7
<1>4. CASE Refresh(r)
  BY <1>0, <1>4, RespondType DEF Refresh, Endpoints, Codes
<1>5. CASE GetMe(r)
  BY <1>0, <1>5, RespondType DEF GetMe, Endpoints, Codes
<1>6. CASE UpdateMe(r)
  <2>1. UNCHANGED <<users, tokens, resets>>
    BY <1>6 DEF UpdateMe
  <2>2. PICK i \in tokens :
          \/ Respond(r, "update_me", None, 404)
          \/ Respond(r, "update_me", None, 500)
          \/ /\ Live(i)
             /\ \E e \in Emails \union {Unset}, n \in OptNames \union {Unset} :
                  \E pc \in {"find", "insert", "write", "answer"} :
                    Proceed(r, "update_me", pc, i, Patched(users[i], e, n),
                            Changed(users[i], Patched(users[i], e, n)))
    BY <1>6 DEF UpdateMe
  <2>3. ASSUME NEW e \in Emails \union {Unset}, NEW n \in OptNames \union {Unset},
               Live(i)
        PROVE  /\ Patched(users[i], e, n) \in User
               /\ Changed(users[i], Patched(users[i], e, n)) \in SUBSET Columns
    <3>1. users[i] \in User
      BY <1>0, <2>3, LiveType DEF TypeInv
    <3> QED
      BY <3>1 DEF Patched, User, Changed
  <2> QED
    BY <1>0, <2>1, <2>2, <2>3, RespondType, ProceedType DEF Endpoints, Codes
<1>7. CASE RequestReset(r)
  BY <1>0, <1>7, RespondType DEF RequestReset, Endpoints, Codes
<1>8. CASE ConfirmReset(r)
  <2>1. UNCHANGED <<users, tokens, resets>>
    BY <1>8 DEF ConfirmReset
  <2>2. PICK i \in resets, p \in Passwords :
          \/ Respond(r, "reset_confirm", None, 401)
          \/ Live(i) /\ Proceed(r, "reset_confirm", "write", i,
                          [users[i] EXCEPT !.password = Digest[p]], {"password"})
    BY <1>8 DEF ConfirmReset
  <2>3. Live(i) => [users[i] EXCEPT !.password = Digest[p]] \in User
    BY <1>0, LiveType DEF TypeInv, User
  <2> QED
    BY <1>0, <2>1, <2>2, <2>3, RespondType, ProceedType DEF Endpoints, Codes, Columns
<1>9. CASE ChangePassword(r)
  <2>1. UNCHANGED <<users, tokens, resets>>
    BY <1>9 DEF ChangePassword
  <2>2. PICK i \in tokens, p \in Passwords :
          \/ \E code \in Codes : Respond(r, "change_password", None, code)
          \/ Live(i) /\ Proceed(r, "change_password", "write", i,
                          [users[i] EXCEPT !.password = Digest[p]], {"password"})
    BY <1>9 DEF ChangePassword, Codes
  <2>3. Live(i) => [users[i] EXCEPT !.password = Digest[p]] \in User
    BY <1>0, LiveType DEF TypeInv, User
  <2> QED
    BY <1>0, <2>1, <2>2, <2>3, RespondType, ProceedType DEF Endpoints, Columns
<1>10. CASE DeleteMe(r)
  <2>1. UNCHANGED <<users, tokens, resets>>
    BY <1>10 DEF DeleteMe
  <2>2. PICK i \in tokens :
          \/ Respond(r, "delete_me", None, 404)
          \/ Live(i) /\ Proceed(r, "delete_me", "write", i, Anonymised(i),
                                Changed(users[i], Anonymised(i)))
    BY <1>10 DEF DeleteMe
  <2>3. Live(i) => Anonymised(i) \in User
    BY <1>0, LiveType DEF TypeInv, User, Anonymised, OptNames
  <2>4. Changed(users[i], Anonymised(i)) \in SUBSET Columns
    BY DEF Changed
  <2> QED
    BY <1>0, <2>1, <2>2, <2>3, <2>4, RespondType, ProceedType DEF Endpoints, Codes
<1> QED
  BY <1>1, <1>2, <1>3, <1>4, <1>5, <1>6, <1>7, <1>8, <1>9, <1>10 DEF Arrive

-----------------------------------------------------------------------------
(* The steps of a request that is being served.                               *)
LEMMA StepType ==
  ASSUME TypeInv, NEW r \in Requests, NEW pc \in {"insert", "write", "index", "answer", "commit"},
         NEW locked \in BOOLEAN, NEW held \in SUBSET Keys,
         req[r].pc \notin {"idle", "reply"},
         req' = [req EXCEPT ![r].pc = pc, ![r].locked = locked, ![r].held = held],
         users' = users, tokens' \subseteq UserIds, resets' = resets
  PROVE  TypeInv'
<1> DEFINE new == [req[r] EXCEPT !.pc = pc, !.locked = locked, !.held = held]
<1>1. req \in [Requests -> Request] /\ req[r] \in Request
  BY DEF TypeInv, TypeOK
<1>2. new \in Request /\ new.row = req[r].row /\ new.id = req[r].id
  BY <1>1 DEF Request
<1>3. req' = [req EXCEPT ![r] = new]
  BY <1>1 DEF Request
<1>4. req[r].row \in User /\ req[r].id \in UserIds
  BY DEF TypeInv, RowsHeld
<1> HIDE DEF new
<1> QED
  BY <1>1, <1>2, <1>3, <1>4 DEF TypeInv, TypeOK, RowsHeld

(* The row the commit leaves.                                                 *)
LEMMA MergedType ==
  ASSUME NEW old \in User \union {None}, NEW new \in User, NEW dirty
  PROVE  Merged(old, new, dirty) \in User
BY DEF Merged, User

(* Tokens are issued for ids of accounts.                                     *)
LEMMA IssuedType ==
  ASSUME TypeInv, NEW r \in Requests
  PROVE  tokens \union IssuedTo(r) \subseteq UserIds
BY DEF TypeInv, TypeOK, IssuedTo, Request

(* Each success answer is a known status.                                     *)
LEMMA CodeType == \A op : SuccessCode(op) \in Codes
BY DEF SuccessCode, Codes

(* The steps of a running handler.                                            *)
LEMMA ProgressType ==
  ASSUME TypeInv, NEW r \in Requests, Progress(r)
  PROVE  TypeInv'
<1> USE NullFacts
<1>0. /\ users \in [UserIds -> User \union {None}]
      /\ req \in [Requests -> Request] /\ req[r] \in Request
      /\ tokens \subseteq UserIds /\ resets \subseteq UserIds
      /\ \A c, v : LiveWith(c, v) \subseteq UserIds
  BY DEF TypeInv, TypeOK, LiveWith
<1>a. \A code \in {401, 409, 500} : code \in Codes
  BY DEF Codes
<1>b. req[r].pc \notin {"idle", "reply"}
        => req[r].row \in User /\ req[r].id \in UserIds
  BY DEF TypeInv, RowsHeld
<1>c. req[r].locked \in BOOLEAN /\ req[r].held \in SUBSET Keys
  BY <1>0 DEF Request
<1>1. CASE FindForUpdate(r)
  <2>1. CASE req' = [req EXCEPT ![r].pc = "write"]
    <3>1. req' = [req EXCEPT ![r].pc = "write", ![r].locked = req[r].locked,
                             ![r].held = req[r].held]
      BY <1>0, <2>1 DEF Request
    <3> QED
      BY <1>0, <1>c, <1>1, <3>1, StepType DEF FindForUpdate
  <2>2. CASE Fail(r, 409)
    BY <1>1, <1>a, <2>2, FailType DEF FindForUpdate
  <2> QED
    BY <1>1, <2>1, <2>2 DEF FindForUpdate
<1>2. CASE FindForFirebase(r)
  <2>1. CASE req' = [req EXCEPT ![r].pc = "insert"]
    <3>1. req' = [req EXCEPT ![r].pc = "insert", ![r].locked = req[r].locked,
                             ![r].held = req[r].held]
      BY <1>0, <2>1 DEF Request
    <3> QED
      BY <1>0, <1>c, <1>2, <3>1, StepType DEF FindForFirebase
  <2>2. CASE Fail(r, 401)
    BY <1>2, <1>a, <2>2, FailType DEF FindForFirebase
  <2>3. ASSUME NEW i \in LiveWith("email", req[r].row.email),
               Proceed(r, "firebase", "write", i,
                       [users[i] EXCEPT !.uid = req[r].row.uid],
                       Changed(users[i], [users[i] EXCEPT !.uid = req[r].row.uid]))
        PROVE  TypeInv'
    <3>1. users[i] \in User /\ i \in UserIds
      BY LiveType DEF LiveWith, TypeInv
    <3>2. req[r].row \in User
      BY <1>2, <1>b DEF FindForFirebase
    <3>3. [users[i] EXCEPT !.uid = req[r].row.uid] \in User
      BY <3>1, <3>2 DEF User
    <3>4. Changed(users[i], [users[i] EXCEPT !.uid = req[r].row.uid]) \in SUBSET Columns
      BY DEF Changed
    <3> QED
      BY <1>2, <2>3, <3>1, <3>3, <3>4, ProceedType DEF FindForFirebase, Endpoints
  <2> QED
    BY <1>2, <2>1, <2>2, <2>3 DEF FindForFirebase
<1>3. CASE Lock(r)
  <2>1. PICK pc \in {"index", "answer"} :
          req' = [req EXCEPT ![r].pc = pc, ![r].locked = TRUE, ![r].held = req[r].held]
    BY <1>0, <1>3 DEF Lock, Request
  <2> QED
    <3>1. /\ req[r].pc \notin {"idle", "reply"}
          /\ users' = users /\ tokens' \subseteq UserIds /\ resets' = resets
      BY <1>0, <1>3 DEF Lock
    <3>2. pc \in {"insert", "write", "index", "answer", "commit"}
      OBVIOUS
    <3> QED
      BY <1>c, <2>1, <3>1, <3>2, StepType
<1>4. CASE Reserve(r)
  <2>1. req[r].held \union NextKey(r) \in SUBSET Keys
    BY <1>c DEF NextKey, Unreserved, Keys
  <2>2. PICK pc \in {"insert", "index", "answer"} :
          req' = [req EXCEPT ![r].pc = pc, ![r].locked = TRUE,
                             ![r].held = req[r].held \union NextKey(r)]
    BY <1>0, <1>4 DEF Reserve, Request
  <2>3. /\ req[r].pc \notin {"idle", "reply"}
        /\ users' = users /\ tokens' \subseteq UserIds /\ resets' = resets
    BY <1>0, <1>4 DEF Reserve
  <2>4. pc \in {"insert", "write", "index", "answer", "commit"}
    OBVIOUS
  <2> QED
    BY <2>1, <2>2, <2>3, <2>4, StepType
<1>5. CASE IntegrityError(r)
  BY <1>5, <1>a, FailType DEF IntegrityError
<1>6. CASE DeadlockVictim(r)
  BY <1>6, <1>a, FailType DEF DeadlockVictim
<1>7. CASE ValidationError(r)
  BY <1>7, <1>a, FailType DEF ValidationError
<1>8. CASE Commit(r)
  <2>1. req[r].row \in User /\ req[r].id \in UserIds
    BY <1>8, <1>b DEF Commit, CommitPc
  <2>2. users' \in [UserIds -> User \union {None}]
    BY <1>0, <1>8, <2>1, MergedType DEF Commit
  <2>3. CASE req' = [req EXCEPT ![r] = Blank]
    BY <1>0, <1>8, <2>2, <2>3, ClearType DEF Commit
  <2>4. CASE Respond(r, req[r].op, req[r].id, SuccessCode(req[r].op))
    BY <1>0, <1>8, <2>2, <2>4, RespondType, CodeType DEF Commit, Request
  <2> QED
    BY <1>8, <2>3, <2>4 DEF Commit
<1>9. CASE SendThenCommit(r)
  <2>1. req' = [req EXCEPT ![r].pc = "commit", ![r].locked = req[r].locked,
                           ![r].held = req[r].held]
    BY <1>0, <1>9 DEF SendThenCommit, Request
  <2> QED
    <3>1. /\ req[r].pc \notin {"idle", "reply"}
          /\ users' = users /\ tokens' \subseteq UserIds /\ resets' = resets
      BY <1>9, IssuedType DEF SendThenCommit
    <3> QED
      BY <1>c, <2>1, <3>1, StepType
<1>10. CASE Send(r)
  <2>1. resets' \subseteq UserIds
    BY <1>0, <1>10 DEF Send, Request
  <2> QED
    BY <1>0, <1>10, <2>1, ClearType, IssuedType DEF Send
<1> QED
  BY <1>1, <1>2, <1>3, <1>4, <1>5, <1>6, <1>7, <1>8, <1>9, <1>10 DEF Progress

(* Every step keeps the types.                                                *)
LEMMA TypeNext == TypeInv /\ [Next]_vars => TypeInv'
<1> SUFFICES ASSUME TypeInv, [Next]_vars PROVE TypeInv'
  OBVIOUS
<1>1. ASSUME NEW r \in Requests, Drop(r) PROVE TypeInv'
  BY <1>1, ClearType DEF Drop, TypeInv, TypeOK
<1>2. ASSUME NEW i \in UserIds, Suspend(i) PROVE TypeInv'
  <2>1. users[i] \in User
    BY <1>2, LiveType DEF Suspend, TypeInv
  <2>2. [users[i] EXCEPT !.active = FALSE] \in User
    BY <2>1 DEF User
  <2>3. users' = [users EXCEPT ![i] = [users[i] EXCEPT !.active = FALSE]]
    BY <1>2 DEF Suspend
  <2> QED
    BY <1>2, <2>2, <2>3 DEF Suspend, TypeInv, TypeOK, RowsHeld
<1>3. CASE UNCHANGED vars
  BY <1>3 DEF vars, TypeInv, TypeOK, RowsHeld
<1> QED
  BY <1>1, <1>2, <1>3, ArriveType, ProgressType DEF Next

(* The empty database.                                                        *)
LEMMA TypeInit == Init => TypeInv
BY BlankType DEF Init, TypeInv, TypeOK, RowsHeld, Blank

(* Whatever requests do and whenever they are dropped, every committed row,   *)
(* request, token and reset token is of its type: no column ever receives a   *)
(* value of another, and an email is never NULL.                              *)
THEOREM TypeCorrect == Spec => []TypeOK
<1>1. Spec => []TypeInv
  BY TypeInit, TypeNext, PTL DEF Spec
<1>2. TypeInv => TypeOK
  BY DEF TypeInv
<1> QED
  BY <1>1, <1>2, PTL

-----------------------------------------------------------------------------
(* The inductive invariant.  Uniqueness of the committed keys rests on what   *)
(* running requests have reserved, deletion being final on what they may      *)
(* still write, and a token's account being there on what a reply refers to.  *)
Running(r) == req[r].pc \notin {"idle", "reply"}
Committed(i) == users[i] # None

(* A request that will insert has drawn an id nobody else works on and writes *)
(* every column.                                                              *)
FreshRows ==
  \A r \in Requests :
    Running(r) /\ ~Committed(req[r].id) =>
      /\ Columns \subseteq req[r].dirty
      /\ ~req[r].row.deleted
      /\ \A o \in Requests \ {r} : req[o].id # req[r].id

(* A handler that has flushed holds the email it writes in the index: what is *)
(* left for the commit to flush is at most a uid.                             *)
EmailIndexed ==
  \A r \in Requests :
    req[r].pc \in {"answer", "commit"} /\ "email" \in req[r].dirty
      => "email" \in req[r].held

(* A write to a committed row only ever sets deleted_at and clears is_active, *)
(* and does not do the one without the other.                                 *)
StaleWrites ==
  \A r \in Requests :
    Running(r) /\ Committed(req[r].id) =>
      /\ "active" \in req[r].dirty => ~req[r].row.active
      /\ "deleted" \in req[r].dirty =>
           /\ req[r].row.deleted
           /\ "active" \in req[r].dirty \/ ~users[req[r].id].active

DeletedInactive ==
  \A i \in UserIds : Committed(i) /\ users[i].deleted => ~users[i].active

RepliesHaveAccount ==
  \A r \in Requests :
    req[r].pc = "reply" /\ req[r].id # None => Committed(req[r].id)

AccountInv ==
  /\ TypeInv
  /\ UniqueKeys
  /\ ReservedKeysExclusive
  /\ FreshRows
  /\ EmailIndexed
  /\ StaleWrites
  /\ DeletedInactive
  /\ RepliesHaveAccount
  /\ TokenHasAccount

-----------------------------------------------------------------------------
(* How the building blocks keep the invariant.                                *)
(* What a handler may start a write with: a row it loaded, or a new one.      *)
SoundStart(i, row, dirty) ==
  \/ /\ Committed(i)
     /\ "active" \in dirty => ~row.active
     /\ "deleted" \in dirty =>
          row.deleted /\ ("active" \in dirty \/ ~users[i].active)
  \/ /\ i \in FreshIds
     /\ Columns \subseteq dirty
     /\ ~row.deleted

(* An assignment to one slot leaves the others.                               *)
LEMMA OthersKept ==
  ASSUME TypeInv, NEW r \in Requests, NEW new, req' = [req EXCEPT ![r] = new]
  PROVE  req'[r] = new /\ \A o \in Requests \ {r} : req'[o] = req[o]
BY DEF TypeInv, TypeOK

(* A handler that goes on from a sound start reserves no key yet.             *)
LEMMA ProceedKeeps ==
  ASSUME AccountInv, TypeInv', NEW r \in Requests, NEW op,
         NEW pc \in {"find", "insert", "write", "answer"},
         NEW i \in UserIds, NEW row, NEW dirty, SoundStart(i, row, dirty),
         pc = "answer" => dirty = {},
         Proceed(r, op, pc, i, row, dirty), UNCHANGED <<users, tokens, resets>>
  PROVE  AccountInv'
<1> DEFINE new == [pc |-> pc, op |-> op, id |-> i, row |-> row, dirty |-> dirty,
                   locked |-> FALSE, held |-> {}, code |-> 0]
<1>1. req' = [req EXCEPT ![r] = new]
  BY DEF Proceed
<1>2. req'[r] = new /\ \A o \in Requests \ {r} : req'[o] = req[o]
  BY <1>1, OthersKept DEF AccountInv
<1>3. /\ new.pc = pc /\ new.id = i /\ new.row = row /\ new.dirty = dirty
      /\ new.held = {}
  OBVIOUS
<1> HIDE DEF new
<1>4. /\ req'[r].pc = pc /\ req'[r].id = i /\ req'[r].row = row
      /\ req'[r].dirty = dirty /\ req'[r].held = {}
  BY <1>2, <1>3
<1>5. UniqueKeys' /\ DeletedInactive' /\ TokenHasAccount'
  BY DEF AccountInv, UniqueKeys, DeletedInactive, TokenHasAccount, Committed
<1>6. ReservedKeysExclusive'
  BY <1>2, <1>4 DEF AccountInv, ReservedKeysExclusive
<1>7. FreshRows'
  <2> SUFFICES ASSUME NEW q \in Requests, Running(q)', ~Committed(req[q].id)'
               PROVE  /\ Columns \subseteq req'[q].dirty
                      /\ ~req'[q].row.deleted
                      /\ \A o \in Requests \ {q} : req'[o].id # req'[q].id
    BY DEF FreshRows
  <2>1. CASE q = r
    BY <1>2, <1>4, <2>1 DEF SoundStart, Committed, FreshIds
  <2>2. CASE q # r
    <3>1. /\ req'[q] = req[q] /\ Running(q) /\ ~Committed(req[q].id)
      BY <1>2, <2>2 DEF Running, Committed
    <3>2. req[q].id # i
      BY <3>1 DEF SoundStart, FreshIds
    <3> QED
      BY <1>2, <1>4, <3>1, <3>2 DEF AccountInv, FreshRows
  <2> QED
    BY <2>1, <2>2
<1>8. StaleWrites'
  BY <1>2, <1>4 DEF AccountInv, StaleWrites, SoundStart, Running, Committed, FreshIds
<1>9. RepliesHaveAccount'
  BY <1>2, <1>4 DEF AccountInv, RepliesHaveAccount, Committed
<1>10. EmailIndexed'
  BY <1>2, <1>4 DEF AccountInv, EmailIndexed
<1> QED
  BY <1>5, <1>6, <1>7, <1>8, <1>9, <1>10 DEF AccountInv

(* A request that ends, answered or not, gives up what it held.               *)
LEMMA OverKeeps ==
  ASSUME AccountInv, TypeInv', NEW r \in Requests, NEW new,
         new.pc \in {"idle", "reply"}, new.held = {},
         new.id # None => new.pc = "reply" /\ Committed(new.id),
         req'[r] = new, \A o \in Requests \ {r} : req'[o] = req[o],
         users' = users, TokenHasAccount'
  PROVE  AccountInv'
<1>1. req'[r] = new /\ \A o \in Requests \ {r} : req'[o] = req[o]
  OBVIOUS
<1>2. UniqueKeys' /\ DeletedInactive'
  BY DEF AccountInv, UniqueKeys, DeletedInactive, Committed
<1>3. ReservedKeysExclusive'
  BY <1>1 DEF AccountInv, ReservedKeysExclusive
<1>4. FreshRows'
  <2> SUFFICES ASSUME NEW q \in Requests, Running(q)', ~Committed(req[q].id)'
               PROVE  /\ Columns \subseteq req'[q].dirty
                      /\ ~req'[q].row.deleted
                      /\ \A o \in Requests \ {q} : req'[o].id # req'[q].id
    BY DEF FreshRows
  <2>1. q # r
    BY <1>1 DEF Running
  <2>2. req'[q] = req[q] /\ Running(q) /\ ~Committed(req[q].id)
    BY <1>1, <2>1 DEF Running, Committed
  <2>3. req[q].id # None
    BY <2>2, NullFacts DEF AccountInv, TypeInv, RowsHeld, Running
  <2>4. new.id # req[q].id
    BY <2>2, <2>3
  <2> QED
    BY <1>1, <2>2, <2>4 DEF AccountInv, FreshRows
<1>5. StaleWrites'
  BY <1>1 DEF AccountInv, StaleWrites, Running, Committed
<1>6. RepliesHaveAccount'
  BY <1>1 DEF AccountInv, RepliesHaveAccount, Committed
<1>7. EmailIndexed'
  BY <1>1 DEF AccountInv, EmailIndexed
<1> QED
  BY <1>2, <1>3, <1>4, <1>5, <1>6, <1>7 DEF AccountInv

(* An answer, after a rollback or a read.                                     *)
LEMMA RespondKeeps ==
  ASSUME AccountInv, TypeInv', NEW r \in Requests, NEW op, NEW i, NEW code,
         i = None \/ Committed(i), Respond(r, op, i, code),
         UNCHANGED <<users, tokens, resets>>
  PROVE  AccountInv'
<1> DEFINE new == [Blank EXCEPT !.pc = "reply", !.op = op, !.id = i, !.code = code]
<1>1. new.pc = "reply" /\ new.id = i /\ new.held = {}
  BY DEF Blank
<1>2. req'[r] = new /\ \A o \in Requests \ {r} : req'[o] = req[o]
  BY OthersKept DEF Respond, AccountInv
<1>3. TokenHasAccount'
  BY DEF AccountInv, TokenHasAccount
<1> HIDE DEF new
<1> QED
  BY <1>1, <1>2, <1>3, OverKeeps

(* A slot that becomes free reserves nothing.                                 *)
LEMMA ClearKeeps ==
  ASSUME AccountInv, TypeInv', NEW r \in Requests,
         req' = [req EXCEPT ![r] = Blank], users' = users, TokenHasAccount'
  PROVE  AccountInv'
<1>1. Blank.pc = "idle" /\ Blank.id = None /\ Blank.held = {}
  BY DEF Blank
<1>2. req'[r] = Blank /\ \A o \in Requests \ {r} : req'[o] = req[o]
  BY OthersKept DEF AccountInv
<1> QED
  BY <1>1, <1>2, OverKeeps

(* A handler that raises releases its reservations.                           *)
LEMMA FailKeeps ==
  ASSUME AccountInv, TypeInv', NEW r \in Requests, NEW code,
         Fail(r, code), UNCHANGED <<users, tokens, resets>>
  PROVE  AccountInv'
<1>1. CASE req[r].pc = "commit"
  BY <1>1, ClearKeeps DEF Fail, AccountInv, TokenHasAccount
<1>2. CASE req[r].pc # "commit"
  BY <1>2, RespondKeeps DEF Fail
<1> QED
  BY <1>1, <1>2

(* A step that changes neither row, id nor columns of a running request.      *)
LEMMA StepKeeps ==
  ASSUME AccountInv, TypeInv', NEW r \in Requests,
         Running(r), Running(r)', users' = users,
         \A o \in Requests \ {r} : req'[o] = req[o],
         req'[r].id = req[r].id, req'[r].row = req[r].row,
         req'[r].dirty = req[r].dirty,
         ReservedKeysExclusive', EmailIndexed', TokenHasAccount'
  PROVE  AccountInv'
<1>1. UniqueKeys' /\ DeletedInactive'
  BY DEF AccountInv, UniqueKeys, DeletedInactive, Committed
<1>2. \A q \in Requests : (Running(q)' => Running(q)) /\ req'[q].id = req[q].id
  BY DEF Running
<1>3. FreshRows'
  BY <1>2 DEF AccountInv, FreshRows, Committed
<1>4. StaleWrites'
  BY <1>2 DEF AccountInv, StaleWrites, Committed
<1>5. RepliesHaveAccount'
  BY DEF AccountInv, RepliesHaveAccount, Committed, Running
<1> QED
  BY <1>1, <1>3, <1>4, <1>5 DEF AccountInv

-----------------------------------------------------------------------------
(* Every action keeps the invariant.                                          *)
LEMMA ArriveKeeps ==
  ASSUME AccountInv, NEW r \in Requests, Arrive(r)
  PROVE  AccountInv'
<1>0. /\ TypeInv /\ TypeInv'
      /\ FreshIds \subseteq UserIds /\ tokens \subseteq UserIds /\ resets \subseteq UserIds
      /\ \A i \in UserIds : Live(i) => Committed(i)
      /\ \A c, v : \A i \in LiveWith(c, v) : i \in UserIds /\ Live(i)
  BY ArriveType DEF AccountInv, TypeInv, TypeOK, FreshIds, LiveWith, Live, Committed
<1>a. \A e, d, u, n, v : ~NewUser(e, d, u, n, v).deleted
  BY DEF NewUser
<1>b. \A i \in UserIds : \A row :
        Live(i) => SoundStart(i, row, {}) /\ SoundStart(i, row, {"password"})
  BY <1>0 DEF SoundStart
<1>c. \A i \in FreshIds : \A row : ~row.deleted => SoundStart(i, row, Columns)
  BY DEF SoundStart
<1>1. CASE Register(r)
  BY <1>0, <1>1, <1>a, <1>c, ProceedKeeps, RespondKeeps DEF Register
<1>2. CASE Login(r)
  BY <1>0, <1>2, <1>b, ProceedKeeps, RespondKeeps DEF Login
<1>3. CASE LoginWithFirebase(r)
  BY <1>0, <1>3, <1>a, <1>b, <1>c, ProceedKeeps, RespondKeeps DEF LoginWithFirebase
<1>4. CASE Refresh(r)
  BY <1>0, <1>4, RespondKeeps DEF Refresh
<1>5. CASE GetMe(r)
  BY <1>0, <1>5, RespondKeeps DEF GetMe
<1>6. CASE UpdateMe(r)
  <2>1. UNCHANGED <<users, tokens, resets>>
    BY <1>6 DEF UpdateMe
  <2>2. PICK i \in tokens :
          \/ Respond(r, "update_me", None, 404)
          \/ Respond(r, "update_me", None, 500)
          \/ /\ Live(i)
             /\ \E e \in Emails \union {Unset}, n \in OptNames \union {Unset} :
                  \E pc \in {"find", "insert", "write", "answer"} :
                    /\ pc = "answer" => Changed(users[i], Patched(users[i], e, n)) = {}
                    /\ Proceed(r, "update_me", pc, i, Patched(users[i], e, n),
                               Changed(users[i], Patched(users[i], e, n)))
    BY <1>6 DEF UpdateMe
  <2>3. ASSUME NEW e, NEW n, Live(i)
        PROVE  SoundStart(i, Patched(users[i], e, n),
                          Changed(users[i], Patched(users[i], e, n)))
    <3>1. users[i] \in User
      BY <1>0, <2>3, LiveType DEF TypeInv
    <3>2. /\ Patched(users[i], e, n).active = users[i].active
          /\ Patched(users[i], e, n).deleted = users[i].deleted
      BY <3>1 DEF Patched, User
    <3> QED
      BY <1>0, <2>3, <3>2 DEF SoundStart, Changed
  <2> QED
    BY <1>0, <2>1, <2>2, <2>3, ProceedKeeps, RespondKeeps
<1>7. CASE RequestReset(r)
  BY <1>0, <1>7, RespondKeeps DEF RequestReset
<1>8. CASE ConfirmReset(r)
  BY <1>0, <1>8, <1>b, ProceedKeeps, RespondKeeps DEF ConfirmReset
<1>9. CASE ChangePassword(r)
  BY <1>0, <1>9, <1>b, ProceedKeeps, RespondKeeps DEF ChangePassword
<1>10. CASE DeleteMe(r)
  <2>1. ASSUME NEW i \in UserIds, Live(i)
        PROVE  SoundStart(i, Anonymised(i), Changed(users[i], Anonymised(i)))
    <3>1. users[i] \in User
      BY <1>0, <2>1, LiveType DEF TypeInv
    <3>2. Anonymised(i).active = FALSE /\ Anonymised(i).deleted = TRUE
      BY <3>1 DEF Anonymised, User
    <3>3. "active" \notin Changed(users[i], Anonymised(i)) => ~users[i].active
      BY <3>1, <3>2 DEF Changed, Columns, User
    <3> QED
      BY <1>0, <2>1, <3>2, <3>3 DEF SoundStart
  <2> QED
    BY <1>0, <1>10, <2>1, ProceedKeeps, RespondKeeps DEF DeleteMe
<1> QED
  BY <1>1, <1>2, <1>3, <1>4, <1>5, <1>6, <1>7, <1>8, <1>9, <1>10 DEF Arrive

(* A reservation is free of conflict when it is made.                         *)
LEMMA ReserveKeeps ==
  ASSUME AccountInv, TypeInv', NEW r \in Requests, Reserve(r)
  PROVE  AccountInv'
<1>1. req \in [Requests -> Request]
  BY DEF AccountInv, TypeInv, TypeOK
<1>2. /\ req'[r].id = req[r].id /\ req'[r].row = req[r].row
      /\ req'[r].dirty = req[r].dirty
      /\ req'[r].pc = IF Unreserved(r) = NextKey(r) THEN "answer" ELSE req[r].pc
      /\ req'[r].held = req[r].held \union NextKey(r)
      /\ \A o \in Requests \ {r} : req'[o] = req[o]
  BY <1>1 DEF Reserve, Request
<1>3. ASSUME NEW c \in req'[r].held, req[r].row[c] # None
      PROVE  /\ \A i \in UserIds \ {req[r].id} :
                  users[i] # None => users[i][c] # req[r].row[c]
             /\ \A o \in Requests \ {r} :
                  c \in req[o].held => req[o].row[c] # req[r].row[c]
  <2>1. CASE c \in req[r].held
    BY <1>3, <2>1 DEF AccountInv, ReservedKeysExclusive
  <2>2. CASE c \notin req[r].held
    <3>1. Free(r, c)
      BY <1>2, <1>3, <2>2 DEF Reserve, Claimable
    <3> QED
      BY <1>3, <3>1 DEF Free, Taken, Blockers
  <2> QED
    BY <2>1, <2>2
<1>4. ReservedKeysExclusive'
  <2> SUFFICES ASSUME NEW q \in Requests, NEW c \in req'[q].held,
                      req'[q].row[c] # None
               PROVE  /\ \A i \in UserIds \ {req'[q].id} :
                           users'[i] # None => users'[i][c] # req'[q].row[c]
                      /\ \A o \in Requests \ {q} :
                           c \in req'[o].held => req'[o].row[c] # req'[q].row[c]
    BY DEF ReservedKeysExclusive
  <2>1. users' = users
    BY DEF Reserve
  <2>2. CASE q = r
    BY <1>2, <1>3, <2>1, <2>2
  <2>3. CASE q # r
    BY <1>2, <1>3, <2>1, <2>3 DEF AccountInv, ReservedKeysExclusive
  <2> QED
    BY <2>2, <2>3
<1>5. Running(r) /\ Running(r)' /\ users' = users /\ TokenHasAccount'
  BY <1>2 DEF Running, Reserve, AccountInv, TokenHasAccount
<1>6. EmailIndexed'
  <2>1. req[r].row \in User /\ req[r].pc \in {"insert", "index"}
    BY DEF AccountInv, TypeInv, RowsHeld, Reserve
  <2>2. req[r].row.email # None
    BY <2>1, NullFacts DEF User
  <2>3. "email" \in req[r].dirty /\ Unreserved(r) = NextKey(r) => "email" \in req'[r].held
    BY <1>2, <2>2 DEF Unreserved, Keys
  <2>4. req'[r].pc \in {"answer", "commit"} => Unreserved(r) = NextKey(r)
    BY <1>2, <2>1
  <2> QED
    BY <1>2, <2>3, <2>4 DEF AccountInv, EmailIndexed
<1> QED
  BY <1>2, <1>4, <1>5, <1>6, StepKeeps

(* Whatever a commit writes into a key column is nobody else's: it was        *)
(* reserved, or is free as the commit flushes it, or was the row's already.   *)
LEMMA CommitKeeps ==
  ASSUME AccountInv, TypeInv', NEW r \in Requests, Commit(r)
  PROVE  AccountInv'
<1> DEFINE id == req[r].id
           row == req[r].row
           dirty == req[r].dirty
           merged == Merged(users[id], row, dirty)
<1>1. /\ users \in [UserIds -> User \union {None}] /\ req \in [Requests -> Request]
      /\ Running(r) /\ id \in UserIds /\ row \in User
  BY DEF AccountInv, TypeInv, TypeOK, RowsHeld, Commit, CommitPc, Running
<1>2. merged \in User /\ merged # None
  BY <1>1, MergedType, RowAssumption
<1>3. /\ users'[id] = merged
      /\ \A i \in UserIds \ {id} : users'[i] = users[i]
      /\ tokens' = tokens
  BY <1>1 DEF Commit
<1>4. PICK new : /\ req' = [req EXCEPT ![r] = new]
                 /\ new = Blank \/ \E op, code : new =
                      [Blank EXCEPT !.pc = "reply", !.op = op, !.id = id, !.code = code]
  BY DEF Commit, Respond
<1>5. /\ req'[r] = new /\ \A o \in Requests \ {r} : req'[o] = req[o]
      /\ new.pc \in {"idle", "reply"} /\ new.held = {} /\ new.id \in {None, id}
  <2>1. req'[r] = new /\ \A o \in Requests \ {r} : req'[o] = req[o]
    BY <1>4, OthersKept DEF AccountInv
  <2>2. CASE new = Blank
    BY <2>1, <2>2 DEF Blank
  <2>3. CASE \E op, code : new =
                [Blank EXCEPT !.pc = "reply", !.op = op, !.id = id, !.code = code]
    BY <2>1, <2>3 DEF Blank
  <2> QED
    BY <1>4, <2>2, <2>3
<1>6. \A c \in Keys : merged[c] = IF users[id] = None \/ c \in dirty THEN row[c]
                                                                     ELSE users[id][c]
  BY DEF Merged, Keys
<1>7. ~Committed(id) => Keys \subseteq dirty
  BY <1>1 DEF AccountInv, FreshRows, Keys, Columns
<1>8. ASSUME NEW c \in Keys, merged[c] # None
      PROVE  /\ \A j \in UserIds \ {id} : users[j] # None => users[j][c] # merged[c]
             /\ \A o \in Requests \ {r} :
                  c \in req[o].held /\ req[o].id # id => req[o].row[c] # merged[c]
  <2>1. CASE c \in req[r].held /\ c \in dirty
    BY <1>6, <1>8, <2>1 DEF AccountInv, ReservedKeysExclusive
  <2>2. CASE c \notin req[r].held /\ c \in dirty
    <3>1. "email" \in dirty => "email" \in req[r].held
      BY DEF AccountInv, EmailIndexed, Commit, CommitPc
    <3>2. "email" \notin Unreserved(r) /\ c \in Unreserved(r)
      BY <1>6, <1>8, <2>2, <3>1 DEF Unreserved
    <3>3. Free(r, c)
      BY <3>2 DEF Commit, Claimable, NextKey
    <3> QED
      BY <1>6, <1>8, <2>2, <3>3 DEF Free, Taken, Blockers
  <2>3. CASE c \notin dirty
    <3>1. users[id] # None /\ merged[c] = users[id][c]
      BY <1>6, <1>7, <2>3 DEF Committed
    <3>2. \A j \in UserIds \ {id} : users[j] # None => users[j][c] # merged[c]
      BY <1>1, <1>8, <3>1 DEF AccountInv, UniqueKeys
    <3>3. \A o \in Requests \ {r} :
            c \in req[o].held /\ req[o].id # id => req[o].row[c] # merged[c]
      BY <1>1, <1>8, <3>1 DEF AccountInv, ReservedKeysExclusive
    <3> QED
      BY <3>2, <3>3
  <2> QED
    BY <2>1, <2>2, <2>3
<1> HIDE DEF id, row, dirty, merged
<1>9. UniqueKeys'
  <2> SUFFICES ASSUME NEW i \in UserIds, NEW j \in UserIds, NEW c \in Keys, i # j,
                      users'[i] # None, users'[j] # None, users'[i][c] # None
               PROVE  users'[i][c] # users'[j][c]
    BY DEF UniqueKeys
  <2>1. CASE i = id
    BY <1>3, <1>8, <2>1
  <2>2. CASE j = id
    BY <1>3, <1>8, <2>2
  <2>3. CASE i # id /\ j # id
    BY <1>3, <2>3 DEF AccountInv, UniqueKeys
  <2> QED
    BY <2>1, <2>2, <2>3
<1>10. ReservedKeysExclusive'
  <2> SUFFICES ASSUME NEW q \in Requests, NEW c \in req'[q].held,
                      req'[q].row[c] # None
               PROVE  /\ \A i \in UserIds \ {req'[q].id} :
                           users'[i] # None => users'[i][c] # req'[q].row[c]
                      /\ \A o \in Requests \ {q} :
                           c \in req'[o].held => req'[o].row[c] # req'[q].row[c]
    BY DEF ReservedKeysExclusive
  <2>1. q # r /\ req'[q] = req[q]
    BY <1>5
  <2>2. c \in Keys
    BY <1>1, <2>1 DEF Request
  <2>3. \A i \in UserIds \ {req[q].id} : users[i] # None => users[i][c] # req[q].row[c]
    BY <2>1 DEF AccountInv, ReservedKeysExclusive
  <2>4. id # req[q].id => merged[c] # req[q].row[c]
    BY <1>8, <2>1, <2>2
  <2>5. \A o \in Requests \ {q} :
          c \in req'[o].held => req'[o].row[c] # req'[q].row[c]
    BY <1>5, <2>1 DEF AccountInv, ReservedKeysExclusive
  <2> QED
    BY <1>3, <2>1, <2>3, <2>4, <2>5
<1>11. \A o \in Requests \ {r} :
         Running(o)' => /\ Running(o) /\ req'[o] = req[o]
                        /\ ~Committed(req[o].id) => req[o].id # id
  <2> SUFFICES ASSUME NEW o \in Requests \ {r}, Running(o)'
               PROVE  /\ Running(o) /\ req'[o] = req[o]
                      /\ ~Committed(req[o].id) => req[o].id # id
    OBVIOUS
  <2>1. req'[o] = req[o]
    BY <1>5
  <2>2. Running(o)
    BY <2>1 DEF Running
  <2>3. ~Committed(req[o].id) => req[r].id # req[o].id
    BY <2>2 DEF AccountInv, FreshRows
  <2> QED
    BY <2>1, <2>2, <2>3 DEF id
<1>12. ~Running(r)'
  BY <1>5 DEF Running
<1>13. \A i \in UserIds : Committed(i)' <=> Committed(i) \/ i = id
  BY <1>1, <1>2, <1>3 DEF Committed
<1>14. FreshRows'
  <2> SUFFICES ASSUME NEW q \in Requests, Running(q)', ~Committed(req[q].id)'
               PROVE  /\ Columns \subseteq req'[q].dirty
                      /\ ~req'[q].row.deleted
                      /\ \A o \in Requests \ {q} : req'[o].id # req'[q].id
    BY DEF FreshRows
  <2>1. q # r /\ req'[q] = req[q] /\ Running(q) /\ req[q].id \in UserIds
    BY <1>11, <1>12 DEF AccountInv, TypeInv, RowsHeld, Running
  <2>2. ~Committed(req[q].id) /\ req[q].id # id
    BY <1>13, <2>1 DEF Committed
  <2>3. new.id # req[q].id
    BY <1>5, <2>1, <2>2, NullFacts
  <2> QED
    BY <1>5, <2>1, <2>2, <2>3 DEF AccountInv, FreshRows
<1>15. merged.active = (IF users[id] = None \/ "active" \in dirty
                        THEN row.active ELSE users[id].active)
       /\ merged.deleted = (IF users[id] = None \/ "deleted" \in dirty
                            THEN row.deleted ELSE users[id].deleted)
  BY DEF Merged, merged
<1>16. /\ Committed(id) /\ ~users[id].active => ~merged.active
       /\ merged.deleted => ~merged.active
       /\ Committed(id) /\ users[id].deleted => merged.deleted
  BY <1>1, <1>15 DEF AccountInv, FreshRows, StaleWrites, DeletedInactive, Committed,
                     id, row, dirty
<1>17. StaleWrites'
  <2> SUFFICES ASSUME NEW q \in Requests, Running(q)', Committed(req[q].id)'
               PROVE  /\ "active" \in req'[q].dirty => ~req'[q].row.active
                      /\ "deleted" \in req'[q].dirty =>
                           /\ req'[q].row.deleted
                           /\ \/ "active" \in req'[q].dirty
                              \/ ~users'[req'[q].id].active
    BY DEF StaleWrites
  <2>1. q # r /\ req'[q] = req[q] /\ Running(q) /\ req[q].id \in UserIds
    BY <1>11, <1>12 DEF AccountInv, TypeInv, RowsHeld, Running
  <2>2. Committed(req[q].id)
    BY <1>11, <1>13, <2>1 DEF Committed
  <2>3. ~users[req[q].id].active => ~users'[req[q].id].active
    BY <1>3, <1>16, <2>1, <2>2
  <2> QED
    BY <2>1, <2>2, <2>3 DEF AccountInv, StaleWrites
<1>18. DeletedInactive'
  BY <1>3, <1>16 DEF AccountInv, DeletedInactive, Committed
<1>19. RepliesHaveAccount'
  <2> SUFFICES ASSUME NEW q \in Requests, req'[q].pc = "reply", req'[q].id # None
               PROVE  Committed(req[q].id)'
    BY DEF RepliesHaveAccount
  <2>1. CASE q = r
    BY <1>2, <1>3, <1>5, <2>1 DEF Committed
  <2>2. CASE q # r
    BY <1>2, <1>3, <1>5, <2>2 DEF AccountInv, RepliesHaveAccount, Committed, TypeInv, TypeOK, Request
  <2> QED
    BY <2>1, <2>2
<1>20. TokenHasAccount'
  BY <1>2, <1>3 DEF AccountInv, TokenHasAccount, TypeInv, TypeOK
<1>21. EmailIndexed'
  BY <1>5 DEF AccountInv, EmailIndexed
<1> QED
  BY <1>9, <1>10, <1>14, <1>17, <1>18, <1>19, <1>20, <1>21 DEF AccountInv

(* The steps of a running handler; the commit is the hard one.                *)
LEMMA ProgressKeeps ==
  ASSUME AccountInv, NEW r \in Requests, Progress(r)
  PROVE  AccountInv'
<1>0. TypeInv /\ TypeInv' /\ req \in [Requests -> Request]
  BY ProgressType DEF AccountInv, TypeInv, TypeOK
<1>a. ASSUME NEW pc \in {"insert", "write", "index", "answer", "commit"},
             NEW locked \in BOOLEAN, Running(r), users' = users,
             req' = [req EXCEPT ![r].pc = pc, ![r].locked = locked], TokenHasAccount',
             pc \in {"answer", "commit"}
               => req[r].pc \in {"answer", "commit"} \/ "email" \notin req[r].dirty
      PROVE  AccountInv'
  <2>1. /\ req'[r].id = req[r].id /\ req'[r].row = req[r].row
        /\ req'[r].dirty = req[r].dirty /\ req'[r].held = req[r].held
        /\ req'[r].pc = pc
        /\ \A o \in Requests \ {r} : req'[o] = req[o]
    BY <1>0, <1>a DEF Request
  <2>2. Running(r)'
    BY <2>1 DEF Running
  <2>3. \A q \in Requests : /\ req'[q].held = req[q].held
                            /\ req'[q].row = req[q].row /\ req'[q].id = req[q].id
    BY <2>1
  <2>u. users' = users
    BY <1>a
  <2>4. ReservedKeysExclusive'
    BY <2>3, <2>u DEF AccountInv, ReservedKeysExclusive
  <2>5. EmailIndexed'
    BY <1>a, <2>1 DEF AccountInv, EmailIndexed
  <2> QED
    BY <1>0, <1>a, <2>1, <2>2, <2>4, <2>5, StepKeeps
<1>b. req[r].locked \in BOOLEAN
  BY <1>0 DEF Request
<1>c. UNCHANGED <<users, tokens>> => TokenHasAccount'
  BY DEF AccountInv, TokenHasAccount
<1>d. \A pc : [req EXCEPT ![r].pc = pc] = [req EXCEPT ![r].pc = pc, ![r].locked = req[r].locked]
  BY <1>0 DEF Request
<1>1. CASE FindForUpdate(r)
  <2>1. CASE req' = [req EXCEPT ![r].pc = "write"]
    <3>1. req' = [req EXCEPT ![r].pc = "write", ![r].locked = req[r].locked]
      BY <1>d, <2>1
    <3> QED
      BY <1>1, <1>a, <1>b, <1>c, <3>1 DEF FindForUpdate, Running
  <2>2. CASE Fail(r, 409)
    BY <1>0, <1>1, <2>2, FailKeeps DEF FindForUpdate
  <2> QED
    BY <1>1, <2>1, <2>2 DEF FindForUpdate
<1>2. CASE FindForFirebase(r)
  <2>1. CASE req' = [req EXCEPT ![r].pc = "insert"]
    <3>1. req' = [req EXCEPT ![r].pc = "insert", ![r].locked = req[r].locked]
      BY <1>d, <2>1
    <3> QED
      BY <1>2, <1>a, <1>b, <1>c, <3>1 DEF FindForFirebase, Running
  <2>2. CASE Fail(r, 401)
    BY <1>0, <1>2, <2>2, FailKeeps DEF FindForFirebase
  <2>3. ASSUME NEW i \in LiveWith("email", req[r].row.email),
               Proceed(r, "firebase", "write", i,
                       [users[i] EXCEPT !.uid = req[r].row.uid],
                       Changed(users[i], [users[i] EXCEPT !.uid = req[r].row.uid]))
        PROVE  AccountInv'
    <3> DEFINE linked == [users[i] EXCEPT !.uid = req[r].row.uid]
    <3>1. users[i] \in User /\ i \in UserIds /\ Committed(i)
      BY <1>0, LiveType DEF LiveWith, TypeInv, Live, Committed
    <3>2. linked.active = users[i].active /\ linked.deleted = users[i].deleted
      BY <3>1 DEF User
    <3>3. SoundStart(i, linked, Changed(users[i], linked))
      BY <3>1, <3>2 DEF SoundStart, Changed
    <3> QED
      BY <1>0, <1>2, <2>3, <3>1, <3>3, ProceedKeeps DEF FindForFirebase
  <2> QED
    BY <1>2, <2>1, <2>2, <2>3 DEF FindForFirebase
<1>3. CASE Lock(r)
  <2>1. PICK pc \in {"index", "answer"} :
          /\ req' = [req EXCEPT ![r].pc = pc, ![r].locked = TRUE]
          /\ pc = "answer" => "email" \notin req[r].dirty
    BY <1>0, <1>3 DEF Lock, Request
  <2> QED
    BY <1>3, <1>a, <1>c, <2>1 DEF Lock, Running
<1>4. CASE Reserve(r)
  BY <1>0, <1>4, ReserveKeeps
<1>5. CASE IntegrityError(r)
  BY <1>0, <1>5, FailKeeps DEF IntegrityError
<1>6. CASE DeadlockVictim(r)
  BY <1>0, <1>6, FailKeeps DEF DeadlockVictim
<1>7. CASE ValidationError(r)
  BY <1>0, <1>7, FailKeeps DEF ValidationError
<1>8. CASE Commit(r)
  BY <1>0, <1>8, CommitKeeps
<1>9. CASE SendThenCommit(r)
  <2>1. req' = [req EXCEPT ![r].pc = "commit", ![r].locked = req[r].locked]
    BY <1>9, <1>d DEF SendThenCommit
  <2>2. TokenHasAccount'
    BY <1>9 DEF SendThenCommit, TokenHasAccount
  <2> QED
    BY <1>9, <1>a, <1>b, <2>1, <2>2 DEF SendThenCommit, Running
<1>10. CASE Send(r)
  <2>1. IssuedTo(r) \subseteq {i \in UserIds : Committed(i)}
    BY <1>0, <1>10 DEF Send, IssuedTo, AccountInv, RepliesHaveAccount, Request
  <2>2. TokenHasAccount'
    BY <1>10, <2>1 DEF Send, AccountInv, TokenHasAccount, Committed
  <2> QED
    BY <1>0, <1>10, <2>2, ClearKeeps DEF Send
<1> QED
  BY <1>1, <1>2, <1>3, <1>4, <1>5, <1>6, <1>7, <1>8, <1>9, <1>10 DEF Progress

(* The administrator suspends an account.                                     *)
LEMMA SuspendKeeps ==
  ASSUME AccountInv, TypeInv', NEW i \in UserIds, Suspend(i)
  PROVE  AccountInv'
<1>1. users[i] \in User /\ users \in [UserIds -> User \union {None}]
  BY LiveType DEF AccountInv, TypeInv, TypeOK, Suspend
<1> DEFINE row == [users[i] EXCEPT !.active = FALSE]
<1>2. /\ row \in User /\ row # None /\ row.active = FALSE
      /\ \A c \in Keys : row[c] = users[i][c]
  BY <1>1, RowAssumption DEF User, Keys
<1>3. /\ users'[i] = row /\ \A j \in UserIds \ {i} : users'[j] = users[j]
      /\ UNCHANGED <<req, tokens>> /\ Committed(i)
  BY <1>1 DEF Suspend, Live, Committed
<1> HIDE DEF row
<1>4. \A j \in UserIds : /\ Committed(j)' <=> Committed(j)
                         /\ ~users[j].active => ~users'[j].active
                         /\ \A c \in Keys : users'[j][c] = users[j][c]
  BY <1>2, <1>3 DEF Committed
<1>5. UniqueKeys'
  BY <1>4 DEF AccountInv, UniqueKeys, Committed
<1>6. ReservedKeysExclusive'
  <2>1. \A r \in Requests : req[r].held \subseteq Keys
    BY DEF AccountInv, TypeInv, TypeOK, Request
  <2> QED
    BY <1>3, <1>4, <2>1 DEF AccountInv, ReservedKeysExclusive, Committed
<1>7. \A r \in Requests : Running(r) => req[r].id \in UserIds
  BY DEF AccountInv, TypeInv, RowsHeld, Running
<1>8. FreshRows'
  BY <1>3, <1>4, <1>7 DEF AccountInv, FreshRows, Running, Committed
<1>9. StaleWrites'
  BY <1>3, <1>4, <1>7 DEF AccountInv, StaleWrites, Running, Committed
<1>10. DeletedInactive'
  BY <1>2, <1>3 DEF AccountInv, DeletedInactive, Committed
<1>11. RepliesHaveAccount'
  <2>1. \A r \in Requests : req[r].id # None => req[r].id \in UserIds
    BY DEF AccountInv, TypeInv, TypeOK, Request
  <2> QED
    BY <1>3, <1>4, <2>1 DEF AccountInv, RepliesHaveAccount, Committed
<1>12. TokenHasAccount'
  BY <1>3, <1>4 DEF AccountInv, TokenHasAccount, TypeInv, TypeOK, Committed
<1>13. EmailIndexed'
  BY <1>3 DEF AccountInv, EmailIndexed
<1> QED
  BY <1>5, <1>6, <1>8, <1>9, <1>10, <1>11, <1>12, <1>13 DEF AccountInv

(* Every step keeps the invariant.                                            *)
LEMMA AccountNext == AccountInv /\ [Next]_vars => AccountInv'
<1> SUFFICES ASSUME AccountInv, [Next]_vars PROVE AccountInv'
  OBVIOUS
<1>0. TypeInv'
  BY TypeNext DEF AccountInv
<1>1. ASSUME NEW r \in Requests, Drop(r) PROVE AccountInv'
  BY <1>0, <1>1, ClearKeeps DEF Drop, AccountInv, TokenHasAccount
<1>2. CASE UNCHANGED vars
  BY <1>0, <1>2 DEF vars, AccountInv, UniqueKeys, ReservedKeysExclusive, FreshRows,
       EmailIndexed, StaleWrites, DeletedInactive, RepliesHaveAccount, TokenHasAccount, Running,
       Committed
<1> QED
  BY <1>0, <1>1, <1>2, ArriveKeeps, ProgressKeeps, SuspendKeeps DEF Next

(* No account and no request.                                                 *)
LEMMA AccountInit == Init => AccountInv
BY TypeInit DEF Init, Blank, AccountInv, UniqueKeys, ReservedKeysExclusive, FreshRows,
     EmailIndexed, StaleWrites, DeletedInactive, RepliesHaveAccount, TokenHasAccount, Running,
     Committed

(* The invariant of Accounts.                                                 *)
LEMMA AccountInvariant == Spec => []AccountInv
BY AccountInit, AccountNext, PTL DEF Spec

(* No two committed accounts ever share an email or a uid, for any number of  *)
(* concurrent requests and either order of commit and reply.                  *)
THEOREM KeysUnique == Spec => []UniqueKeys
<1>1. AccountInv => UniqueKeys
  BY DEF AccountInv
<1> QED
  BY <1>1, AccountInvariant, PTL

(* A key a running request has reserved is nobody else's.                     *)
THEOREM ReservationsExclusive == Spec => []ReservedKeysExclusive
<1>1. AccountInv => ReservedKeysExclusive
  BY DEF AccountInv
<1> QED
  BY <1>1, AccountInvariant, PTL

(* When get_db commits before the reply, a token's account is in the table.   *)
THEOREM TokensBacked == Spec => []TokenHasAccount
<1>1. AccountInv => TokenHasAccount
  BY DEF AccountInv
<1> QED
  BY <1>1, AccountInvariant, PTL

-----------------------------------------------------------------------------
(* Deletion and suspension are one-way.                                       *)
(* Arrivals, and every step of a request but its commit, leave the table be.  *)
LEMMA OnlyCommitWrites ==
  ASSUME NEW r \in Requests, Arrive(r) \/ Progress(r) \/ Drop(r)
  PROVE  users' = users \/ Commit(r)
BY DEF Arrive, Progress, Drop, Register, Login, LoginWithFirebase, Refresh, GetMe,
       UpdateMe, RequestReset, ConfirmReset, ChangePassword, DeleteMe, FindForUpdate,
       FindForFirebase, Lock, Reserve, IntegrityError, DeadlockVictim,
       ValidationError, SendThenCommit, Send

OneWay(i) ==
  Committed(i) => /\ Committed(i)'
                  /\ ~users[i].active => ~users'[i].active
                  /\ users[i].deleted => users'[i].deleted

(* No commit reopens or reactivates an account.                               *)
LEMMA CommitOneWay ==
  ASSUME AccountInv, NEW r \in Requests, Commit(r)
  PROVE  \A i \in UserIds : OneWay(i)
<1> DEFINE id == req[r].id
           merged == Merged(users[id], req[r].row, req[r].dirty)
<1>1. /\ users \in [UserIds -> User \union {None}]
      /\ Running(r) /\ id \in UserIds /\ req[r].row \in User
  BY DEF AccountInv, TypeInv, TypeOK, RowsHeld, Commit, CommitPc, Running
<1>2. merged \in User /\ merged # None
  BY <1>1, MergedType, RowAssumption
<1>3. users'[id] = merged /\ \A i \in UserIds \ {id} : users'[i] = users[i]
  BY <1>1 DEF Commit
<1>4. Committed(id) => /\ ~users[id].active => ~merged.active
                       /\ users[id].deleted => merged.deleted
  BY <1>1 DEF Merged, AccountInv, StaleWrites, Committed
<1> HIDE DEF merged, id
<1>5. ASSUME NEW i \in UserIds, i = id PROVE OneWay(i)
  BY <1>2, <1>3, <1>4, <1>5 DEF OneWay, Committed
<1>6. \A i \in UserIds \ {id} : OneWay(i)
  BY <1>3 DEF OneWay, Committed
<1> QED
  BY <1>5, <1>6

(* Nor does any other step.                                                   *)
LEMMA NextOneWay ==
  ASSUME AccountInv, [Next]_vars
  PROVE  \A i \in UserIds : OneWay(i)
<1>1. CASE users' = users
  BY <1>1 DEF OneWay, Committed
<1>2. ASSUME NEW r \in Requests, Commit(r) PROVE \A i \in UserIds : OneWay(i)
  BY <1>2, CommitOneWay
<1>3. ASSUME NEW j \in UserIds, Suspend(j) PROVE \A i \in UserIds : OneWay(i)
  <2>1. users[j] \in User /\ users \in [UserIds -> User \union {None}]
    BY <1>3, LiveType DEF AccountInv, TypeInv, TypeOK, Suspend
  <2> DEFINE row == [users[j] EXCEPT !.active = FALSE]
  <2>2. row \in User /\ row # None /\ row.active = FALSE /\ row.deleted = users[j].deleted
    BY <2>1, RowAssumption DEF User
  <2>3. users'[j] = row /\ \A i \in UserIds \ {j} : users'[i] = users[i]
    BY <1>3, <2>1 DEF Suspend
  <2> HIDE DEF row
  <2> QED
    BY <2>2, <2>3 DEF OneWay, Committed
<1> QED
  BY <1>1, <1>2, <1>3, OnlyCommitWrites DEF Next, vars

(* No request, however old the row it loaded, revives a deleted account.      *)
THEOREM DeletionFinal == Spec => DeletedForever
<1>1. AccountInv /\ AccountInv' /\ [Next]_vars =>
        \A i \in UserIds : users[i] # None /\ users[i].deleted =>
          users'[i] # None /\ users'[i].deleted /\ ~users'[i].active
  BY NextOneWay DEF OneWay, Committed, AccountInv, DeletedInactive
<1>2. AccountInv /\ AccountInv' /\ [Next]_vars =>
        [\A i \in UserIds : users[i] # None /\ users[i].deleted =>
           users'[i] # None /\ users'[i].deleted /\ ~users'[i].active]_vars
  BY <1>1
<1> QED
  BY <1>2, AccountInvariant, PTL DEF Spec, DeletedForever

(* No request writes is_active back to an account that was suspended after it *)
(* loaded the row.                                                            *)
THEOREM SuspensionFinal == Spec => SuspensionSticks
<1>1. AccountInv /\ [Next]_vars =>
        [\A i \in UserIds :
           users[i] # None /\ ~users[i].active => ~users'[i].active]_vars
  BY NextOneWay DEF OneWay, Committed
<1> QED
  BY <1>1, AccountInvariant, PTL DEF Spec, SuspensionSticks
=============================================================================
