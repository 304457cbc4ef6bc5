----------------------------- MODULE WritesProofs -----------------------------
(* What a commit of Accounts can do to a row that others changed since the    *)
(* request loaded it, and what only such overlaps can break, for every value  *)
(* of the constants.                                                          *)
EXTENDS WaitsProofs

(* What a running request's session may hold for an account that is in the    *)
(* table, however it has changed since: only columns its handler assigns, a   *)
(* verified flag that is FALSE, and a new address only for a row that the     *)
(* commit leaves unverified or deletes.                                       *)
SoundWrite(op, i, row, dirty) ==
  Committed(i) =>
    /\ dirty \subseteq Assigned(op)
    /\ "verified" \in dirty => ~row.verified
    /\ "email" \in dirty =>
         \/ "deleted" \in dirty /\ row.deleted
         \/ ~row.verified /\ ("verified" \in dirty \/ ~users[i].verified)

SoundWrites ==
  \A r \in Requests :
    Running(r) => SoundWrite(req[r].op, req[r].id, req[r].row, req[r].dirty)

WriteInv == AccountInv /\ SoundWrites

-----------------------------------------------------------------------------
(* How the building blocks keep the invariant.                                *)
(* A step of one slot that leaves the table be.                               *)
LEMMA SlotKeeps ==
  ASSUME WriteInv, NEW r \in Requests, users' = users,
         \A o \in Requests \ {r} : req'[o] = req[o],
         Running(r)' => SoundWrite(req'[r].op, req'[r].id, req'[r].row, req'[r].dirty)
  PROVE  SoundWrites'
<1> SUFFICES ASSUME NEW q \in Requests, Running(q)'
             PROVE  SoundWrite(req[q].op, req[q].id, req[q].row, req[q].dirty)'
  BY DEF SoundWrites
<1>1. CASE q = r
  BY <1>1 DEF SoundWrite, Committed
<1>2. CASE q # r
  <2>1. req'[q] = req[q] /\ Running(q)
    BY <1>2 DEF Running
  <2> QED
    BY <2>1 DEF WriteInv, SoundWrites, SoundWrite, Committed
<1> QED
  BY <1>1, <1>2

(* A handler that goes on with a sound write.                                 *)
LEMMA ProceedSound ==
  ASSUME WriteInv, NEW r \in Requests, NEW op, NEW pc, NEW i, NEW row, NEW dirty,
         SoundWrite(op, i, row, dirty), Proceed(r, op, pc, i, row, dirty),
         users' = users
  PROVE  SoundWrites'
<1> DEFINE new == [pc |-> pc, op |-> op, id |-> i, row |-> row, dirty |-> dirty,
                   locked |-> FALSE, held |-> {}, code |-> 0]
<1>1. req' = [req EXCEPT ![r] = new]
  BY DEF Proceed
<1>2. req'[r] = new /\ \A o \in Requests \ {r} : req'[o] = req[o]
  BY <1>1, OthersKept DEF AccountInv, WriteInv
<1>3. new.op = op /\ new.id = i /\ new.row = row /\ new.dirty = dirty
  OBVIOUS
<1> HIDE DEF new
<1> QED
  BY <1>2, <1>3, SlotKeeps

(* An answer: the slot writes nothing any more.                               *)
LEMMA RespondSound ==
  ASSUME WriteInv, NEW r \in Requests, NEW op, NEW i, NEW code,
         Respond(r, op, i, code), users' = users
  PROVE  SoundWrites'
<1> DEFINE new == [Blank EXCEPT !.pc = "reply", !.op = op, !.id = i, !.code = code]
<1>1. new.pc = "reply"
  BY DEF Blank
<1>2. req'[r] = new /\ \A o \in Requests \ {r} : req'[o] = req[o]
  BY OthersKept DEF Respond, AccountInv, WriteInv
<1> HIDE DEF new
<1>3. ~Running(r)'
  BY <1>1, <1>2 DEF Running
<1> QED
  BY <1>2, <1>3, SlotKeeps

(* A slot that becomes free.                                                  *)
LEMMA ClearSound ==
  ASSUME WriteInv, NEW r \in Requests, req' = [req EXCEPT ![r] = Blank], users' = users
  PROVE  SoundWrites'
<1>1. req'[r] = Blank /\ \A o \in Requests \ {r} : req'[o] = req[o]
  BY OthersKept DEF AccountInv, WriteInv
<1>2. ~Running(r)'
  BY <1>1 DEF Running, Blank
<1> QED
  BY <1>1, <1>2, SlotKeeps

(* A handler that raises.                                                     *)
LEMMA FailSound ==
  ASSUME WriteInv, NEW r \in Requests, NEW code, Fail(r, code), users' = users
  PROVE  SoundWrites'
BY ClearSound, RespondSound DEF Fail

(* A step that changes no more than where the handler stands and what it has  *)
(* locked or reserved.                                                        *)
LEMMA StepSound ==
  ASSUME WriteInv, NEW r \in Requests, Running(r), users' = users,
         \A o \in Requests \ {r} : req'[o] = req[o],
         req'[r].op = req[r].op, req'[r].id = req[r].id,
         req'[r].row = req[r].row, req'[r].dirty = req[r].dirty
  PROVE  SoundWrites'
<1>1. SoundWrite(req[r].op, req[r].id, req[r].row, req[r].dirty)
  BY DEF WriteInv, SoundWrites
<1>2. SoundWrite(req'[r].op, req'[r].id, req'[r].row, req'[r].dirty)
  BY <1>1
<1> QED
  BY <1>2, SlotKeeps

-----------------------------------------------------------------------------
(* Every handler starts with a sound write, or with a row that is not in the  *)
(* table yet.                                                                 *)
LEMMA ArriveSound ==
  ASSUME WriteInv, NEW r \in Requests, Arrive(r)
  PROVE  SoundWrites'
<1>0. /\ TypeInv
      /\ FreshIds \subseteq UserIds /\ tokens \subseteq UserIds /\ resets \subseteq UserIds
      /\ \A c, v : \A i \in LiveWith(c, v) : i \in UserIds /\ Live(i)
  BY DEF WriteInv, AccountInv, TypeInv, TypeOK, FreshIds, LiveWith
<1>a. \A i, row, op : SoundWrite(op, i, row, {})
  BY DEF SoundWrite
<1>b. \A i, row, op : op \in {"reset_confirm", "change_password"}
        => SoundWrite(op, i, row, {"password"})
  BY DEF SoundWrite, Assigned
<1>c. \A i \in FreshIds : \A op, row, dirty : SoundWrite(op, i, row, dirty)
  BY DEF SoundWrite, FreshIds, Committed
<1>1. CASE Register(r)
  <2>1. users' = users
    BY <1>1 DEF Register
  <2>2. \/ Respond(r, "register", None, 409)
        \/ \E i \in FreshIds : \E row, pc : Proceed(r, "register", pc, i, row, Columns)
    BY <1>1 DEF Register
  <2> QED
    BY <2>1, <2>2, <1>c, ProceedSound, RespondSound
<1>2. CASE Login(r)
  BY <1>0, <1>2, <1>a, ProceedSound, RespondSound DEF Login
<1>3. CASE LoginWithFirebase(r)
  <2>1. users' = users
    BY <1>3 DEF LoginWithFirebase
  <2>2. \/ \E i, row, pc : Proceed(r, "firebase", pc, i, row, {})
        \/ Respond(r, "firebase", None, 401)
        \/ \E i \in FreshIds : \E row, pc : Proceed(r, "firebase", pc, i, row, Columns)
    BY <1>3 DEF LoginWithFirebase
  <2> QED
    BY <2>1, <2>2, <1>a, <1>c, ProceedSound, RespondSound
<1>4. CASE Refresh(r)
  BY <1>4, RespondSound DEF Refresh
<1>5. CASE GetMe(r)
  BY <1>5, RespondSound DEF GetMe
<1>6. CASE UpdateMe(r)
  <2>1. users' = users
    BY <1>6 DEF UpdateMe
  <2>2. PICK i \in tokens :
          \/ Respond(r, "update_me", None, 404)
          \/ Respond(r, "update_me", None, 500)
          \/ /\ Live(i)
             /\ \E e, n, pc :
                  Proceed(r, "update_me", pc, i, Patched(users[i], e, n),
                          Changed(users[i], Patched(users[i], e, n)))
    BY <1>6 DEF UpdateMe
  <2>3. ASSUME NEW e, NEW n, Live(i)
        PROVE  SoundWrite("update_me", i, Patched(users[i], e, n),
                          Changed(users[i], Patched(users[i], e, n)))
    <3> DEFINE row == Patched(users[i], e, n)
    <3>1. users[i] \in User
      BY <1>0, <2>3, LiveType DEF TypeInv
    <3>2. /\ \A c \in Columns \ {"email", "name", "verified"} : row[c] = users[i][c]
          /\ row.verified => users[i].verified
          /\ row.email # users[i].email => ~row.verified
          /\ ~row.verified /\ ~users[i].verified => row.verified = users[i].verified
      BY <3>1 DEF Patched, User, Columns
    <3>3. "verified" \in Columns /\ users[i].verified \in BOOLEAN
      BY <3>1 DEF Columns, User
    <3> HIDE DEF row
    <3> DEFINE dirty == Changed(users[i], row)
    <3>4. dirty \subseteq Assigned("update_me")
      BY <3>2 DEF Changed, Assigned
    <3>5. "verified" \in dirty => ~row.verified
      BY <3>2, <3>3 DEF Changed
    <3>6. "email" \in dirty => ~row.verified /\ ("verified" \in dirty \/ ~users[i].verified)
      BY <3>2, <3>3 DEF Changed
    <3> HIDE DEF dirty
    <3>7. SoundWrite("update_me", i, row, dirty)
      BY <3>4, <3>5, <3>6 DEF SoundWrite
    <3> QED
      BY <3>7 DEF row, dirty
  <2> QED
    BY <2>1, <2>2, <2>3, ProceedSound, RespondSound
<1>7. CASE RequestReset(r)
  BY <1>7, RespondSound DEF RequestReset
<1>8. CASE ConfirmReset(r)
  BY <1>8, <1>b, ProceedSound, RespondSound DEF ConfirmReset
<1>9. CASE ChangePassword(r)
  BY <1>9, <1>b, ProceedSound, RespondSound DEF ChangePassword
<1>10. CASE DeleteMe(r)
  <2>1. ASSUME NEW i \in UserIds, Live(i)
        PROVE  SoundWrite("delete_me", i, Anonymised(i), Changed(users[i], Anonymised(i)))
    <3>1. users[i] \in User
      BY <1>0, <2>1, LiveType DEF TypeInv
    <3>2. Anonymised(i).deleted = TRUE /\ Anonymised(i).verified = users[i].verified
      BY <3>1 DEF Anonymised, User
    <3>3. users[i].deleted = FALSE
      BY <2>1, <3>1 DEF Live, User
    <3> QED
      BY <3>2, <3>3 DEF SoundWrite, Assigned, Changed, Columns
  <2> QED
    BY <1>0, <1>10, <2>1, ProceedSound, RespondSound DEF DeleteMe
<1> QED
  BY <1>1, <1>2, <1>3, <1>4, <1>5, <1>6, <1>7, <1>8, <1>9, <1>10 DEF Arrive

(* Linking assigns the uid only.                                              *)
LEMMA FindForFirebaseSound ==
  ASSUME WriteInv, NEW r \in Requests, FindForFirebase(r)
  PROVE  SoundWrites'
<1>0. TypeInv /\ req \in [Requests -> Request] /\ users' = users
  BY DEF WriteInv, AccountInv, TypeInv, TypeOK, FindForFirebase
<1>1. CASE req' = [req EXCEPT ![r].pc = "insert"]
  <2>1. /\ req'[r].op = req[r].op /\ req'[r].id = req[r].id
        /\ req'[r].row = req[r].row /\ req'[r].dirty = req[r].dirty
        /\ \A o \in Requests \ {r} : req'[o] = req[o]
    BY <1>0, <1>1 DEF Request
  <2>2. Running(r)
    BY DEF FindForFirebase, Running
  <2> QED
    BY <1>0, <2>1, <2>2, StepSound
<1>2. CASE Fail(r, 401)
  BY <1>0, <1>2, FailSound
<1>3. ASSUME NEW i \in LiveWith("email", req[r].row.email),
             Proceed(r, "firebase", "write", i,
                     [users[i] EXCEPT !.uid = req[r].row.uid],
                     Changed(users[i], [users[i] EXCEPT !.uid = req[r].row.uid]))
      PROVE  SoundWrites'
  <2> DEFINE linked == [users[i] EXCEPT !.uid = req[r].row.uid]
  <2>1. users[i] \in User
    BY <1>0, LiveType DEF LiveWith, TypeInv
  <2>2. \A c \in Columns \ {"uid"} : linked[c] = users[i][c]
    BY <2>1 DEF Columns, User
  <2>3. Proceed(r, "firebase", "write", i, linked, Changed(users[i], linked))
    BY <1>3
  <2> HIDE DEF linked
  <2>4. Changed(users[i], linked) \subseteq {"uid"}
    BY <2>2 DEF Changed
  <2>5. SoundWrite("firebase", i, linked, Changed(users[i], linked))
    BY <2>4 DEF SoundWrite, Assigned
  <2> QED
    BY <1>0, <2>3, <2>5, ProceedSound
<1> QED
  BY <1>1, <1>2, <1>3 DEF FindForFirebase

(* A commit ends its own request; for every other request on the row, a flag  *)
(* that was FALSE still is.                                                   *)
LEMMA CommitSound ==
  ASSUME WriteInv, NEW r \in Requests, Commit(r)
  PROVE  SoundWrites'
<1>1. /\ users \in [UserIds -> User \union {None}] /\ req \in [Requests -> Request]
      /\ Running(r) /\ req[r].id \in UserIds /\ req[r].row \in User
      /\ AccountInv /\ SoundWrites
  BY DEF WriteInv, AccountInv, TypeInv, TypeOK, RowsHeld, Commit, CommitPc, Running
<1>2. PICK id \in UserIds : id = req[r].id
  BY <1>1
<1> DEFINE merged == Merged(users[id], req[r].row, req[r].dirty)
<1>3. users'[id] = merged /\ \A i \in UserIds \ {id} : users'[i] = users[i]
  BY <1>1, <1>2 DEF Commit
<1>4. Committed(id) /\ ~users[id].verified => ~merged.verified
  BY <1>1, <1>2 DEF SoundWrites, SoundWrite, Committed, Merged
<1> HIDE DEF merged
<1>5. ~Running(r)' /\ \A o \in Requests \ {r} : req'[o] = req[o]
  <2>1. CASE req' = [req EXCEPT ![r] = Blank]
    BY <1>1, <2>1 DEF Blank, Running
  <2>2. CASE Respond(r, req[r].op, req[r].id, SuccessCode(req[r].op))
    BY <1>1, <2>2 DEF Respond, Blank, Running
  <2> QED
    BY <2>1, <2>2 DEF Commit
<1> SUFFICES ASSUME NEW q \in Requests, Running(q)'
             PROVE  SoundWrite(req[q].op, req[q].id, req[q].row, req[q].dirty)'
  BY DEF SoundWrites
<1>6. q # r /\ req'[q] = req[q] /\ Running(q)
  BY <1>5 DEF Running
<1>7. PICK i \in UserIds : i = req[q].id
  BY <1>1, <1>6 DEF AccountInv, TypeInv, RowsHeld, Running
<1>8. Committed(i)' => Committed(i)
  <2>1. CASE i = id
    BY <1>1, <1>2, <1>6, <1>7, <2>1 DEF AccountInv, FreshRows
  <2>2. CASE i # id
    BY <1>3, <2>2 DEF Committed
  <2> QED
    BY <2>1, <2>2
<1>9. Committed(i) /\ ~users[i].verified => ~users'[i].verified
  BY <1>3, <1>4
<1>10. SoundWrite(req[q].op, i, req[q].row, req[q].dirty)
  BY <1>1, <1>6, <1>7 DEF SoundWrites
<1> QED
  BY <1>6, <1>7, <1>8, <1>9, <1>10 DEF SoundWrite, Committed

(* Suspending an account clears is_active only.                               *)
LEMMA SuspendSound ==
  ASSUME WriteInv, NEW i \in UserIds, Suspend(i)
  PROVE  SoundWrites'
<1>1. users[i] \in User /\ users \in [UserIds -> User \union {None}]
  BY LiveType DEF WriteInv, AccountInv, TypeInv, TypeOK, Suspend
<1> DEFINE row == [users[i] EXCEPT !.active = FALSE]
<1>2. row.verified = users[i].verified
  BY <1>1 DEF User
<1>3. /\ users'[i] = row /\ \A j \in UserIds \ {i} : users'[j] = users[j]
      /\ req' = req /\ Committed(i)
  BY <1>1 DEF Suspend, Live, Committed
<1> HIDE DEF row
<1> SUFFICES ASSUME NEW q \in Requests, Running(q)'
             PROVE  SoundWrite(req[q].op, req[q].id, req[q].row, req[q].dirty)'
  BY DEF SoundWrites
<1>4. Running(q)
  BY <1>3 DEF Running
<1>5. PICK j \in UserIds : j = req[q].id
  BY <1>4 DEF WriteInv, AccountInv, TypeInv, RowsHeld, Running
<1>6. (Committed(j)' => Committed(j)) /\ (Committed(j) => users'[j].verified = users[j].verified)
  BY <1>2, <1>3 DEF Committed
<1>7. SoundWrite(req[q].op, j, req[q].row, req[q].dirty)
  BY <1>4, <1>5 DEF WriteInv, SoundWrites
<1> QED
  BY <1>3, <1>5, <1>6, <1>7 DEF SoundWrite, Committed

(* The steps of a running handler.                                            *)
LEMMA ProgressSound ==
  ASSUME WriteInv, NEW r \in Requests, Progress(r)
  PROVE  SoundWrites'
<1>0. req \in [Requests -> Request]
  BY DEF WriteInv, AccountInv, TypeInv, TypeOK
<1>a. ASSUME NEW pc, NEW locked, NEW held, Running(r), users' = users,
             \/ req' = [req EXCEPT ![r].pc = pc]
             \/ req' = [req EXCEPT ![r].locked = locked, ![r].pc = pc]
             \/ req' = [req EXCEPT ![r].pc = pc, ![r].locked = locked, ![r].held = held]
      PROVE  SoundWrites'
  <2>1. /\ req'[r].op = req[r].op /\ req'[r].id = req[r].id
        /\ req'[r].row = req[r].row /\ req'[r].dirty = req[r].dirty
        /\ \A o \in Requests \ {r} : req'[o] = req[o]
    BY <1>0, <1>a DEF Request
  <2> QED
    BY <1>a, <2>1, StepSound
<1>1. CASE FindForUpdate(r)
  BY <1>1, <1>a, FailSound DEF FindForUpdate, Running
<1>2. CASE FindForFirebase(r)
  BY <1>2, FindForFirebaseSound
<1>3. CASE Lock(r)
  BY <1>3, <1>a DEF Lock, Running
<1>4. CASE Reserve(r)
  BY <1>4, <1>a DEF Reserve, Running
<1>5. CASE IntegrityError(r) \/ DeadlockVictim(r) \/ ValidationError(r)
  BY <1>5, FailSound DEF IntegrityError, DeadlockVictim, ValidationError
<1>6. CASE Commit(r)
  BY <1>6, CommitSound
<1>7. CASE SendThenCommit(r)
  BY <1>7, <1>a DEF SendThenCommit, Running
<1>8. CASE Send(r)
  BY <1>8, ClearSound DEF Send
<1> QED
  BY <1>1, <1>2, <1>3, <1>4, <1>5, <1>6, <1>7, <1>8 DEF Progress

(* Every step keeps the invariant.                                            *)
LEMMA WriteNext == WriteInv /\ [Next]_vars => WriteInv'
<1> SUFFICES ASSUME WriteInv, [Next]_vars PROVE WriteInv'
  OBVIOUS
<1>1. AccountInv'
  BY AccountNext DEF WriteInv
<1>2. ASSUME NEW r \in Requests, Drop(r) PROVE SoundWrites'
  BY <1>2, ClearSound DEF Drop
<1>3. ASSUME UNCHANGED vars PROVE SoundWrites'
  <2>1. req' = req /\ users' = users
    BY <1>3 DEF vars
  <2> QED
    BY <2>1 DEF WriteInv, SoundWrites, SoundWrite, Running, Committed
<1>4. SoundWrites'
  BY <1>2, <1>3, ArriveSound, ProgressSound, SuspendSound DEF Next
<1> QED
  BY <1>1, <1>4 DEF WriteInv

(* The strengthened invariant of Accounts.                                    *)
LEMMA WriteInvariant == Spec => []WriteInv
<1>1. Init => WriteInv
  BY AccountInit DEF Init, Blank, WriteInv, SoundWrites, Running
<1> QED
  BY <1>1, WriteNext, PTL DEF Spec

-----------------------------------------------------------------------------
(* A request that leaves the point of its commit has committed, or the table  *)
(* is as it was.                                                              *)
LEMMA LeavesByCommit ==
  ASSUME TypeInv, [Next]_vars, NEW r \in Requests,
         req[r].pc = CommitPc, req'[r].pc # CommitPc
  PROVE  users' = users \/ Commit(r)
<1>1. ASSUME NEW o \in Requests, Commit(o) PROVE Commit(r)
  <2>1. o # r => req'[r] = req[r]
    BY <1>1 DEF Commit, Respond, TypeInv, TypeOK
  <2> QED
    BY <1>1, <2>1
<1>2. ASSUME NEW i \in UserIds, Suspend(i) PROVE FALSE
  BY <1>2 DEF Suspend
<1> QED
  BY <1>1, <1>2, OnlyCommitWrites DEF Next, vars

(* A column that is not written keeps its value.                              *)
LEMMA MergedKeeps ==
  ASSUME NEW old, old # None, NEW new, NEW dirty, NEW c \in Columns \ dirty
  PROVE  Merged(old, new, dirty)[c] = old[c]
BY DEF Merged, Columns

(* A commit changes no column its handler does not assign, however many       *)
(* commits of other requests went to the row since this one loaded it.        *)
THEOREM NoLostUpdate == Spec => NoStaleOverwrite
<1>1. ASSUME WriteInv, [Next]_vars, NEW r \in Requests,
             req[r].pc = CommitPc, req'[r].pc # CommitPc, users[req[r].id] # None,
             NEW c \in Columns \ Assigned(req[r].op)
      PROVE  users'[req[r].id][c] = users[req[r].id][c]
  <2>1. CASE users' = users
    BY <2>1
  <2>2. CASE Commit(r)
    <3>1. /\ users \in [UserIds -> User \union {None}]
          /\ Running(r) /\ req[r].id \in UserIds
      BY <1>1, <2>2 DEF WriteInv, AccountInv, TypeInv, TypeOK, RowsHeld, Commit, CommitPc,
           Running
    <3>2. c \notin req[r].dirty
      BY <1>1, <3>1 DEF WriteInv, SoundWrites, SoundWrite, Committed
    <3> QED
      BY <1>1, <2>2, <3>1, <3>2, MergedKeeps DEF Commit
  <2> QED
    BY <1>1, <2>1, <2>2, LeavesByCommit DEF WriteInv, AccountInv
<1>2. WriteInv /\ [Next]_vars =>
        [\A r \in Requests :
           LET i == req[r].id
           IN (req[r].pc = CommitPc /\ req'[r].pc # CommitPc /\ users[i] # None)
                => \A c \in Columns \ Assigned(req[r].op) : users'[i][c] = users[i][c]]_vars
  BY <1>1
<1> QED
  BY <1>2, WriteInvariant, PTL DEF Spec, NoStaleOverwrite

(* A live account whose address changes is unverified afterwards, whichever   *)
(* PATCH, login or deletion overlapped the one that changed it.               *)
THEOREM NewEmailIsUnverified == Spec => NewEmailUnverified
<1>1. ASSUME WriteInv, [Next]_vars, NEW i \in UserIds,
             Live(i), Live(i)', users'[i].email # users[i].email
      PROVE  ~users'[i].verified
  <2>1. PICK r \in Requests : Commit(r)
    <3>1. ASSUME NEW j \in UserIds, Suspend(j) PROVE FALSE
      <4>1. users[j] \in User /\ users \in [UserIds -> User \union {None}]
        BY <1>1, <3>1, LiveType DEF WriteInv, AccountInv, TypeInv, TypeOK, Suspend
      <4> DEFINE row == [users[j] EXCEPT !.active = FALSE]
      <4>2. row.email = users[j].email
        BY <4>1 DEF User
      <4>3. users'[j] = row /\ \A k \in UserIds \ {j} : users'[k] = users[k]
        BY <3>1, <4>1 DEF Suspend
      <4> HIDE DEF row
      <4> QED
        BY <1>1, <4>2, <4>3
    <3> QED
      BY <1>1, <3>1, OnlyCommitWrites DEF Next, vars
  <2>2. /\ users \in [UserIds -> User \union {None}]
        /\ Running(r) /\ req[r].id \in UserIds
    BY <1>1, <2>1 DEF WriteInv, AccountInv, TypeInv, TypeOK, RowsHeld, Commit, CommitPc,
         Running
  <2>3. i = req[r].id /\ users'[i] = Merged(users[i], req[r].row, req[r].dirty)
    BY <1>1, <2>1, <2>2 DEF Commit
  <2>4. SoundWrite(req[r].op, i, req[r].row, req[r].dirty)
    BY <1>1, <2>2, <2>3 DEF WriteInv, SoundWrites
  <2> QED
    BY <1>1, <2>3, <2>4 DEF SoundWrite, Merged, Live, Committed
<1>2. WriteInv /\ [Next]_vars =>
        [\A i \in UserIds :
           (Live(i) /\ Live(i)' /\ users'[i].email # users[i].email)
             => ~users'[i].verified]_vars
  BY <1>1
<1> QED
  BY <1>2, WriteInvariant, PTL DEF Spec, NewEmailUnverified
-----------------------------------------------------------------------------
(* A deleted account whose requests have ended.                               *)
(* No slot but one that has its answer to send is about the account.          *)
LEMMA SlotSettles ==
  ASSUME TypeInv, NEW i \in UserIds, Settled(i), users'[i] = users[i],
         NEW r \in Requests, NEW q, req' = [req EXCEPT ![r] = q],
         q.id = i => q.pc = "reply"
  PROVE  Settled(i)'
<1>1. \A o \in Requests : req'[o] = IF o = r THEN q ELSE req[o]
  BY DEF TypeInv, TypeOK
<1>2. \A o \in Requests : req'[o].id = i => req'[o].pc = "reply"
  BY <1>1 DEF Settled
<1> QED
  BY <1>2 DEF Settled

(* Answers and slots that become free are about no account, or answered.      *)
LEMMA OverSettles ==
  ASSUME TypeInv, NEW i \in UserIds, Settled(i), users'[i] = users[i],
         NEW r \in Requests,
         \/ req' = [req EXCEPT ![r] = Blank]
         \/ \E op, j, code : Respond(r, op, j, code)
         \/ \E code : Fail(r, code)
  PROVE  Settled(i)'
<1>1. CASE req' = [req EXCEPT ![r] = Blank]
  <2>1. Blank.id # i
    BY NullFacts DEF Blank
  <2> QED
    BY <1>1, <2>1, SlotSettles
<1>2. ASSUME NEW op, NEW j, NEW code, Respond(r, op, j, code) PROVE Settled(i)'
  <2> DEFINE q == [Blank EXCEPT !.pc = "reply", !.op = op, !.id = j, !.code = code]
  <2>1. q.pc = "reply"
    BY DEF Blank
  <2>2. req' = [req EXCEPT ![r] = q]
    BY <1>2 DEF Respond
  <2> HIDE DEF q
  <2> QED
    BY <2>1, <2>2, SlotSettles
<1> QED
  BY <1>1, <1>2 DEF Fail

(* A handler goes on only with an account it found, or with a fresh one.      *)
LEMMA ProceedSettles ==
  ASSUME TypeInv, NEW i \in UserIds, Settled(i), users'[i] = users[i],
         NEW r \in Requests, NEW op, NEW pc, NEW j, NEW row, NEW dirty,
         Live(j) \/ j \in FreshIds, Proceed(r, op, pc, j, row, dirty)
  PROVE  Settled(i)'
<1> DEFINE q == [pc |-> pc, op |-> op, id |-> j, row |-> row, dirty |-> dirty,
                 locked |-> FALSE, held |-> {}, code |-> 0]
<1>1. q.id = j
  OBVIOUS
<1>2. j # i
  BY DEF Settled, Live, FreshIds
<1>3. req' = [req EXCEPT ![r] = q]
  BY DEF Proceed
<1> HIDE DEF q
<1> QED
  BY <1>1, <1>2, <1>3, SlotSettles

(* Arrivals: every SELECT passes over deleted rows.                           *)
LEMMA ArriveSettles ==
  ASSUME TypeInv, NEW i \in UserIds, Settled(i), NEW r \in Requests, Arrive(r)
  PROVE  Settled(i)' /\ users' = users
<1>1. users' = users
  BY DEF Arrive, Register, Login, LoginWithFirebase, Refresh, GetMe, UpdateMe,
     RequestReset, ConfirmReset, ChangePassword, DeleteMe
<1>2. CASE \E op, j, code : Respond(r, op, j, code)
  BY <1>1, <1>2, OverSettles
<1>3. CASE \E op, pc, j, row, dirty :
             (Live(j) \/ j \in FreshIds) /\ Proceed(r, op, pc, j, row, dirty)
  BY <1>1, <1>3, ProceedSettles
<1> QED
  BY <1>1, <1>2, <1>3, ArriveShape

(* Every other step of a request: one about the account has only its answer   *)
(* left to send.                                                              *)
LEMMA ProgressSettles ==
  ASSUME TypeInv, NEW i \in UserIds, Settled(i), NEW r \in Requests, Progress(r)
  PROVE  Settled(i)' /\ users'[i] = users[i]
<1>0. /\ req \in [Requests -> Request] /\ req[r] \in Request
      /\ req[r].id = i => req[r].pc = "reply"
      /\ users \in [UserIds -> User \union {None}]
  BY DEF TypeInv, TypeOK, Settled
<1>1. CASE FindForUpdate(r)
  <2>1. CASE req' = [req EXCEPT ![r].pc = "write"]
    BY <1>0, <1>1, <2>1, SlotSettles DEF FindForUpdate, Request
  <2> QED
    BY <1>1, <2>1, OverSettles DEF FindForUpdate
<1>2. CASE FindForFirebase(r)
  <2>1. CASE req' = [req EXCEPT ![r].pc = "insert"]
    BY <1>0, <1>2, <2>1, SlotSettles DEF FindForFirebase, Request
  <2>2. CASE \E code : Fail(r, code)
    BY <1>2, <2>2, OverSettles DEF FindForFirebase
  <2>3. CASE \E j, row, dirty : Live(j) /\ Proceed(r, "firebase", "write", j, row, dirty)
    BY <1>2, <2>3, ProceedSettles DEF FindForFirebase
  <2> QED
    BY <1>2, <2>1, <2>2, <2>3 DEF FindForFirebase, LiveWith
<1>3. CASE Lock(r)
  BY <1>0, <1>3 DEF Lock, Request, Settled
<1>4. CASE Reserve(r)
  BY <1>0, <1>4 DEF Reserve, Request, Settled
<1>5. CASE IntegrityError(r) \/ DeadlockVictim(r) \/ ValidationError(r)
  BY <1>5, OverSettles DEF IntegrityError, DeadlockVictim, ValidationError
<1>6. CASE Commit(r)
  <2>1. req[r].id # i
    BY <1>0, <1>6 DEF Commit, CommitPc
  <2>2. users'[i] = users[i]
    BY <1>0, <1>6, <2>1 DEF Commit
  <2>3. CASE ReplyFirst
    BY <1>6, <2>2, <2>3, OverSettles DEF Commit
  <2>4. CASE ~ReplyFirst
    BY <1>6, <2>2, <2>4, OverSettles DEF Commit
  <2> QED
    BY <2>2, <2>3, <2>4
<1>7. CASE SendThenCommit(r)
  BY <1>0, <1>7 DEF SendThenCommit, Request, Settled
<1>8. CASE Send(r)
  BY <1>8, OverSettles DEF Send
<1> QED
  BY <1>1, <1>2, <1>3, <1>4, <1>5, <1>6, <1>7, <1>8 DEF Progress

(* After a deletion, and the last of the requests that overlapped it, the row *)
(* of the account never changes again, in any column.                         *)
THEOREM DeletedRowsSettle == Spec => ErasureSettles
<1>1. ASSUME TypeInv, [Next]_vars, NEW i \in UserIds, Settled(i)
      PROVE  Settled(i)' /\ users'[i] = users[i]
  <2>1. CASE UNCHANGED vars
    BY <1>1, <2>1 DEF vars, Settled
  <2>2. ASSUME NEW r \in Requests, Drop(r) PROVE Settled(i)' /\ users'[i] = users[i]
    BY <1>1, <2>2, OverSettles DEF Drop
  <2>3. ASSUME NEW j \in UserIds, Suspend(j) PROVE Settled(i)' /\ users'[i] = users[i]
    <3>1. j # i /\ users'[i] = users[i] /\ req' = req
      BY <1>1, <2>3 DEF Suspend, Live, Settled, TypeInv, TypeOK
    <3> QED
      BY <1>1, <3>1 DEF Settled
  <2> QED
    BY <1>1, <2>1, <2>2, <2>3, ArriveSettles, ProgressSettles DEF Next
<1>2. TypeInv /\ [Next]_vars =>
        [\A i \in UserIds : Settled(i) => Settled(i)' /\ users'[i] = users[i]]_vars
  BY <1>1
<1> QED
  BY <1>2, TypeInit, TypeNext, PTL DEF Spec, ErasureSettles
-----------------------------------------------------------------------------
(* Writes of different columns.                                               *)
(* A commit leaves a row in the table.                                        *)
LEMMA MergedIsRow ==
  ASSUME NEW old \in User, NEW new \in User, NEW dirty
  PROVE  Merged(old, new, dirty) \in User
<1>1. old # None
  BY RowAssumption
<1> QED
  BY <1>1 DEF Merged, User

(* Two writes of different columns give the same row in either order.         *)
LEMMA MergedCommutes ==
  ASSUME NEW old \in User, NEW a \in User, NEW b \in User,
         NEW da, NEW db, da \intersect db = {}
  PROVE  Merged(Merged(old, a, da), b, db) = Merged(Merged(old, b, db), a, da)
<1>1. old # None
  BY RowAssumption
<1>2. Merged(old, a, da) # None /\ Merged(old, b, db) # None
  BY RowAssumption, MergedIsRow
<1> QED
  BY <1>1, <1>2 DEF Merged

(* Two requests whose handlers assign different columns of an account leave   *)
(* the same row whichever commits first.                                      *)
CommitsCommute ==
  \A r, o \in Requests :
    LET i == req[r].id
        After(row, q) == Merged(row, req[q].row, req[q].dirty)
    IN (/\ Running(r) /\ Running(o) /\ req[o].id = i /\ Committed(i)
        /\ Assigned(req[r].op) \intersect Assigned(req[o].op) = {})
         => After(After(users[i], r), o) = After(After(users[i], o), r)

(* A password change and a profile edit, or either and a login, commute: only *)
(* handlers that assign a column in common can see who was first.             *)
THEOREM WritesCommute == Spec => []CommitsCommute
<1>1. ASSUME WriteInv, NEW r \in Requests, NEW o \in Requests, Running(r), Running(o),
             req[o].id = req[r].id, Committed(req[r].id),
             Assigned(req[r].op) \intersect Assigned(req[o].op) = {}
      PROVE  Merged(Merged(users[req[r].id], req[r].row, req[r].dirty),
                    req[o].row, req[o].dirty)
             = Merged(Merged(users[req[r].id], req[o].row, req[o].dirty),
                      req[r].row, req[r].dirty)
  <2>1. /\ req[r].row \in User /\ req[o].row \in User
        /\ users[req[r].id] \in User
    BY <1>1 DEF WriteInv, AccountInv, TypeInv, TypeOK, RowsHeld, Running, Committed
  <2>2. req[r].dirty \intersect req[o].dirty = {}
    BY <1>1 DEF WriteInv, SoundWrites, SoundWrite
  <2> QED
    BY <2>1, <2>2, MergedCommutes
<1>2. WriteInv => CommitsCommute
  BY <1>1 DEF CommitsCommute
<1> QED
  BY <1>2, WriteInvariant, PTL

-----------------------------------------------------------------------------
(* Requests that do not overlap.                                              *)
Alone ==
  \A r, o \in Requests : r # o => req[r].pc = "idle" \/ req[o].pc = "idle"

Cleared(i, row) ==
  /\ row.email = AnonEmail(i)
  /\ row.password = None /\ row.uid = None /\ row.name = None

(* What a request knows is so: its row is the table's but for what it is      *)
(* about to write, and no row has the address it registers.                   *)
Current(q, table) ==
  /\ q.pc \notin {"idle", "reply"} =>
       /\ table[q.id] # None =>
            /\ ~table[q.id].deleted
            /\ \A c \in Columns \ (q.dirty \union {"active"}) : q.row[c] = table[q.id][c]
       /\ q.row.deleted => Cleared(q.id, q.row)
       /\ q.op = "register" =>
            /\ q.row.uid = None
            /\ \A i \in UserIds : table[i] # None => table[i].email # q.row.email
  /\ q.pc = "reply" /\ q.op = "register" => q.code \in {201, 409}

AloneInv ==
  /\ AccountInv /\ WaitInv
  /\ ClearedForGood
  /\ \A r \in Requests : Current(req[r], users)

(* A step that gives one slot the request q and leaves the table alone.       *)
LEMMA SlotCurrent ==
  ASSUME AloneInv, NEW r \in Requests, NEW q, req' = [req EXCEPT ![r] = q],
         UNCHANGED users, Current(q, users)
  PROVE  ClearedForGood' /\ \A o \in Requests : Current(req'[o], users')
<1>1. \A o \in Requests : req'[o] = IF o = r THEN q ELSE req[o]
  BY DEF AloneInv, WaitInv, TypeInv, TypeOK
<1> QED
  BY <1>1 DEF AloneInv, ClearedForGood, AnonEmail

(* A handler that goes on with a row it has just read, or with a new one.     *)
LEMMA ProceedCurrent ==
  ASSUME AloneInv, NEW r \in Requests, NEW op, NEW pc, NEW i \in UserIds,
         NEW row, NEW dirty, Proceed(r, op, pc, i, row, dirty), UNCHANGED users,
         pc # "reply",
         Live(i) => \A c \in Columns \ (dirty \union {"active"}) : row[c] = users[i][c],
         Live(i) \/ users[i] = None,
         row.deleted => Cleared(i, row),
         op = "register" =>
           /\ row.uid = None
           /\ \A j \in UserIds : users[j] # None => users[j].email # row.email
  PROVE  ClearedForGood' /\ \A o \in Requests : Current(req'[o], users')
<1> DEFINE q == [pc |-> pc, op |-> op, id |-> i, row |-> row, dirty |-> dirty,
                 locked |-> FALSE, held |-> {}, code |-> 0]
<1>1. q.pc = pc /\ q.op = op /\ q.id = i /\ q.row = row /\ q.dirty = dirty
  OBVIOUS
<1>2. req' = [req EXCEPT ![r] = q]
  BY DEF Proceed
<1> HIDE DEF q
<1>3. Current(q, users)
  BY <1>1 DEF Current, Live
<1> QED
  BY <1>2, <1>3, SlotCurrent

(* A handler that ends.                                                       *)
LEMMA RespondCurrent ==
  ASSUME AloneInv, NEW r \in Requests, NEW op, NEW i, NEW code, Respond(r, op, i, code),
         UNCHANGED users, op = "register" => code \in {201, 409}
  PROVE  ClearedForGood' /\ \A o \in Requests : Current(req'[o], users')
<1> DEFINE q == [Blank EXCEPT !.pc = "reply", !.op = op, !.id = i, !.code = code]
<1>1. q.pc = "reply" /\ q.op = op /\ q.code = code
  BY DEF Blank
<1>2. req' = [req EXCEPT ![r] = q]
  BY DEF Respond
<1> HIDE DEF q
<1>3. Current(q, users)
  BY <1>1 DEF Current
<1> QED
  BY <1>2, <1>3, SlotCurrent

(* The free slot.                                                             *)
LEMMA BlankCurrent == \A table : Current(Blank, table)
BY DEF Current, Blank

(* A handler that raises.                                                     *)
LEMMA FailCurrent ==
  ASSUME AloneInv, NEW r \in Requests, NEW code, Fail(r, code),
         UNCHANGED users, req[r].op = "register" => code \in {201, 409}
  PROVE  ClearedForGood' /\ \A o \in Requests : Current(req'[o], users')
BY RespondCurrent, SlotCurrent, BlankCurrent DEF Fail

(* A step on the way of a handler.                                            *)
LEMMA StepCurrent ==
  ASSUME AloneInv, NEW r \in Requests, req[r].pc \notin {"idle", "reply"},
         NEW q, req' = [req EXCEPT ![r] = q], UNCHANGED users, q.pc # "reply",
         q.op = req[r].op, q.id = req[r].id, q.row = req[r].row, q.dirty = req[r].dirty
  PROVE  ClearedForGood' /\ \A o \in Requests : Current(req'[o], users')
<1>1. Current(q, users)
  BY DEF AloneInv, Current
<1> QED
  BY <1>1, SlotCurrent

(* An address of a client that no live account has is no row's: a closed      *)
(* account has given its own back.                                            *)
LEMMA FreeAddress ==
  ASSUME AloneInv, NEW e \in Emails, LiveWith("email", e) = {}
  PROVE  \A i \in UserIds : users[i] # None => users[i].email # e
<1>1. \A i \in UserIds : AnonEmail(i) # e
  BY EmailsAssumption DEF AnonEmails
<1> QED
  BY <1>1 DEF AloneInv, ClearedForGood, LiveWith, Live

(* Arrivals.                                                                  *)
LEMMA ArriveCurrent ==
  ASSUME AloneInv, NEW r \in Requests, Arrive(r)
  PROVE  ClearedForGood' /\ \A o \in Requests : Current(req'[o], users')
<1>0. /\ TypeInv
      /\ FreshIds \subseteq UserIds /\ tokens \subseteq UserIds /\ resets \subseteq UserIds
      /\ \A c, v : \A i \in LiveWith(c, v) : i \in UserIds /\ Live(i)
      /\ \A i \in FreshIds : users[i] = None /\ ~Live(i)
  BY DEF AloneInv, WaitInv, TypeInv, TypeOK, FreshIds, LiveWith, Live
<1>a. \A i \in UserIds : Live(i) =>
        users[i] \in User /\ users[i].deleted = FALSE
  BY <1>0, LiveType DEF TypeInv, User, Live
<1>1. CASE Register(r)
  <2>1. UNCHANGED users
    BY <1>1 DEF Register
  <2>2. PICK e \in Emails, p \in Passwords, n \in OptNames :
          \/ Respond(r, "register", None, 409)
          \/ /\ LiveWith("email", e) = {}
             /\ \E i \in FreshIds :
                  Proceed(r, "register", "insert", i,
                          NewUser(e, Digest[p], None, n, FALSE), Columns)
    BY <1>1 DEF Register
  <2> DEFINE row == NewUser(e, Digest[p], None, n, FALSE)
  <2>3. row.email = e /\ row.uid = None /\ row.deleted = FALSE
    BY DEF NewUser
  <2> HIDE DEF row
  <2>4. CASE Respond(r, "register", None, 409)
    BY <2>1, <2>4, RespondCurrent
  <2>5. CASE /\ LiveWith("email", e) = {}
             /\ \E i \in FreshIds : Proceed(r, "register", "insert", i, row, Columns)
    BY <1>0, <2>1, <2>3, <2>5, FreeAddress, ProceedCurrent
  <2> QED
    BY <2>2, <2>4, <2>5 DEF row
<1>2. CASE Login(r)
  <2>1. UNCHANGED users
    BY <1>2 DEF Login
  <2>2. \/ Respond(r, "login", None, 401)
        \/ \E i \in UserIds : Live(i) /\ Proceed(r, "login", "write", i, users[i], {})
    BY <1>0, <1>2 DEF Login
  <2> QED
    BY <1>a, <2>1, <2>2, ProceedCurrent, RespondCurrent
<1>3. CASE LoginWithFirebase(r)
  <2>1. UNCHANGED users
    BY <1>3 DEF LoginWithFirebase
  <2>2. \/ Respond(r, "firebase", None, 401)
        \/ \E i \in UserIds : Live(i) /\ Proceed(r, "firebase", "write", i, users[i], {})
        \/ \E i \in FreshIds, pc \in {"insert", "find"} : \E e, u, n, v :
             Proceed(r, "firebase", pc, i, NewUser(e, None, u, n, v), Columns)
    BY <1>0, <1>3 DEF LoginWithFirebase
  <2>3. \A e, u, n, v : NewUser(e, None, u, n, v).deleted = FALSE
    BY DEF NewUser
  <2> QED
    BY <1>0, <1>a, <2>1, <2>2, <2>3, ProceedCurrent, RespondCurrent
<1>4. CASE Refresh(r)
  BY <1>4, RespondCurrent DEF Refresh
<1>5. CASE GetMe(r)
  BY <1>5, RespondCurrent DEF GetMe
<1>6. CASE UpdateMe(r)
  <2>1. UNCHANGED users
    BY <1>6 DEF UpdateMe
  <2>2. PICK i \in UserIds :
          \/ Respond(r, "update_me", None, 404)
          \/ Respond(r, "update_me", None, 500)
          \/ /\ Live(i)
             /\ \E e, n : \E pc \in {"find", "answer", "write"} :
                  Proceed(r, "update_me", pc, i, Patched(users[i], e, n),
                          Changed(users[i], Patched(users[i], e, n)))
    BY <1>0, <1>6 DEF UpdateMe
  <2>3. ASSUME NEW e, NEW n, Live(i)
        PROVE  Patched(users[i], e, n).deleted = FALSE
    BY <1>a, <2>3 DEF Patched, User
  <2>4. \A row : \A c \in Columns \ (Changed(users[i], row) \union {"active"}) :
          row[c] = users[i][c]
    BY DEF Changed
  <2>5. CASE Live(i) /\ \E e, n : \E pc \in {"find", "answer", "write"} :
               Proceed(r, "update_me", pc, i, Patched(users[i], e, n),
                       Changed(users[i], Patched(users[i], e, n)))
    <3>1. PICK e, n :
            \E pc \in {"find", "answer", "write"} :
              Proceed(r, "update_me", pc, i, Patched(users[i], e, n),
                      Changed(users[i], Patched(users[i], e, n)))
      BY <2>5
    <3> DEFINE row == Patched(users[i], e, n)
    <3>2. row.deleted = FALSE
      BY <2>3, <2>5
    <3> HIDE DEF row
    <3> DEFINE dirty == Changed(users[i], row)
    <3>3. \A c \in Columns \ (dirty \union {"active"}) : row[c] = users[i][c]
      BY <2>4
    <3>4. PICK pc \in {"find", "answer", "write"} : Proceed(r, "update_me", pc, i, row, dirty)
      BY <3>1 DEF row
    <3> HIDE DEF dirty
    <3> QED
      BY <2>1, <2>5, <3>2, <3>3, <3>4, ProceedCurrent
  <2> QED
    BY <2>1, <2>2, <2>5, RespondCurrent
<1>7. CASE RequestReset(r)
  BY <1>7, RespondCurrent DEF RequestReset
<1>b. ASSUME NEW i \in UserIds, NEW d, Live(i), NEW op \in {"reset_confirm", "change_password"},
             Proceed(r, op, "write", i, [users[i] EXCEPT !.password = d], {"password"}),
             UNCHANGED users
      PROVE  ClearedForGood' /\ \A o \in Requests : Current(req'[o], users')
  <2> DEFINE row == [users[i] EXCEPT !.password = d]
  <2>1. /\ row.deleted = FALSE
        /\ \A c \in Columns \ ({"password"} \union {"active"}) : row[c] = users[i][c]
    BY <1>a, <1>b DEF User, Columns
  <2>2. Proceed(r, op, "write", i, row, {"password"})
    BY <1>b
  <2> HIDE DEF row
  <2> QED
    BY <1>b, <2>1, <2>2, ProceedCurrent
<1>8. CASE ConfirmReset(r)
  <2>1. UNCHANGED users
    BY <1>8 DEF ConfirmReset
  <2>2. PICK i \in UserIds, new \in Passwords :
          \/ Respond(r, "reset_confirm", None, 401)
          \/ /\ Live(i)
             /\ Proceed(r, "reset_confirm", "write", i,
                        [users[i] EXCEPT !.password = Digest[new]], {"password"})
    BY <1>0, <1>8 DEF ConfirmReset
  <2> QED
    BY <1>b, <2>1, <2>2, RespondCurrent
<1>9. CASE ChangePassword(r)
  <2>1. UNCHANGED users
    BY <1>9 DEF ChangePassword
  <2>2. PICK i \in UserIds, new \in Passwords :
          \/ \E code : Respond(r, "change_password", None, code)
          \/ /\ Live(i)
             /\ Proceed(r, "change_password", "write", i,
                        [users[i] EXCEPT !.password = Digest[new]], {"password"})
    BY <1>0, <1>9 DEF ChangePassword
  <2> QED
    BY <1>b, <2>1, <2>2, RespondCurrent
<1>10. CASE DeleteMe(r)
  <2>1. UNCHANGED users
    BY <1>10 DEF DeleteMe
  <2>2. ASSUME NEW i \in UserIds, Live(i)
        PROVE  Cleared(i, Anonymised(i))
    BY <1>a, <2>2 DEF Cleared, Anonymised, User
  <2>3. \A i, row : \A c \in Columns \ (Changed(users[i], row) \union {"active"}) :
          row[c] = users[i][c]
    BY DEF Changed
  <2>4. PICK i \in UserIds :
          \/ Live(i) /\ Proceed(r, "delete_me", "write", i, Anonymised(i),
                                Changed(users[i], Anonymised(i)))
          \/ Respond(r, "delete_me", None, 404)
    BY <1>0, <1>10 DEF DeleteMe
  <2> QED
    BY <2>1, <2>2, <2>3, <2>4, ProceedCurrent, RespondCurrent
<1> QED
  BY <1>1, <1>2, <1>3, <1>4, <1>5, <1>6, <1>7, <1>8, <1>9, <1>10 DEF Arrive

(* The second SELECT.                                                         *)
LEMMA FindForFirebaseCurrent ==
  ASSUME AloneInv, NEW r \in Requests, FindForFirebase(r)
  PROVE  ClearedForGood' /\ \A o \in Requests : Current(req'[o], users')
<1>0. /\ req[r].pc = "find" /\ req[r].op = "firebase" /\ UNCHANGED users
      /\ TypeInv
  BY DEF FindForFirebase, AloneInv, WaitInv
<1>1. CASE req' = [req EXCEPT ![r].pc = "insert"]
  <2> DEFINE q == [req[r] EXCEPT !.pc = "insert"]
  <2>1. /\ q.pc = "insert" /\ q.op = req[r].op /\ q.id = req[r].id
        /\ q.row = req[r].row /\ q.dirty = req[r].dirty
    BY <1>0 DEF TypeInv, TypeOK, Request
  <2>2. req' = [req EXCEPT ![r] = q]
    BY <1>1
  <2> HIDE DEF q
  <2> QED
    BY <1>0, <2>1, <2>2, StepCurrent
<1>2. CASE \E code : Fail(r, code)
  BY <1>0, <1>2, FailCurrent
<1>3. ASSUME NEW i \in UserIds, Live(i),
             Proceed(r, "firebase", "write", i, [users[i] EXCEPT !.uid = req[r].row.uid],
                     Changed(users[i], [users[i] EXCEPT !.uid = req[r].row.uid]))
      PROVE  ClearedForGood' /\ \A o \in Requests : Current(req'[o], users')
  <2> DEFINE row == [users[i] EXCEPT !.uid = req[r].row.uid]
             dirty == Changed(users[i], row)
  <2>1. row.deleted = FALSE
    BY <1>0, <1>3, LiveType DEF TypeInv, User, Live
  <2>2. Proceed(r, "firebase", "write", i, row, dirty)
    BY <1>3
  <2> HIDE DEF row
  <2>3. \A c \in Columns \ (dirty \union {"active"}) : row[c] = users[i][c]
    BY DEF Changed
  <2> HIDE DEF dirty
  <2> QED
    BY <1>0, <1>3, <2>1, <2>2, <2>3, ProceedCurrent
<1> QED
  BY <1>1, <1>2, <1>3 DEF FindForFirebase, LiveWith

(* A request that is alone waits for nobody, and the address it registers is  *)
(* nobody's.                                                                  *)
LEMMA AloneNeverFails ==
  ASSUME AloneInv, Alone, NEW r \in Requests, req[r].op = "register"
  PROVE  ~IntegrityError(r) /\ ~DeadlockVictim(r)
<1>1. ASSUME DeadlockVictim(r) PROVE FALSE
  <2>1. PICK o \in Requests : o \in WaitsFor(r)
    BY <1>1 DEF DeadlockVictim, InCycle, AllWait
  <2>2. req[o].pc # "idle"
    BY <2>1, WaitsForServed DEF AloneInv
  <2>3. o # r /\ req[r].pc # "idle"
    BY <2>1 DEF WaitsFor, CommitPc, Lockers, Blockers
  <2> QED
    BY <2>2, <2>3 DEF Alone
<1>2. ASSUME IntegrityError(r) PROVE FALSE
  <2>1. req[r].pc \notin {"idle", "reply"} /\ Collides(r)
    BY <1>2 DEF IntegrityError, CommitPc
  <2>2. PICK c \in Keys : req[r].row[c] # None /\ Taken(r, c)
    BY <2>1 DEF Collides, NextKey, Unreserved
  <2>3. c = "email" \/ c = "uid"
    BY DEF Keys
  <2> QED
    BY <2>1, <2>2, <2>3 DEF AloneInv, Current, Taken
<1> QED
  BY <1>1, <1>2

(* What a request commits when it is alone is the row it has in its session,  *)
(* and the account was not closed before.                                     *)
LEMMA CommitCurrent ==
  ASSUME AloneInv, Alone, NEW r \in Requests, Commit(r)
  PROVE  ClearedForGood' /\ \A o \in Requests : Current(req'[o], users')
<1> DEFINE id == req[r].id
           row == req[r].row
           merged == Merged(users[id], row, req[r].dirty)
<1>1. /\ req[r].pc \notin {"idle", "reply"} /\ id \in UserIds /\ row \in User
      /\ users \in [UserIds -> User \union {None}] /\ req \in [Requests -> Request]
  BY DEF Commit, CommitPc, AloneInv, WaitInv, TypeInv, TypeOK, RowsHeld
<1>2. users'[id] = merged /\ \A i \in UserIds \ {id} : users'[i] = users[i]
  BY <1>1 DEF Commit
<1>3. /\ users[id] # None =>
            /\ ~users[id].deleted
            /\ \A c \in Columns \ (req[r].dirty \union {"active"}) : row[c] = users[id][c]
      /\ row.deleted => Cleared(id, row)
  BY <1>1 DEF AloneInv, Current
<1>4. /\ merged.email = row.email /\ merged.password = row.password
      /\ merged.uid = row.uid /\ merged.name = row.name
      /\ merged.deleted = row.deleted
  <2> HIDE DEF id, row
  <2> QED
    BY <1>3 DEF merged, Merged, Columns
<1>5. ClearedForGood'
  <2> HIDE DEF id, row, merged
  <2>1. merged.deleted => Cleared(id, merged)
    BY <1>3, <1>4 DEF Cleared
  <2> QED
    BY <1>1, <1>2, <2>1 DEF ClearedForGood, AloneInv, Cleared, AnonEmail
<1>6. ASSUME NEW o \in Requests \ {r} PROVE Current(req'[o], users')
  <2>1. req'[o] = req[o]
    BY <1>1 DEF Commit, Respond
  <2>2. req[o].pc = "idle"
    BY <1>1 DEF Alone
  <2> QED
    BY <2>1, <2>2 DEF Current
<1>7. Current(req'[r], users')
  <2>1. CASE ReplyFirst
    BY <1>1, <2>1, BlankCurrent DEF Commit
  <2>2. CASE ~ReplyFirst
    <3>1. /\ req'[r].pc = "reply" /\ req'[r].op = req[r].op
          /\ req'[r].code = SuccessCode(req[r].op)
      BY <1>1, <2>2 DEF Commit, Respond, Blank
    <3> QED
      BY <3>1 DEF Current, SuccessCode
  <2> QED
    BY <2>1, <2>2
<1> QED
  BY <1>5, <1>6, <1>7

(* Every step of a request.                                                   *)
LEMMA ProgressCurrent ==
  ASSUME AloneInv, Alone, NEW r \in Requests, Progress(r)
  PROVE  ClearedForGood' /\ \A o \in Requests : Current(req'[o], users')
<1>0. /\ req \in [Requests -> Request] /\ req[r] \in Request
      /\ req[r].pc # "idle"
  <2>1. WaitsFor(r) # {} => req[r].pc # "idle"
    BY DEF WaitsFor, CommitPc
  <2> QED
    BY <2>1 DEF AloneInv, WaitInv, TypeInv, TypeOK, Progress, FindForUpdate,
         FindForFirebase, Lock, Reserve, IntegrityError, DeadlockVictim, InCycle, AllWait,
         ValidationError, Commit, SendThenCommit, Send, CommitPc
<1>1. ASSUME NEW q, req' = [req EXCEPT ![r] = q], UNCHANGED users,
             req[r].pc # "reply", q.pc # "reply", q.op = req[r].op, q.id = req[r].id,
             q.row = req[r].row, q.dirty = req[r].dirty
      PROVE  ClearedForGood' /\ \A o \in Requests : Current(req'[o], users')
  BY <1>0, <1>1, StepCurrent
<1>2. CASE FindForUpdate(r)
  <2>1. CASE req' = [req EXCEPT ![r].pc = "write"]
    <3> DEFINE q == [req[r] EXCEPT !.pc = "write"]
    <3>1. /\ q.pc = "write" /\ q.op = req[r].op /\ q.id = req[r].id
          /\ q.row = req[r].row /\ q.dirty = req[r].dirty
      BY <1>0 DEF Request
    <3>2. req' = [req EXCEPT ![r] = q]
      BY <2>1
    <3> HIDE DEF q
    <3> QED
      BY <1>1, <1>2, <3>1, <3>2 DEF FindForUpdate
  <2> QED
    BY <1>2, <2>1, FailCurrent DEF FindForUpdate
<1>3. CASE FindForFirebase(r)
  BY <1>3, FindForFirebaseCurrent
<1>4. CASE Lock(r)
  <2> DEFINE q == [req[r] EXCEPT !.locked = TRUE,
                     !.pc = IF "email" \in req[r].dirty THEN "index" ELSE "answer"]
  <2>1. /\ q.pc # "reply" /\ q.op = req[r].op /\ q.id = req[r].id
        /\ q.row = req[r].row /\ q.dirty = req[r].dirty
    BY <1>0 DEF Request
  <2>2. req' = [req EXCEPT ![r] = q]
    BY <1>0, <1>4 DEF Lock
  <2> HIDE DEF q
  <2> QED
    BY <1>1, <1>4, <2>1, <2>2 DEF Lock
<1>5. CASE Reserve(r)
  <2> DEFINE q == [req[r] EXCEPT
                     !.pc = IF Unreserved(r) = NextKey(r) THEN "answer" ELSE req[r].pc,
                     !.locked = TRUE, !.held = req[r].held \union NextKey(r)]
  <2>1. /\ q.pc # "reply" /\ q.op = req[r].op /\ q.id = req[r].id
        /\ q.row = req[r].row /\ q.dirty = req[r].dirty
    BY <1>0, <1>5 DEF Reserve, Request
  <2>2. req' = [req EXCEPT ![r] = q]
    BY <1>0, <1>5 DEF Reserve
  <2> HIDE DEF q
  <2> QED
    BY <1>1, <1>5, <2>1, <2>2 DEF Reserve
<1>6. CASE IntegrityError(r) \/ DeadlockVictim(r)
  BY <1>6, AloneNeverFails, FailCurrent DEF IntegrityError, DeadlockVictim
<1>7. CASE ValidationError(r)
  BY <1>7, FailCurrent DEF ValidationError, Unserializable
<1>8. CASE Commit(r)
  BY <1>8, CommitCurrent
<1>9. CASE SendThenCommit(r)
  <2> DEFINE q == [req[r] EXCEPT !.pc = "commit"]
  <2>1. /\ q.pc # "reply" /\ q.op = req[r].op /\ q.id = req[r].id
        /\ q.row = req[r].row /\ q.dirty = req[r].dirty
    BY <1>0 DEF Request
  <2>2. req' = [req EXCEPT ![r] = q]
    BY <1>9 DEF SendThenCommit
  <2> HIDE DEF q
  <2> QED
    BY <1>1, <1>9, <2>1, <2>2 DEF SendThenCommit
<1>10. CASE Send(r)
  BY <1>10, SlotCurrent, BlankCurrent DEF Send
<1> QED
  BY <1>2, <1>3, <1>4, <1>5, <1>6, <1>7, <1>8, <1>9, <1>10 DEF Progress

(* An operator's UPDATE writes only is_active, which no request relies on.    *)
LEMMA SuspendCurrent ==
  ASSUME AloneInv, NEW i \in UserIds, Suspend(i)
  PROVE  ClearedForGood' /\ \A o \in Requests : Current(req'[o], users')
<1> DEFINE row == [users[i] EXCEPT !.active = FALSE]
<1>1. users[i] \in User /\ users \in [UserIds -> User \union {None}]
  BY LiveType DEF AloneInv, WaitInv, TypeInv, TypeOK, Suspend
<1>2. /\ row # None /\ row \in User
      /\ \A c \in Columns \ {"active"} : row[c] = users[i][c]
  BY <1>1, RowAssumption DEF User, Columns
<1>3. /\ req' = req /\ users[i] # None
      /\ \A j \in UserIds : users'[j] = IF j = i THEN row ELSE users[j]
  BY <1>1 DEF Suspend, Live
<1> HIDE DEF row
<1>4. /\ row.email = users[i].email /\ row.password = users[i].password
      /\ row.uid = users[i].uid /\ row.name = users[i].name
      /\ row.deleted = users[i].deleted
  BY <1>2 DEF Columns
<1>5. ClearedForGood'
  BY <1>3, <1>4 DEF AloneInv, ClearedForGood, AnonEmail
<1>6. ASSUME NEW o \in Requests PROVE Current(req'[o], users')
  <2>1. Current(req[o], users) /\ req'[o] = req[o]
    BY <1>3 DEF AloneInv
  <2>2. req[o].pc \notin {"idle", "reply"} => req[o].id \in UserIds
    BY DEF AloneInv, WaitInv, TypeInv, RowsHeld
  <2> QED
    BY <1>2, <1>3, <1>4, <2>1, <2>2 DEF Current
<1> QED
  BY <1>5, <1>6

(* No step breaks it.                                                         *)
LEMMA AloneNext == AloneInv /\ Alone /\ [Next]_vars => AloneInv'
<1> SUFFICES ASSUME AloneInv, Alone, [Next]_vars PROVE AloneInv'
  OBVIOUS
<1>1. AccountInv' /\ WaitInv'
  BY AccountNext, WaitNext DEF AloneInv
<1>2. ClearedForGood' /\ \A o \in Requests : Current(req'[o], users')
  <2>1. CASE \E r \in Requests : Drop(r)
    BY <2>1, SlotCurrent, BlankCurrent DEF Drop
  <2>2. CASE UNCHANGED vars
    BY <2>2 DEF vars, AloneInv, ClearedForGood, AnonEmail
  <2> QED
    BY <2>1, <2>2, ArriveCurrent, ProgressCurrent, SuspendCurrent DEF Next
<1>3. \A o \in Requests : Current(req[o], users)'
  BY <1>2 DEF Current, Cleared, AnonEmail
<1> QED
  BY <1>1, <1>2, <1>3 DEF AloneInv

(* The invariant.                                                             *)
LEMMA AloneInvariant == Spec /\ []Alone => []AloneInv
<1>1. Init => AloneInv
  BY AccountInit, TypeInit, BlankPlaced, BlankCurrent
  DEF Init, AloneInv, WaitInv, ClearedForGood
<1> QED
  BY <1>1, AloneNext, PTL DEF Spec

(* The columns soft_delete_account clears are written again only by overlap:  *)
(* where each request is answered and committed before the next arrives,      *)
(* email, password, uid and name stay cleared, whatever is done before and    *)
(* after.  This is not the whole claim of progress/current-state.md:153,      *)
(* which the code does not keep even then: gender, birth date and city stay   *)
(* on the row (service.py:284-290).                                           *)
THEOREM ClearedWhenAlone == Spec /\ []Alone => []ClearedForGood
<1>1. AloneInv => ClearedForGood
  BY DEF AloneInv
<1> QED
  BY <1>1, AloneInvariant, PTL

(* What accounts_duplicate finds takes an overlap as well: alone, register    *)
(* answers 201 or 409 (progress/current-state.md:137), as its SELECT sees     *)
(* what the unique index would.                                               *)
THEOREM DuplicateWhenAlone == Spec /\ []Alone => []DuplicateAnswers409
<1>1. AloneInv => DuplicateAnswers409
  BY DEF AloneInv, Current, DuplicateAnswers409
<1> QED
  BY <1>1, AloneInvariant, PTL
=============================================================================
