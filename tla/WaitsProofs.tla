----------------------------- MODULE WaitsProofs -----------------------------
(* Deadlock freedom of Accounts: whatever the requests wait for, one of those *)
(* being served can go on, and none ever does a step twice.                   *)
EXTENDS AccountsProofs, FiniteSetTheorems, WellFoundedInduction

(* What the place of a request's handler implies.                             *)
Placed(q) ==
  /\ q.pc = "find" => q.op \in {"update_me", "firebase"}
  /\ q.pc = "commit" =>
       ReplyFirst /\ ~(q.op = "update_me" /\ ~Serializable(q.row.email))
  /\ q.pc = "idle" => ~q.locked /\ q.held = {}

WaitInv == TypeInv /\ \A r \in Requests : Placed(req[r])

-----------------------------------------------------------------------------
(* A step that gives one slot the request q.                                  *)
LEMMA SlotPlaced ==
  ASSUME WaitInv, NEW r \in Requests, NEW q, Placed(q), req' = [req EXCEPT ![r] = q]
  PROVE  \A o \in Requests : Placed(req'[o])
BY DEF WaitInv, TypeInv, TypeOK

(* The free slot.                                                             *)
LEMMA BlankPlaced == Placed(Blank)
BY DEF Placed, Blank

(* A handler that goes on.                                                    *)
LEMMA ProceedPlaced ==
  ASSUME WaitInv, NEW r \in Requests, NEW op, NEW pc, NEW i, NEW row, NEW dirty,
         pc \notin {"idle", "commit"},
         pc = "find" => op \in {"update_me", "firebase"},
         Proceed(r, op, pc, i, row, dirty)
  PROVE  \A o \in Requests : Placed(req'[o])
<1> DEFINE q == [pc |-> pc, op |-> op, id |-> i, row |-> row, dirty |-> dirty,
                 locked |-> FALSE, held |-> {}, code |-> 0]
<1>1. q.pc = pc /\ q.op = op
  OBVIOUS
<1>2. req' = [req EXCEPT ![r] = q]
  BY DEF Proceed
<1> HIDE DEF q
<1>3. Placed(q)
  BY <1>1 DEF Placed
<1> QED
  BY <1>2, <1>3, SlotPlaced

(* A handler that ends.                                                       *)
LEMMA RespondPlaced ==
  ASSUME WaitInv, NEW r \in Requests, NEW op, NEW i, NEW code, Respond(r, op, i, code)
  PROVE  \A o \in Requests : Placed(req'[o])
<1> DEFINE q == [Blank EXCEPT !.pc = "reply", !.op = op, !.id = i, !.code = code]
<1>1. q.pc = "reply"
  BY DEF Blank
<1>2. req' = [req EXCEPT ![r] = q]
  BY DEF Respond
<1> HIDE DEF q
<1>3. Placed(q)
  BY <1>1 DEF Placed
<1> QED
  BY <1>2, <1>3, SlotPlaced

(* A handler that raises.                                                     *)
LEMMA FailPlaced ==
  ASSUME WaitInv, NEW r \in Requests, NEW code, Fail(r, code)
  PROVE  \A o \in Requests : Placed(req'[o])
BY RespondPlaced, SlotPlaced, BlankPlaced DEF Fail

(* Arrivals.                                                                  *)
LEMMA ArrivePlaced ==
  ASSUME WaitInv, NEW r \in Requests, Arrive(r)
  PROVE  \A o \in Requests : Placed(req'[o])
<1>1. CASE \E op, i, code : Respond(r, op, i, code)
  BY <1>1, RespondPlaced
<1>2. CASE \E op, pc, i, row, dirty :
             /\ pc \notin {"idle", "commit"}
             /\ pc = "find" => op \in {"update_me", "firebase"}
             /\ Proceed(r, op, pc, i, row, dirty)
  BY <1>2, ProceedPlaced
<1> QED
  BY <1>1, <1>2, ArriveShape

(* Every other step of a request.                                             *)
LEMMA ProgressPlaced ==
  ASSUME WaitInv, NEW r \in Requests, Progress(r)
  PROVE  \A o \in Requests : Placed(req'[o])
<1>0. req[r] \in Request /\ Placed(req[r]) /\ req \in [Requests -> Request]
  BY DEF WaitInv, TypeInv, TypeOK
<1>1. CASE FindForUpdate(r)
  <2>1. CASE req' = [req EXCEPT ![r].pc = "write"]
    BY <1>0, <1>1, <2>1 DEF FindForUpdate, WaitInv, Placed, Request
  <2> QED
    BY <1>1, <2>1, FailPlaced DEF FindForUpdate
<1>2. CASE FindForFirebase(r)
  <2>1. CASE req' = [req EXCEPT ![r].pc = "insert"]
    BY <1>0, <1>2, <2>1 DEF FindForFirebase, WaitInv, Placed, Request
  <2>2. CASE \E code : Fail(r, code)
    BY <2>2, FailPlaced
  <2>3. CASE \E i, row, dirty : Proceed(r, "firebase", "write", i, row, dirty)
    BY <2>3, ProceedPlaced
  <2> QED
    BY <1>2, <2>1, <2>2, <2>3 DEF FindForFirebase
<1>3. CASE Lock(r)
  BY <1>0, <1>3 DEF Lock, WaitInv, Placed, Request
<1>4. CASE Reserve(r)
  BY <1>0, <1>4 DEF Reserve, WaitInv, Placed, Request
<1>5. CASE \E code : Fail(r, code)
  BY <1>5, FailPlaced
<1>6. CASE Commit(r)
  <2>1. CASE ReplyFirst
    BY <1>6, <2>1, SlotPlaced, BlankPlaced DEF Commit
  <2>2. CASE ~ReplyFirst
    BY <1>6, <2>2, RespondPlaced DEF Commit
  <2> QED
    BY <2>1, <2>2
<1>7. CASE SendThenCommit(r)
  <2>1. /\ ReplyFirst /\ ~Unserializable(r) /\ req[r].pc = "answer"
        /\ req' = [req EXCEPT ![r].pc = "commit"]
    BY <1>7 DEF SendThenCommit
  <2>2. /\ req'[r].pc = "commit" /\ req'[r].op = req[r].op /\ req'[r].row = req[r].row
        /\ \A o \in Requests \ {r} : req'[o] = req[o]
    BY <1>0, <2>1 DEF Request
  <2>3. Placed(req'[r])
    BY <2>1, <2>2 DEF Placed, Unserializable
  <2> QED
    BY <2>2, <2>3 DEF WaitInv
<1>8. CASE Send(r)
  BY <1>8, SlotPlaced, BlankPlaced DEF Send
<1>9. IntegrityError(r) \/ DeadlockVictim(r) \/ ValidationError(r) => \E code : Fail(r, code)
  BY DEF IntegrityError, DeadlockVictim, ValidationError
<1> QED
  BY <1>1, <1>2, <1>3, <1>4, <1>5, <1>6, <1>7, <1>8, <1>9 DEF Progress

(* Every step keeps each request at a place its handler can be.               *)
LEMMA WaitNext == WaitInv /\ [Next]_vars => WaitInv'
<1> SUFFICES ASSUME WaitInv, [Next]_vars PROVE WaitInv'
  OBVIOUS
<1>1. TypeInv'
  BY TypeNext DEF WaitInv
<1>2. ASSUME NEW r \in Requests, Drop(r) PROVE \A o \in Requests : Placed(req'[o])
  BY <1>2, SlotPlaced, BlankPlaced DEF Drop
<1>3. req' = req => \A o \in Requests : Placed(req'[o])
  BY DEF WaitInv
<1>4. \A o \in Requests : Placed(req'[o])
  BY <1>2, <1>3, ArrivePlaced, ProgressPlaced DEF Next, Suspend, vars
<1> QED
  BY <1>1, <1>4 DEF WaitInv, Placed, Serializable

(* The invariant.                                                             *)
LEMMA WaitInvariant == Spec => []WaitInv
<1>1. Init => WaitInv
  BY TypeInit, BlankPlaced DEF Init, WaitInv
<1> QED
  BY <1>1, WaitNext, PTL DEF Spec

-----------------------------------------------------------------------------
(* Who waits for whom.                                                        *)
(* A finite set whose members all wait for one another has a smallest such    *)
(* subset.                                                                    *)
LEMMA SmallestWait ==
  ASSUME NEW R \in SUBSET Requests, AllWait(R)
  PROVE  \E S \in SUBSET Requests :
           AllWait(S) /\ \A T \in SUBSET S : AllWait(T) => T = S
<1> DEFINE waits == {S \in SUBSET Requests : AllWait(S)}
<1>1. IsWellFoundedOn(StrictSubsetOrdering(Requests), SUBSET Requests)
  BY RequestsAssumption, FS_StrictSubsetOrderingWellFounded, FS_FiniteSubsetsOfFinite
<1>2. waits \subseteq SUBSET Requests /\ R \in waits
  OBVIOUS
<1> HIDE DEF waits
<1>3. PICK S \in waits : \A T \in waits : ~(<<T, S>> \in StrictSubsetOrdering(Requests))
  BY <1>1, <1>2, WFMin
<1> USE DEF waits
<1>4. ASSUME NEW T \in SUBSET S, AllWait(T) PROVE T = S
  <2>1. T \in waits /\ S \in SUBSET Requests /\ T \in SUBSET Requests
    BY <1>3, <1>4
  <2>2. ~(T \subseteq S /\ T # S)
    BY <1>3, <2>1 DEF StrictSubsetOrdering
  <2> QED
    BY <2>2
<1> QED
  BY <1>3, <1>4

(* A request waits only for requests that are being served.                   *)
LEMMA WaitsForServed ==
  ASSUME WaitInv, NEW r \in Requests
  PROVE  WaitsFor(r) \subseteq {o \in Requests : req[o].pc # "idle"}
<1> DEFINE served == {o \in Requests : req[o].pc # "idle"}
<1>1. \A o \in Requests : req[o].locked \/ req[o].held # {} => o \in served
  BY DEF WaitInv, Placed
<1>2. Lockers(r) \subseteq served
  BY <1>1 DEF Lockers
<1>3. \A c : Blockers(r, c) \subseteq served
  BY <1>1 DEF Blockers
<1> HIDE DEF served
<1>4. WaitsFor(r) \subseteq served
  BY <1>2, <1>3 DEF WaitsFor
<1> QED
  BY <1>4 DEF served

(* When no other request holds the key a request enters next, it is free or   *)
(* belongs to a committed row.                                                *)
LEMMA ClaimedOrTaken ==
  ASSUME NEW r \in Requests, \A c \in NextKey(r) : Blockers(r, c) = {}
  PROVE  Claimable(r) \/ Collides(r)
BY DEF Claimable, Collides, Free

(* A request that is being served and waits for nobody can go on.             *)
LEMMA UnblockedProceeds ==
  ASSUME WaitInv, NEW r \in Requests, req[r].pc # "idle", WaitsFor(r) = {}
  PROVE  CanProceed(r)
<1>1. /\ req[r].pc \in {"find", "insert", "write", "index", "answer", "commit", "reply"}
      /\ Placed(req[r])
  BY DEF WaitInv, TypeInv, TypeOK, Request
<1>2. CASE req[r].pc = "write"
  BY <1>2 DEF WaitsFor, CanProceed, CommitPc
<1>3. CASE req[r].pc \in {"insert", "index", CommitPc}
  <2>1. req[r].pc # "write"
    BY <1>3 DEF CommitPc
  <2>2. {} = UNION {Blockers(r, c) : c \in NextKey(r)}
    BY <1>3, <2>1 DEF WaitsFor
  <2>3. \A c \in NextKey(r) : Blockers(r, c) = {}
    BY <2>2
  <2>4. Claimable(r) \/ Collides(r)
    BY <2>3, ClaimedOrTaken
  <2>5. CASE Collides(r)
    BY <1>3, <2>5 DEF CanProceed
  <2>6. CASE Claimable(r) /\ req[r].pc \in {"insert", "index"}
    BY <2>6 DEF CanProceed
  <2>7. CASE Claimable(r) /\ req[r].pc = CommitPc
    <3>1. CASE Unserializable(r)
      BY <1>1, <2>7, <3>1 DEF CanProceed, CommitPc, Placed, Unserializable
    <3> QED
      BY <2>7, <3>1 DEF CanProceed
  <2> QED
    BY <1>3, <2>4, <2>5, <2>6, <2>7
<1>4. CASE req[r].pc = "find"
  BY <1>1, <1>4 DEF Placed, CanProceed
<1>5. CASE req[r].pc = "reply"
  BY <1>5 DEF CanProceed
<1>6. CASE req[r].pc = "answer" /\ ReplyFirst
  BY <1>6 DEF CanProceed
<1>7. CASE req[r].pc = "answer" /\ ~ReplyFirst
  BY <1>3, <1>7 DEF CommitPc
<1>8. CASE req[r].pc = "commit"
  BY <1>1, <1>3, <1>8 DEF CommitPc, Placed
<1> QED
  BY <1>1, <1>2, <1>3, <1>4, <1>5, <1>6, <1>7, <1>8

(* No number of requests ever waits for one another for good: row locks and   *)
(* index entries are taken in the order of the handlers and of the commit,    *)
(* and every cycle that makes is one PostgreSQL finds and breaks.             *)
THEOREM NoStandingDeadlock == Spec => []NeverStuck
<1>1. WaitInv => NeverStuck
  <2> SUFFICES ASSUME WaitInv, NEW q \in Requests, req[q].pc # "idle"
               PROVE  \E r \in Requests : CanProceed(r)
    BY DEF NeverStuck
  <2> DEFINE served == {o \in Requests : req[o].pc # "idle"}
  <2>1. CASE \E r \in served : WaitsFor(r) = {}
    BY <2>1, UnblockedProceeds
  <2>2. CASE \A r \in served : WaitsFor(r) # {}
    <3>1. served \in SUBSET Requests /\ q \in served
      OBVIOUS
    <3>2. AllWait(served)
      BY <2>2, <3>1, WaitsForServed DEF AllWait
    <3>3. PICK S \in SUBSET Requests :
            AllWait(S) /\ \A T \in SUBSET S : AllWait(T) => T = S
      BY <3>1, <3>2, SmallestWait
    <3>4. PICK r \in S : TRUE
      BY <3>3 DEF AllWait
    <3>5. r \in Requests /\ InCycle(r)
      BY <3>3, <3>4 DEF InCycle
    <3> QED
      BY <3>5 DEF CanProceed
  <2> QED
    BY <2>1, <2>2
<1> QED
  BY <1>1, WaitInvariant, PTL
-----------------------------------------------------------------------------
(* How far a request still has to go, by the place of its handler and, where  *)
(* that flushes, by whether the email is in its index.                        *)
Rank(q) ==
  CASE q.pc = "idle" -> 0
    [] q.pc = "reply" -> 1
    [] q.pc = "commit" -> 2
    [] q.pc = "answer" -> 3
    [] q.pc \in {"insert", "index"} -> IF "email" \in q.held THEN 4 ELSE 5
    [] q.pc = "write" -> 6
    [] q.pc = "find" -> 7

StepsForward ==
  [][\A r \in Requests :
       req[r].pc # "idle" /\ req'[r] # req[r] => Rank(req'[r]) < Rank(req[r])]_vars

(* The order of the places.                                                   *)
LEMMA RankOrder ==
  ASSUME NEW q
  PROVE  /\ q.pc = "idle" => Rank(q) = 0
         /\ q.pc = "reply" => Rank(q) = 1
         /\ q.pc = "commit" => Rank(q) = 2
         /\ q.pc = "answer" => Rank(q) = 3
         /\ q.pc \in {"insert", "index"} =>
              Rank(q) \in {4, 5} /\ (Rank(q) = 4 <=> "email" \in q.held)
         /\ q.pc = "write" => Rank(q) = 6
         /\ q.pc = "find" => Rank(q) = 7
BY DEF Rank

(* What a request becomes when it fails.                                      *)
LEMMA FailForward ==
  ASSUME TypeInv, NEW r \in Requests, NEW code, Fail(r, code),
         req[r].pc \notin {"idle", "reply"}
  PROVE  Rank(req'[r]) < Rank(req[r])
<1>1. req[r].pc \in {"commit", "answer", "insert", "index", "write", "find"}
  BY DEF TypeInv, TypeOK, Request
<1>2. req'[r].pc = IF req[r].pc = "commit" THEN "idle" ELSE "reply"
  <2>1. CASE req[r].pc = "commit"
    BY <2>1 DEF Fail, Blank, TypeInv, TypeOK
  <2>2. CASE req[r].pc # "commit"
    <3> DEFINE q == [Blank EXCEPT !.pc = "reply", !.op = req[r].op, !.id = None,
                                  !.code = code]
    <3>1. q.pc = "reply"
      BY DEF Blank
    <3>2. req' = [req EXCEPT ![r] = q]
      BY <2>2 DEF Fail, Respond
    <3> HIDE DEF q
    <3> QED
      BY <2>2, <3>1, <3>2 DEF TypeInv, TypeOK
  <2> QED
    BY <2>1, <2>2
<1> QED
  BY <1>1, <1>2, RankOrder

(* Its own steps.                                                             *)
LEMMA ProgressForward ==
  ASSUME TypeInv, NEW r \in Requests, Progress(r)
  PROVE  Rank(req'[r]) < Rank(req[r])
<1>0. req \in [Requests -> Request] /\ req[r] \in Request
  BY DEF TypeInv, TypeOK
<1>1. CASE FindForUpdate(r)
  <2>1. CASE req' = [req EXCEPT ![r].pc = "write"]
    BY <1>0, <1>1, <2>1, RankOrder DEF FindForUpdate, Request
  <2> QED
    BY <1>1, <2>1, FailForward DEF FindForUpdate
<1>2. CASE FindForFirebase(r)
  <2>1. CASE req' = [req EXCEPT ![r].pc = "insert"]
    BY <1>0, <1>2, <2>1, RankOrder DEF FindForFirebase, Request
  <2>2. CASE \E code : Fail(r, code)
    BY <1>2, <2>2, FailForward DEF FindForFirebase
  <2>3. ASSUME NEW i, NEW row, NEW dirty, Proceed(r, "firebase", "write", i, row, dirty)
        PROVE  Rank(req'[r]) < Rank(req[r])
    <3>1. req'[r].pc = "write"
      BY <1>0, <2>3 DEF Proceed
    <3> QED
      BY <1>2, <3>1, RankOrder DEF FindForFirebase
  <2> QED
    BY <1>2, <2>1, <2>2, <2>3 DEF FindForFirebase
<1>3. CASE Lock(r)
  BY <1>0, <1>3, RankOrder DEF Lock, Request
<1>4. CASE Reserve(r)
  <2>1. /\ req'[r].pc = IF Unreserved(r) = NextKey(r) THEN "answer" ELSE req[r].pc
        /\ req'[r].held = req[r].held \union NextKey(r)
        /\ req[r].pc \in {"insert", "index"}
    BY <1>0, <1>4 DEF Reserve, Request
  <2>2. CASE Unreserved(r) = NextKey(r)
    BY <2>1, <2>2, RankOrder
  <2>3. CASE Unreserved(r) # NextKey(r)
    <3>1. "email" \in Unreserved(r) /\ NextKey(r) = {"email"}
      BY <2>3 DEF NextKey
    <3>2. "email" \notin req[r].held /\ "email" \in req'[r].held
      BY <2>1, <3>1 DEF Unreserved
    <3>3. Rank(req[r]) = 5
      BY <2>1, <3>2, RankOrder
    <3>4. Rank(req'[r]) = 4
      BY <2>1, <2>3, <3>2, RankOrder
    <3> QED
      BY <3>3, <3>4
  <2> QED
    BY <2>2, <2>3
<1>5. CASE IntegrityError(r) \/ ValidationError(r)
  BY <1>5, FailForward DEF IntegrityError, ValidationError, CommitPc
<1>6. CASE DeadlockVictim(r)
  <2>1. WaitsFor(r) # {}
    BY <1>6 DEF DeadlockVictim, InCycle, AllWait
  <2>2. req[r].pc \notin {"idle", "reply"}
    BY <2>1 DEF WaitsFor, CommitPc
  <2> QED
    BY <1>6, <2>2, FailForward DEF DeadlockVictim
<1>7. CASE Commit(r)
  <2>1. CASE ReplyFirst
    BY <1>0, <1>7, <2>1, RankOrder DEF Commit, CommitPc, Blank
  <2>2. CASE ~ReplyFirst
    <3>1. req'[r].pc = "reply"
      BY <1>0, <1>7, <2>2 DEF Commit, Respond, Blank
    <3> QED
      BY <1>7, <2>2, <3>1, RankOrder DEF Commit, CommitPc
  <2> QED
    BY <2>1, <2>2
<1>8. CASE SendThenCommit(r)
  BY <1>0, <1>8, RankOrder DEF SendThenCommit, Request
<1>9. CASE Send(r)
  BY <1>0, <1>9, RankOrder DEF Send, Blank
<1> QED
  BY <1>1, <1>2, <1>3, <1>4, <1>5, <1>6, <1>7, <1>8, <1>9 DEF Progress

(* A step of a slot touches no other slot.                                    *)
LEMMA OneSlotSteps ==
  ASSUME TypeInv, NEW o \in Requests, Arrive(o) \/ Progress(o) \/ Drop(o)
  PROVE  \A r \in Requests \ {o} : req'[r] = req[r]
<1> DEFINE kept == \A r \in Requests \ {o} : req'[r] = req[r]
<1>a. ASSUME NEW op, NEW pc, NEW i, NEW row, NEW dirty, Proceed(o, op, pc, i, row, dirty)
      PROVE  kept
  BY <1>a DEF Proceed, TypeInv, TypeOK
<1>b. ASSUME NEW op, NEW i, NEW code, Respond(o, op, i, code) PROVE kept
  BY <1>b DEF Respond, TypeInv, TypeOK
<1>1. CASE Arrive(o)
  BY <1>a, <1>b, <1>1, ArriveShape
<1>2. ASSUME NEW code, Fail(o, code) PROVE \A r \in Requests \ {o} : req'[r] = req[r]
  BY <1>2 DEF TypeInv, TypeOK, Fail, Respond
<1>3. CASE FindForUpdate(o) \/ FindForFirebase(o)
  BY <1>2, <1>3 DEF TypeInv, TypeOK, FindForUpdate, FindForFirebase, Proceed
<1>4. CASE IntegrityError(o) \/ DeadlockVictim(o) \/ ValidationError(o)
  BY <1>2, <1>4 DEF IntegrityError, DeadlockVictim, ValidationError
<1>5. CASE Lock(o) \/ Reserve(o)
  BY <1>5 DEF TypeInv, TypeOK, Lock, Reserve
<1>6. CASE Commit(o)
  BY <1>6 DEF TypeInv, TypeOK, Commit, Respond
<1>7. CASE SendThenCommit(o) \/ Send(o) \/ Drop(o)
  BY <1>7 DEF TypeInv, TypeOK, SendThenCommit, Send, Drop
<1> QED
  BY <1>1, <1>3, <1>4, <1>5, <1>6, <1>7 DEF Progress

(* No handler repeats a step or goes back to an earlier one: whatever the     *)
(* other requests do, a request is over after at most seven steps of its own. *)
THEOREM ServiceIsBounded == Spec => StepsForward
<1>1. ASSUME TypeInv, [Next]_vars, NEW r \in Requests, req[r].pc # "idle", req'[r] # req[r]
      PROVE  Rank(req'[r]) < Rank(req[r])
  <2>1. ~Arrive(r)
    BY <1>1 DEF Arrive, Register, Login, LoginWithFirebase, Refresh, GetMe, UpdateMe,
         RequestReset, ConfirmReset, ChangePassword, DeleteMe, Arrives
  <2>2. CASE Drop(r)
    <3>1. req'[r].pc = "idle"
      BY <1>1, <2>2 DEF Drop, Blank, TypeInv, TypeOK
    <3>2. req[r].pc \in {"commit", "answer", "insert", "index", "write", "find", "reply"}
      BY <1>1 DEF TypeInv, TypeOK, Request
    <3> QED
      BY <3>1, <3>2, RankOrder
  <2> QED
    BY <1>1, <2>1, <2>2, ProgressForward, OneSlotSteps DEF Next, Suspend, vars
<1>2. TypeInv /\ [Next]_vars =>
        [\A r \in Requests :
           req[r].pc # "idle" /\ req'[r] # req[r] => Rank(req'[r]) < Rank(req[r])]_vars
  BY <1>1
<1> QED
  BY <1>2, TypeInit, TypeNext, PTL DEF Spec, StepsForward
=============================================================================
