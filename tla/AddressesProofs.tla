-------------------------- MODULE AddressesProofs --------------------------
(* Theorems about Addresses for every number of requests, users and ids and   *)
(* both orders of commit and reply.                                           *)
EXTENDS Addresses, FiniteSetTheorems, WellFoundedInduction, TLAPS

(* What a request holds at each place of its handler.                         *)
Stage(q) ==
  /\ q.pc = "idle" => q.user = None
  /\ q.pc # "idle" => q.user \in Users
  /\ q.pc \in {"idle", "reply"} => q.op = None /\ q.sets = None /\ q.locks = {}
  /\ q.pc \notin {"idle", "reply"} => q.op # None /\ q.id \in AddrIds
  /\ q.pc \in {"begin", "clear"} => q.sets = TRUE /\ q.op # "delete"
  /\ q.pc = "clear" <=> q.targets # {}
  /\ q.pc = "begin" => q.locks = {}
  /\ q.pc = "flush" => q.op # "create"
  /\ q.op = "create" => q.sets \in BOOLEAN
  /\ q.op = "delete" => q.sets = None
  /\ q.cleared \subseteq q.locks
  /\ q.cleared # {} => q.sets = TRUE
  /\ q.op = "update" /\ q.sets # None /\ q.pc \in {"answer", "commit"} => q.id \in q.locks
  /\ q.pc = "commit" => ReplyFirst

(* A row of the table t that a request refers to is its user's, if it is      *)
(* still there; a row it has locked is there; the row it creates is not yet.  *)
Refers(q, t) ==
  /\ \A a \in q.locks : t[a] # None /\ t[a].owner = q.user
  /\ \A a \in q.targets : t[a] # None => t[a].owner = q.user
  /\ q.op \in {"update", "delete"} => (t[q.id] # None => t[q.id].owner = q.user)
  /\ q.op = "create" => t[q.id] = None
  /\ q.op = "delete" /\ q.pc \in {"answer", "commit"} /\ t[q.id] # None
       => q.id \in q.locks

DefaultsIn(t, u) == {a \in AddrIds : t[a] # None /\ t[a].owner = u /\ t[a].default}

(* The defaults of a user served in turn, when the request that clears them   *)
(* has seen them.                                                             *)
Tracks(q, t) ==
  ~ReplyFirst /\ q.user \in Patient /\ q.sets = TRUE /\ q.pc # "begin"
    => DefaultsIn(t, q.user) \subseteq q.targets \union q.cleared \union {q.id}

(* Two requests do not hold one lock, and a row to be created is nobody       *)
(* else's; a patient user has one request at a time.                          *)
Apart(q, p) ==
  /\ q.locks \intersect p.locks = {}
  /\ q.op = "create" => q.id # p.id /\ q.id \notin p.targets
  /\ q.user \in Patient /\ q.user = p.user
       => q.pc \in {"idle", "commit"} \/ p.pc \in {"idle", "commit"}

AtMostOne(S) == \A a, b \in S : a = b

SingleDefault(t) == ~ReplyFirst => \A u \in Patient : AtMostOne(DefaultsIn(t, u))

AddressInv ==
  /\ addrs \in [AddrIds -> Address \union {None}]
  /\ req \in [Requests -> Request]
  /\ \A r \in Requests : /\ Stage(req[r])
                         /\ Refers(req[r], addrs)
                         /\ Tracks(req[r], addrs)
  /\ \A r, o \in Requests : r # o => Apart(req[r], req[o])
  /\ SingleDefault(addrs)

(* Defaults, with the table as a parameter.                                   *)
LEMMA DefaultsAre == \A u : Defaults(u) = DefaultsIn(addrs, u)
BY DEF Defaults, Owned, DefaultsIn

-----------------------------------------------------------------------------
(* A step that leaves the table alone and gives slot r the request q.         *)
LEMMA StepKeeps ==
  ASSUME AddressInv, NEW r \in Requests, NEW q \in Request,
         req' = [req EXCEPT ![r] = q], UNCHANGED addrs,
         Stage(q), Refers(q, addrs), Tracks(q, addrs),
         \A o \in Requests \ {r} : Apart(q, req[o]) /\ Apart(req[o], q)
  PROVE  AddressInv'
<1>1. /\ req'[r] = q /\ \A o \in Requests \ {r} : req'[o] = req[o]
      /\ req' \in [Requests -> Request] /\ addrs' = addrs
  BY DEF AddressInv
<1>2. \A o \in Requests : /\ Stage(req'[o])
                          /\ Refers(req'[o], addrs') /\ Tracks(req'[o], addrs')
  BY <1>1 DEF AddressInv
<1>3. \A o, p \in Requests : o # p => Apart(req'[o], req'[p])
  BY <1>1 DEF AddressInv
<1> QED
  BY <1>1, <1>2, <1>3 DEF AddressInv

(* What follows in a slot that says nothing but whom it answers.              *)
LEMMA RefuseKeeps ==
  ASSUME AddressInv, NEW r \in Requests, NEW u \in Users, Refuse(r, u), UNCHANGED addrs,
         \A o \in Requests \ {r} :
           u \in Patient /\ req[o].user = u => req[o].pc \in {"idle", "commit"}
  PROVE  AddressInv'
<1> DEFINE q == [Blank EXCEPT !.pc = "reply", !.user = u]
<1>1. /\ q \in Request /\ q.pc = "reply" /\ q.user = u /\ q.op = None /\ q.id = None
      /\ q.sets = None /\ q.targets = {} /\ q.cleared = {} /\ q.locks = {}
  BY DEF Blank, Request
<1>2. req' = [req EXCEPT ![r] = q]
  BY DEF Refuse
<1> HIDE DEF q
<1>3. None # TRUE /\ None \notin AddrIds /\ None \notin Writers
  BY NullAssumption
<1>4. Stage(q) /\ Refers(q, addrs) /\ Tracks(q, addrs)
  BY <1>1, <1>3 DEF Stage, Refers, Tracks, Writers
<1>5. \A o \in Requests \ {r} : Apart(q, req[o])
  BY <1>1, <1>3 DEF Apart, Writers
<1>6. ASSUME NEW o \in Requests \ {r} PROVE Apart(req[o], q)
  <2>1. req[o].op = "create" => req[o].id \in AddrIds
    BY <1>3 DEF AddressInv, Stage, Writers
  <2> QED
    BY <1>1, <1>3, <2>1 DEF Apart, Writers
<1> QED
  BY <1>1, <1>2, <1>4, <1>5, <1>6, StepKeeps

(* The answer has left, or the worker died.                                   *)
LEMMA BlankKeeps ==
  ASSUME AddressInv, NEW r \in Requests, req' = [req EXCEPT ![r] = Blank], UNCHANGED addrs
  PROVE  AddressInv'
<1>1. /\ Blank \in Request /\ Blank.pc = "idle" /\ Blank.user = None /\ Blank.op = None
      /\ Blank.id = None /\ Blank.sets = None /\ Blank.targets = {}
      /\ Blank.cleared = {} /\ Blank.locks = {}
  BY DEF Blank, Request
<1>2. None # TRUE /\ None \notin AddrIds /\ None \notin Writers
  BY NullAssumption
<1>3. Stage(Blank) /\ Refers(Blank, addrs) /\ Tracks(Blank, addrs)
  BY <1>1, <1>2 DEF Stage, Refers, Tracks, Writers
<1>4. \A o \in Requests \ {r} : Apart(Blank, req[o])
  BY <1>1, <1>2 DEF Apart, Writers
<1>5. ASSUME NEW o \in Requests \ {r} PROVE Apart(req[o], Blank)
  <2>1. req[o].op = "create" => req[o].id \in AddrIds
    BY <1>2 DEF AddressInv, Stage, Writers
  <2> QED
    BY <1>1, <1>2, <2>1 DEF Apart, Writers
<1> QED
  BY <1>1, <1>3, <1>4, <1>5, StepKeeps

-----------------------------------------------------------------------------
(* A handler enters its database work: the SELECT found what it needs.        *)
LEMMA ProceedKeeps ==
  ASSUME AddressInv, NEW r \in Requests, NEW pc \in {"begin", "answer", "flush"},
         NEW op \in Writers, NEW u \in Users, NEW a \in AddrIds,
         NEW sets \in BOOLEAN \union {None},
         Arrives(r, u), Proceed(r, pc, op, u, a, sets), UNCHANGED addrs,
         IF op = "create" THEN a \in FreshIds /\ sets \in BOOLEAN /\ pc # "flush"
                          ELSE a \in Owned(u),
         op = "delete" => sets = None /\ pc = "flush",
         op = "update" /\ pc = "answer" => sets = None,
         sets = TRUE <=> pc = "begin"
  PROVE  AddressInv'
<1> DEFINE q == [pc |-> pc, op |-> op, user |-> u, id |-> a, sets |-> sets,
                 targets |-> {}, cleared |-> {}, locks |-> {}]
<1>1. /\ q \in Request /\ q.pc = pc /\ q.user = u /\ q.op = op /\ q.id = a
      /\ q.sets = sets /\ q.targets = {} /\ q.cleared = {} /\ q.locks = {}
  BY DEF Request
<1>2. req' = [req EXCEPT ![r] = q]
  BY DEF Proceed
<1> HIDE DEF q
<1>3. None # TRUE /\ None \notin Writers
  BY NullAssumption
<1>4. /\ op = "create" => /\ addrs[a] = None
                          /\ \A o \in Requests : a # req[o].id /\ a \notin req[o].targets
      /\ op # "create" => addrs[a] # None /\ addrs[a].owner = u
  BY DEF FreshIds, Owned
<1>5. Stage(q)
  BY <1>1, <1>3 DEF Stage, Writers
<1>6. Refers(q, addrs) /\ Tracks(q, addrs)
  BY <1>1, <1>4 DEF Refers, Tracks, Writers
<1>7. \A o \in Requests : u \in Patient /\ req[o].user = u => req[o].pc \in {"idle", "commit"}
  BY DEF Arrives, Unanswered
<1>8. \A o \in Requests \ {r} : req[o].op = "create" => addrs[req[o].id] = None
  BY DEF AddressInv, Refers
<1>9. \A o \in Requests \ {r} : Apart(q, req[o]) /\ Apart(req[o], q)
  BY <1>1, <1>4, <1>7, <1>8 DEF Apart
<1> QED
  BY <1>1, <1>2, <1>5, <1>6, <1>9, StepKeeps

(* A handler answers 404, or fails on an explicit null.                       *)
LEMMA RefuseArrivalKeeps ==
  ASSUME AddressInv, NEW r \in Requests, NEW u \in Users, Arrives(r, u),
         Refuse(r, u), UNCHANGED addrs
  PROVE  AddressInv'
<1>1. \A o \in Requests : u \in Patient /\ req[o].user = u => req[o].pc \in {"idle", "commit"}
  BY DEF Arrives, Unanswered
<1> QED
  BY <1>1, RefuseKeeps

(* The three arrivals.                                                        *)
LEMMA ArriveKeeps ==
  ASSUME AddressInv, NEW r \in Requests, Arrive(r)
  PROVE  AddressInv'
<1>0. None # TRUE /\ None # FALSE
  BY NullAssumption
<1>1. CASE Create(r)
  <2>1. PICK u \in Users, wants \in BOOLEAN, a \in FreshIds :
          /\ Arrives(r, u)
          /\ Proceed(r, IF wants \/ Owned(u) = {} THEN "begin" ELSE "answer",
                     "create", u, a, wants \/ Owned(u) = {})
    BY <1>1 DEF Create
  <2>2. a \in AddrIds /\ UNCHANGED addrs
    BY <1>1 DEF FreshIds, Create
  <2>3. CASE wants \/ Owned(u) = {}
    <3>1. Proceed(r, "begin", "create", u, a, TRUE)
      BY <2>1, <2>3 DEF Proceed
    <3> QED
      BY <2>1, <2>2, <3>1, ProceedKeeps DEF Writers
  <2>4. CASE ~(wants \/ Owned(u) = {})
    <3>1. Proceed(r, "answer", "create", u, a, FALSE)
      BY <2>1, <2>4 DEF Proceed
    <3> QED
      BY <2>1, <2>2, <3>1, ProceedKeeps DEF Writers
  <2> QED
    BY <2>3, <2>4
<1>2. CASE Update(r)
  <2>1. PICK u \in Users, a \in AddrIds :
          /\ Arrives(r, u)
          /\ \/ Refuse(r, u)
             \/ /\ a \in Owned(u)
                /\ \E d \in BOOLEAN \union {None} :
                     Proceed(r, IF d = addrs[a].default THEN "answer"
                                ELSE IF d = TRUE THEN "begin" ELSE "flush",
                             "update", u, a, IF d = addrs[a].default THEN None ELSE d)
    BY <1>2 DEF Update
  <2>2. UNCHANGED addrs
    BY <1>2 DEF Update
  <2>3. ASSUME a \in Owned(u), NEW d \in BOOLEAN \union {None},
               Proceed(r, IF d = addrs[a].default THEN "answer"
                          ELSE IF d = TRUE THEN "begin" ELSE "flush",
                       "update", u, a, IF d = addrs[a].default THEN None ELSE d)
        PROVE  AddressInv'
    <3>1. CASE d = addrs[a].default
      <4>1. Proceed(r, "answer", "update", u, a, None)
        BY <2>3, <3>1
      <4> QED
        BY <1>0, <2>1, <2>2, <2>3, <4>1, ProceedKeeps DEF Writers
    <3>2. CASE d # addrs[a].default /\ d = TRUE
      <4>1. Proceed(r, "begin", "update", u, a, TRUE)
        BY <2>3, <3>2
      <4> QED
        BY <1>0, <2>1, <2>2, <2>3, <4>1, ProceedKeeps DEF Writers
    <3>3. CASE d # addrs[a].default /\ d # TRUE
      <4>1. Proceed(r, "flush", "update", u, a, d)
        BY <2>3, <3>3
      <4> QED
        BY <1>0, <2>1, <2>2, <2>3, <3>3, <4>1, ProceedKeeps DEF Writers
    <3> QED
      BY <3>1, <3>2, <3>3
  <2> QED
    BY <2>1, <2>2, <2>3, RefuseArrivalKeeps
<1>3. CASE Delete(r)
  <2>1. PICK u \in Users, a \in AddrIds :
          /\ Arrives(r, u)
          /\ \/ Refuse(r, u)
             \/ a \in Owned(u) /\ Proceed(r, "flush", "delete", u, a, None)
    BY <1>3 DEF Delete
  <2>2. UNCHANGED addrs
    BY <1>3 DEF Delete
  <2> QED
    BY <1>0, <2>1, <2>2, RefuseArrivalKeeps, ProceedKeeps DEF Writers
<1> QED
  BY <1>1, <1>2, <1>3 DEF Arrive

-----------------------------------------------------------------------------
(* The UPDATE that clears the user's other defaults takes its snapshot.       *)
LEMMA StartClearKeeps ==
  ASSUME AddressInv, NEW r \in Requests, StartClear(r)
  PROVE  AddressInv'
<1> DEFINE D == DefaultsIn(addrs, req[r].user)
           q == [req[r] EXCEPT !.targets = D, !.pc = IF D = {} THEN AfterClear(r) ELSE "clear"]
<1>1. D \subseteq AddrIds /\ \A a \in D : addrs[a] # None /\ addrs[a].owner = req[r].user
  BY DEF DefaultsIn
<1>2. /\ req[r] \in Request /\ Stage(req[r]) /\ Refers(req[r], addrs)
      /\ req[r].pc = "begin" /\ UNCHANGED addrs
  BY DEF AddressInv, StartClear
<1>3. /\ q \in Request /\ q.op = req[r].op /\ q.user = req[r].user /\ q.id = req[r].id
      /\ q.sets = req[r].sets /\ q.cleared = req[r].cleared /\ q.locks = req[r].locks
      /\ q.targets = D /\ q.pc = IF D = {} THEN AfterClear(r) ELSE "clear"
  BY <1>1, <1>2 DEF Request, AfterClear
<1>4. req' = [req EXCEPT ![r] = q]
  BY <1>2, DefaultsAre DEF AddressInv, StartClear
<1>5. D = DefaultsIn(addrs, q.user)
  BY <1>3
<1> HIDE DEF q, D
<1>6. Stage(q)
  BY <1>2, <1>3 DEF Stage, AfterClear
<1>7. Refers(q, addrs) /\ Tracks(q, addrs)
  BY <1>1, <1>2, <1>3, <1>5 DEF Stage, Refers, Tracks, AfterClear
<1>8. ASSUME NEW o \in Requests \ {r} PROVE Apart(q, req[o]) /\ Apart(req[o], q)
  <2>1. Apart(req[r], req[o]) /\ Apart(req[o], req[r])
    BY DEF AddressInv
  <2>2. req[o].op = "create" => addrs[req[o].id] = None
    BY DEF AddressInv, Refers
  <2> QED
    BY <1>1, <1>2, <1>3, <2>1, <2>2 DEF Apart
<1> QED
  BY <1>2, <1>3, <1>4, <1>6, <1>7, <1>8, StepKeeps

(* It locks one more row, and clears it if it is still a default.             *)
LEMMA ClearRowKeeps ==
  ASSUME AddressInv, NEW r \in Requests, ClearRow(r)
  PROVE  AddressInv'
<1>1. PICK a \in req[r].targets :
        /\ HoldersOf(a, r) = {}
        /\ req' = [req EXCEPT ![r].targets = @ \ {a},
                     ![r].locks = @ \union Found(a),
                     ![r].cleared = @ \union ({a} \intersect Defaults(req[r].user)),
                     ![r].pc = IF req[r].targets = {a} THEN AfterClear(r) ELSE "clear"]
  BY DEF ClearRow
<1> DEFINE D == {a} \intersect DefaultsIn(addrs, req[r].user)
           q == [req[r] EXCEPT !.targets = @ \ {a}, !.locks = @ \union Found(a),
                   !.cleared = @ \union D,
                   !.pc = IF req[r].targets = {a} THEN AfterClear(r) ELSE "clear"]
<1>2. /\ req[r] \in Request /\ Stage(req[r]) /\ Refers(req[r], addrs)
      /\ Tracks(req[r], addrs) /\ req[r].pc = "clear" /\ UNCHANGED addrs
  BY DEF AddressInv, ClearRow
<1>3. /\ a \in AddrIds /\ Found(a) \subseteq {a} /\ (a \in Found(a) <=> addrs[a] # None)
      /\ D \subseteq Found(a)
      /\ a \in DefaultsIn(addrs, req[r].user) => a \in D
      /\ \A o \in Requests \ {r} : a \notin req[o].locks
  BY <1>1, <1>2 DEF Request, Found, HoldersOf, DefaultsIn
<1>4. /\ q \in Request /\ q.op = req[r].op /\ q.user = req[r].user /\ q.id = req[r].id
      /\ q.sets = req[r].sets /\ q.cleared = req[r].cleared \union D
      /\ q.locks = req[r].locks \union Found(a)
      /\ q.targets = req[r].targets \ {a}
      /\ q.pc = IF req[r].targets = {a} THEN AfterClear(r) ELSE "clear"
  BY <1>2, <1>3 DEF Request, AfterClear
<1>5. req' = [req EXCEPT ![r] = q]
  BY <1>1, DefaultsAre DEF AddressInv
<1>6. a \in req[r].targets
  OBVIOUS
<1> HIDE DEF q, D
<1>7. Stage(q)
  BY <1>2, <1>3, <1>4, <1>6 DEF Stage, AfterClear
<1>8. Refers(q, addrs)
  BY <1>2, <1>3, <1>4, <1>6 DEF Stage, Refers, AfterClear
<1>9. Tracks(q, addrs)
  BY <1>2, <1>3, <1>4, <1>6 DEF Tracks
<1>10. ASSUME NEW o \in Requests \ {r} PROVE Apart(q, req[o]) /\ Apart(req[o], q)
  <2>1. Apart(req[r], req[o]) /\ Apart(req[o], req[r])
    BY DEF AddressInv
  <2> QED
    BY <1>2, <1>3, <1>4, <2>1 DEF Apart
<1> QED
  BY <1>2, <1>4, <1>5, <1>7, <1>8, <1>9, <1>10, StepKeeps

-----------------------------------------------------------------------------
(* The flush of the request's own row.                                        *)
LEMMA FlushRowKeeps ==
  ASSUME AddressInv, NEW r \in Requests, FlushRow(r)
  PROVE  AddressInv'
<1> DEFINE a == req[r].id
           q == [req[r] EXCEPT !.pc = "answer", !.locks = @ \union Found(a)]
<1>1. /\ req[r] \in Request /\ Stage(req[r]) /\ Refers(req[r], addrs)
      /\ Tracks(req[r], addrs) /\ req[r].pc = "flush" /\ UNCHANGED addrs
      /\ req[r].op = "update" => addrs[a] # None
  BY DEF AddressInv, FlushRow
<1>2. a \in AddrIds /\ req[r].op \in {"update", "delete"}
  BY <1>1 DEF Stage, Request, Writers
<1>3. /\ Found(a) \subseteq {a} /\ (a \in Found(a) <=> addrs[a] # None)
      /\ \A o \in Requests \ {r} : a \notin req[o].locks
  BY <1>2 DEF FlushRow, Found, HoldersOf
<1>4. /\ q \in Request /\ q.op = req[r].op /\ q.user = req[r].user /\ q.id = a
      /\ q.sets = req[r].sets /\ q.cleared = req[r].cleared
      /\ q.locks = req[r].locks \union Found(a)
      /\ q.targets = req[r].targets /\ q.pc = "answer"
  BY <1>1, <1>2, <1>3 DEF Request
<1>5. req' = [req EXCEPT ![r] = q]
  BY DEF AddressInv, FlushRow
<1> HIDE DEF q
<1>6. Stage(q)
  BY <1>1, <1>2, <1>3, <1>4 DEF Stage
<1>7. Refers(q, addrs) /\ Tracks(q, addrs)
  BY <1>1, <1>2, <1>3, <1>4 DEF Refers, Tracks
<1>8. ASSUME NEW o \in Requests \ {r} PROVE Apart(q, req[o]) /\ Apart(req[o], q)
  <2>1. Apart(req[r], req[o]) /\ Apart(req[o], req[r])
    BY DEF AddressInv
  <2> QED
    BY <1>1, <1>3, <1>4, <2>1 DEF Apart
<1> QED
  BY <1>1, <1>4, <1>5, <1>6, <1>7, <1>8, StepKeeps

(* A handler that held locks or waited for them rolls back.                   *)
LEMMA RefuseInHandlerKeeps ==
  ASSUME AddressInv, NEW r \in Requests, req[r].pc \in {"clear", "flush"},
         Refuse(r, req[r].user), UNCHANGED addrs
  PROVE  AddressInv'
<1>1. req[r].user \in Users
  BY DEF AddressInv, Stage
<1>2. ASSUME NEW o \in Requests \ {r}, req[r].user \in Patient, req[o].user = req[r].user
      PROVE  req[o].pc \in {"idle", "commit"}
  <2>1. Apart(req[r], req[o])
    BY DEF AddressInv
  <2> QED
    BY <1>2, <2>1 DEF Apart
<1> QED
  BY <1>1, <1>2, RefuseKeeps

(* StaleDataError, or the victim of a deadlock.                               *)
LEMMA FailKeeps ==
  ASSUME AddressInv, NEW r \in Requests, StaleData(r) \/ DeadlockVictim(r)
  PROVE  AddressInv'
<1>1. CASE StaleData(r)
  BY <1>1, RefuseInHandlerKeeps DEF StaleData
<1>2. CASE DeadlockVictim(r)
  <2>1. WaitsFor(r) # {} /\ Refuse(r, req[r].user) /\ UNCHANGED addrs
    BY <1>2 DEF DeadlockVictim, InCycle, AllWait
  <2>2. req[r].pc \in {"clear", "flush"}
    BY <2>1 DEF WaitsFor
  <2> QED
    BY <2>1, <2>2, RefuseInHandlerKeeps
<1> QED
  BY <1>1, <1>2

(* The answer leaves, before the commit or after it.                          *)
LEMMA SendKeeps ==
  ASSUME AddressInv, NEW r \in Requests, Send(r)
  PROVE  AddressInv'
<1>1. UNCHANGED addrs
  BY DEF Send
<1>2. CASE req[r].pc = "reply"
  BY <1>1, <1>2, BlankKeeps DEF Send, AddressInv
<1>3. CASE req[r].pc # "reply"
  <2> DEFINE q == [req[r] EXCEPT !.pc = "commit"]
  <2>1. /\ ReplyFirst /\ req[r].pc = "answer" /\ req' = [req EXCEPT ![r] = q]
        /\ req[r] \in Request /\ Stage(req[r]) /\ Refers(req[r], addrs)
    BY <1>3 DEF Send, AddressInv
  <2>2. /\ q \in Request /\ q.op = req[r].op /\ q.user = req[r].user /\ q.id = req[r].id
        /\ q.sets = req[r].sets /\ q.cleared = req[r].cleared /\ q.locks = req[r].locks
        /\ q.targets = req[r].targets /\ q.pc = "commit"
    BY <2>1 DEF Request
  <2> HIDE DEF q
  <2>3. Stage(q)
    BY <2>1, <2>2 DEF Stage
  <2>4. Refers(q, addrs) /\ Tracks(q, addrs)
    BY <2>1, <2>2 DEF Refers, Tracks
  <2>5. ASSUME NEW o \in Requests \ {r} PROVE Apart(q, req[o]) /\ Apart(req[o], q)
    <3>1. Apart(req[r], req[o]) /\ Apart(req[o], req[r])
      BY DEF AddressInv
    <3> QED
      BY <2>2, <3>1 DEF Apart
  <2> QED
    BY <1>1, <2>1, <2>2, <2>3, <2>4, <2>5, StepKeeps
<1> QED
  BY <1>2, <1>3

-----------------------------------------------------------------------------
(* A slot whose transaction is over says nothing about any table.             *)
LEMMA OverSaysNothing ==
  ASSUME NEW q, q.pc \in {"idle", "reply"},
         q.pc = "idle" => q.user = None, q.pc = "reply" => q.user \in Users,
         q.op = None, q.sets = None, q.targets = {}, q.cleared = {}, q.locks = {},
         NEW t
  PROVE  Stage(q) /\ Refers(q, t) /\ Tracks(q, t)
<1>1. None # TRUE /\ None \notin Writers
  BY NullAssumption
<1> QED
  BY <1>1 DEF Stage, Refers, Tracks, Writers

(* What a commit does to the table: it keeps owners, adds only the created    *)
(* row, and changes nothing else that it has not locked.                      *)
LEMMA CommitWrites ==
  ASSUME AddressInv, NEW r \in Requests, Commit(r), NEW a \in AddrIds
  PROVE  /\ addrs'[a] = Written(r, a) /\ addrs'[a] \in Address \union {None}
         /\ addrs[a] # None /\ addrs'[a] # None => addrs'[a].owner = addrs[a].owner
         /\ addrs[a] = None /\ addrs'[a] # None
              => a = req[r].id /\ req[r].op = "create" /\ addrs'[a].owner = req[r].user
         /\ addrs[a] # None /\ addrs'[a] # addrs[a] => a \in req[r].locks
<1>1. /\ req[r] \in Request /\ Stage(req[r]) /\ Refers(req[r], addrs)
      /\ req[r].pc \in {"answer", "commit"} /\ addrs'[a] = Written(r, a)
      /\ addrs[a] \in Address \union {None}
  BY DEF AddressInv, Commit
<1>2. None \notin Address /\ None # TRUE /\ None \notin Writers
  BY NullAssumption, RowAssumption
<1>3. /\ req[r].user \in Users /\ req[r].op \in Writers
  BY <1>1 DEF Stage, Request
<1>4. CASE a = req[r].id /\ req[r].op = "create"
  <2>1. /\ addrs'[a] = [owner |-> req[r].user, default |-> req[r].sets]
        /\ req[r].sets \in BOOLEAN /\ addrs[a] = None
    BY <1>1, <1>4 DEF Written, Stage, Refers
  <2> QED
    BY <1>1, <1>3, <1>4, <2>1 DEF Address
<1>5. CASE a = req[r].id /\ req[r].op = "delete"
  <2>1. addrs'[a] = None
    BY <1>1, <1>5 DEF Written
  <2> QED
    BY <1>1, <1>5, <2>1 DEF Refers
<1>6. CASE a = req[r].id /\ req[r].op = "update" /\ req[r].sets # None
  <2>1. /\ addrs'[a] = [addrs[a] EXCEPT !.default = req[r].sets]
        /\ req[r].sets \in BOOLEAN /\ a \in req[r].locks /\ addrs[a] \in Address
    BY <1>1, <1>6 DEF Written, Stage, Refers, Request
  <2> QED
    BY <1>1, <1>2, <2>1 DEF Address
<1>7. CASE a # req[r].id /\ a \in req[r].cleared
  <2>1. /\ addrs'[a] = [addrs[a] EXCEPT !.default = FALSE]
        /\ a \in req[r].locks /\ addrs[a] \in Address
    BY <1>1, <1>7 DEF Written, Stage, Refers
  <2> QED
    BY <1>1, <1>2, <2>1 DEF Address
<1>8. CASE /\ a # req[r].id \/ (req[r].op = "update" /\ req[r].sets = None)
           /\ a = req[r].id \/ a \notin req[r].cleared
  <2>1. addrs'[a] = addrs[a]
    BY <1>1, <1>8 DEF Written
  <2> QED
    BY <1>1, <2>1
<1> QED
  BY <1>3, <1>4, <1>5, <1>6, <1>7, <1>8 DEF Writers

(* The defaults of the user of the commit, and of the others.                 *)
LEMMA CommitDefaults ==
  ASSUME AddressInv, NEW r \in Requests, Commit(r)
  PROVE  /\ \A u : u # req[r].user => DefaultsIn(addrs', u) = DefaultsIn(addrs, u)
         /\ req[r].sets # TRUE
              => DefaultsIn(addrs', req[r].user) \subseteq DefaultsIn(addrs, req[r].user)
         /\ \A a \in req[r].cleared \ {req[r].id} : ~addrs'[a].default
         /\ req[r].sets = TRUE => DefaultsIn(addrs', req[r].user)
              \subseteq (DefaultsIn(addrs, req[r].user) \ req[r].cleared) \union {req[r].id}
<1>1. /\ req[r] \in Request /\ Stage(req[r]) /\ Refers(req[r], addrs)
      /\ req[r].pc \in {"answer", "commit"}
      /\ \A a \in AddrIds : addrs[a] \in Address \union {None}
  BY DEF AddressInv, Commit
<1>2. None \notin Address /\ None # TRUE /\ None # FALSE
  BY NullAssumption, RowAssumption
<1>3. ASSUME NEW u, u # req[r].user, NEW a \in AddrIds
      PROVE  a \in DefaultsIn(addrs', u) <=> a \in DefaultsIn(addrs, u)
  BY <1>1, <1>3, CommitWrites DEF DefaultsIn, Refers
<1>4. ASSUME NEW a \in req[r].cleared \ {req[r].id}
      PROVE  a \in AddrIds /\ ~addrs'[a].default
  <2>1. a \in AddrIds /\ addrs[a] # None
    BY <1>1 DEF Request, Stage, Refers
  <2>2. addrs'[a] = Written(r, a)
    BY <2>1, CommitWrites
  <2>3. addrs'[a] = [addrs[a] EXCEPT !.default = FALSE] /\ addrs[a] \in Address
    BY <1>1, <2>1, <2>2 DEF Written
  <2> QED
    BY <2>1, <2>3 DEF Address
<1>5. ASSUME NEW a \in DefaultsIn(addrs', req[r].user), a # req[r].id
      PROVE  a \in DefaultsIn(addrs, req[r].user) \ req[r].cleared
  <2>1. a \in AddrIds /\ addrs'[a] = Written(r, a)
    BY CommitWrites DEF DefaultsIn
  <2>2. a \notin req[r].cleared
    BY <1>4, <1>5 DEF DefaultsIn
  <2>3. addrs'[a] = addrs[a]
    BY <1>5, <2>1, <2>2 DEF Written
  <2> QED
    BY <2>1, <2>2, <2>3 DEF DefaultsIn
<1>6. ASSUME req[r].sets # TRUE, req[r].id \in DefaultsIn(addrs', req[r].user)
      PROVE  req[r].id \in DefaultsIn(addrs, req[r].user)
  <2> DEFINE a == req[r].id
  <2>1. a \in AddrIds /\ addrs'[a] = Written(r, a) /\ addrs'[a] # None /\ addrs'[a].default
    BY <1>6, CommitWrites DEF DefaultsIn
  <2>2. req[r].op # "delete"
    BY <2>1 DEF Written
  <2>3. req[r].op # "create"
    <3>1. SUFFICES ASSUME req[r].op = "create" PROVE FALSE
      OBVIOUS
    <3>2. addrs'[a] = [owner |-> req[r].user, default |-> req[r].sets]
      BY <2>1, <3>1 DEF Written
    <3>3. req[r].sets = FALSE
      BY <1>1, <1>6, <3>1 DEF Stage
    <3> QED
      BY <2>1, <3>2, <3>3
  <2>4. req[r].sets = None
    <3>1. SUFFICES ASSUME req[r].sets = FALSE PROVE FALSE
      BY <1>1, <1>6 DEF Request
    <3>2. req[r].op = "update" /\ a \in req[r].locks
      BY <1>1, <1>2, <2>2, <2>3, <3>1 DEF Stage, Request, Writers
    <3>3. addrs'[a] = [addrs[a] EXCEPT !.default = FALSE] /\ addrs[a] \in Address
      BY <1>1, <1>2, <2>1, <3>1, <3>2 DEF Written, Refers
    <3> QED
      BY <2>1, <3>3 DEF Address
  <2>5. addrs'[a] = addrs[a]
    BY <2>1, <2>2, <2>3, <2>4 DEF Written
  <2> QED
    BY <1>6, <2>1, <2>5 DEF DefaultsIn
<1>7. \A u : u # req[r].user => DefaultsIn(addrs', u) = DefaultsIn(addrs, u)
  <2>1. \A t, u : DefaultsIn(t, u) \subseteq AddrIds
    BY DEF DefaultsIn
  <2> QED
    BY <1>3, <2>1
<1> QED
  BY <1>4, <1>5, <1>6, <1>7

(* The commit: every other request's view of the table still holds.           *)
LEMMA CommitKeeps ==
  ASSUME AddressInv, NEW r \in Requests, Commit(r)
  PROVE  AddressInv'
<1> DEFINE q == IF ReplyFirst THEN Blank
                ELSE [Blank EXCEPT !.pc = "reply", !.user = req[r].user]
<1>1. /\ req[r] \in Request /\ Stage(req[r]) /\ Refers(req[r], addrs)
      /\ Tracks(req[r], addrs) /\ req[r].user \in Users
      /\ req[r].pc = IF ReplyFirst THEN "commit" ELSE "answer"
      /\ req[r].id \in AddrIds /\ req[r].op \in Writers /\ req[r].targets = {}
  BY DEF AddressInv, Commit, Stage, Request
<1>2. /\ q \in Request /\ q.op = None /\ q.id = None /\ q.sets = None /\ q.targets = {}
      /\ q.cleared = {} /\ q.locks = {} /\ q.pc \in {"idle", "reply"}
      /\ q.pc = "idle" => q.user = None
      /\ q.pc = "reply" => q.user = req[r].user /\ ~ReplyFirst
  BY <1>1 DEF Blank, Request
<1>3. req' = [req EXCEPT ![r] = q]
  BY DEF Commit, Refuse
<1> HIDE DEF q
<1>4. /\ req'[r] = q /\ \A o \in Requests \ {r} : req'[o] = req[o]
      /\ req' \in [Requests -> Request]
  BY <1>2, <1>3 DEF AddressInv
<1>5. addrs' \in [AddrIds -> Address \union {None}]
  BY CommitWrites DEF Commit
<1>6. \A t : Stage(q) /\ Refers(q, t) /\ Tracks(q, t)
  BY <1>1, <1>2, OverSaysNothing
<1>7. ASSUME NEW o \in Requests \ {r}
      PROVE  Refers(req[o], addrs') /\ Tracks(req[o], addrs')
  <2>1. /\ Stage(req[o]) /\ Refers(req[o], addrs) /\ Tracks(req[o], addrs)
        /\ Apart(req[r], req[o]) /\ Apart(req[o], req[r]) /\ req[o] \in Request
    BY DEF AddressInv
  <2>2. None \notin Writers
    BY NullAssumption
  <2>3. \A a \in req[o].locks : a \in AddrIds /\ addrs[a] # None /\ addrs'[a] = addrs[a]
    BY <2>1, CommitWrites DEF Apart, Refers, Request
  <2>4. \A a \in req[o].targets :
          /\ a \in AddrIds
          /\ addrs'[a] # None => addrs[a] # None /\ addrs'[a].owner = addrs[a].owner
    BY <2>1, CommitWrites DEF Apart, Request
  <2>5. req[o].op # None =>
          /\ req[o].id \in AddrIds
          /\ addrs'[req[o].id] # None =>
               addrs[req[o].id] # None /\ addrs'[req[o].id].owner = addrs[req[o].id].owner
    BY <2>1, CommitWrites DEF Apart, Stage
  <2>6. Refers(req[o], addrs')
    BY <2>1, <2>2, <2>3, <2>4, <2>5 DEF Refers, Writers
  <2>7. ASSUME ~ReplyFirst, req[o].user \in Patient, req[o].sets = TRUE
        PROVE  req[o].user # req[r].user
    <3>1. None # TRUE
      BY NullAssumption
    <3> QED
      BY <1>1, <2>1, <2>7, <3>1 DEF Apart, Stage
  <2>8. Tracks(req[o], addrs')
    BY <2>1, <2>7, CommitDefaults DEF Tracks
  <2> QED
    BY <2>6, <2>8
<1>8. ASSUME NEW o \in Requests \ {r} PROVE Apart(q, req[o]) /\ Apart(req[o], q)
  <2>1. Apart(req[r], req[o]) /\ Apart(req[o], req[r]) /\ Stage(req[o])
    BY DEF AddressInv
  <2>2. None \notin AddrIds /\ None \notin Writers
    BY NullAssumption
  <2>3. req[o].op = "create" => req[o].id \in AddrIds
    BY <2>1, <2>2 DEF Stage, Writers
  <2> QED
    BY <1>1, <1>2, <2>1, <2>2, <2>3 DEF Apart, Writers
<1>9. ASSUME ~ReplyFirst, NEW u \in Patient PROVE AtMostOne(DefaultsIn(addrs', u))
  <2>1. AtMostOne(DefaultsIn(addrs, u))
    BY <1>9 DEF AddressInv, SingleDefault
  <2>2. CASE u # req[r].user
    BY <2>1, <2>2, CommitDefaults
  <2>3. CASE u = req[r].user /\ req[r].sets # TRUE
    BY <2>1, <2>3, CommitDefaults DEF AtMostOne
  <2>4. CASE u = req[r].user /\ req[r].sets = TRUE
    <3>1. DefaultsIn(addrs, u) \subseteq req[r].cleared \union {req[r].id}
      BY <1>1, <1>9, <2>4 DEF Tracks
    <3>2. DefaultsIn(addrs', u) \subseteq {req[r].id}
      BY <2>4, <3>1, CommitDefaults
    <3> QED
      BY <3>2 DEF AtMostOne
  <2> QED
    BY <2>2, <2>3, <2>4
<1>10. SingleDefault(addrs')
  BY <1>9 DEF SingleDefault
<1>11. \A o \in Requests : /\ Stage(req'[o])
                           /\ Refers(req'[o], addrs') /\ Tracks(req'[o], addrs')
  BY <1>4, <1>6, <1>7 DEF AddressInv
<1>12. \A o, p \in Requests : o # p => Apart(req'[o], req'[p])
  BY <1>4, <1>8 DEF AddressInv
<1> QED
  BY <1>4, <1>5, <1>10, <1>11, <1>12 DEF AddressInv

-----------------------------------------------------------------------------
(* The empty table and no request.                                            *)
LEMMA InitInv == ASSUME Init PROVE AddressInv
<1>1. \A r \in Requests : /\ req[r] = Blank /\ Stage(Blank)
                          /\ Refers(Blank, addrs) /\ Tracks(Blank, addrs)
  BY OverSaysNothing DEF Init, Blank
<1>2. Blank \in Request
  BY DEF Blank, Request
<1>3. Apart(Blank, Blank)
  BY NullAssumption DEF Apart, Blank, Writers
<1>4. \A u : DefaultsIn(addrs, u) = {}
  BY DEF Init, DefaultsIn
<1> QED
  BY <1>1, <1>2, <1>3, <1>4 DEF Init, AddressInv, SingleDefault, AtMostOne

(* Every step.                                                                *)
LEMMA NextInv == ASSUME AddressInv, [Next]_vars PROVE AddressInv'
<1>1. CASE UNCHANGED vars
  BY <1>1 DEF vars, AddressInv
<1>2. ASSUME NEW r \in Requests, Drop(r) PROVE AddressInv'
  BY <1>2, BlankKeeps DEF Drop
<1> QED
  BY <1>1, <1>2, ArriveKeeps, StartClearKeeps, ClearRowKeeps, FlushRowKeeps, FailKeeps,
     CommitKeeps, SendKeeps DEF Next, Progress

(* The invariant of Addresses.                                                *)
THEOREM AddressInvariant == Spec => []AddressInv
BY InitInv, NextInv, PTL DEF Spec

(* Types hold, and a request locks and clears only rows of its own user that  *)
(* are there.                                                                 *)
THEOREM AddressTypes == Spec => []TypeOK
<1>1. AddressInv => TypeOK
  BY DEF AddressInv, TypeOK, Stage, Refers
<1> QED
  BY <1>1, AddressInvariant, PTL

(* A set whose members are all the same has at most one of them.              *)
LEMMA AtMostOneCounts == \A S : AtMostOne(S) => Cardinality(S) <= 1
<1>1. ASSUME NEW S, AtMostOne(S) PROVE Cardinality(S) <= 1
  <2>1. CASE S = {}
    BY <2>1, FS_EmptySet
  <2>2. CASE S # {}
    <3>1. PICK a : S = {a}
      BY <1>1, <2>2 DEF AtMostOne
    <3> QED
      BY <3>1, FS_Singleton
  <2> QED
    BY <2>1, <2>2
<1> QED
  BY <1>1

(* With the commit before the answer, a user whose client awaits each answer  *)
(* has at most one default address: _clear_default_addresses sees every       *)
(* default there can be.                                                      *)
THEOREM OneDefaultServedInTurn == Spec => []OneDefaultIfServedInTurn
<1>1. AddressInv => OneDefaultIfServedInTurn
  BY AtMostOneCounts, DefaultsAre DEF AddressInv, SingleDefault, OneDefaultIfServedInTurn
<1> QED
  BY <1>1, AddressInvariant, PTL

-----------------------------------------------------------------------------
(* Only a commit changes the table, and its slot then waits for its client.   *)
LEMMA OnlyCommits ==
  ASSUME AddressInv, Next, addrs' # addrs
  PROVE  \E r \in Requests : Commit(r) /\ Commits(r)
<1>1. PICK r \in Requests : Commit(r)
  BY DEF Next, Arrive, Create, Update, Delete, Progress, StartClear, ClearRow, FlushRow,
         StaleData, DeadlockVictim, Send, Drop
<1>2. req[r].pc \in {"answer", "commit"} /\ req'[r].pc \in {"idle", "reply"}
  <2>1. CASE ReplyFirst
    BY <1>1, <2>1 DEF Commit, AddressInv, Blank
  <2>2. CASE ~ReplyFirst
    <3>1. req' = [req EXCEPT ![r] = [Blank EXCEPT !.pc = "reply", !.user = req[r].user]]
      BY <1>1, <2>2 DEF Commit, Refuse
    <3>2. req'[r] = [Blank EXCEPT !.pc = "reply", !.user = req[r].user]
      BY <3>1 DEF AddressInv
    <3>3. [Blank EXCEPT !.pc = "reply", !.user = req[r].user].pc = "reply"
      BY DEF Blank
    <3> QED
      BY <1>1, <2>2, <3>2, <3>3 DEF Commit
  <2> QED
    BY <2>1, <2>2
<1> QED
  BY <1>1, <1>2 DEF Commits

(* An address changes or goes only by the commit of a request of its owner.   *)
THEOREM OwnersOnly == Spec => OnlyOwnerWrites
<1>1. ASSUME AddressInv, [Next]_vars, NEW a \in AddrIds, addrs[a] # None, addrs'[a] # addrs[a]
      PROVE  \E r \in Requests : Commits(r) /\ req[r].user = addrs[a].owner
  <2>1. PICK r \in Requests : Commit(r) /\ Commits(r)
    BY <1>1, OnlyCommits DEF vars
  <2>2. a \in req[r].locks
    BY <1>1, <2>1, CommitWrites
  <2> QED
    BY <1>1, <2>1, <2>2 DEF AddressInv, Refers
<1>2. AddressInv /\ [Next]_vars =>
        [\A a \in AddrIds : addrs[a] # None /\ addrs'[a] # addrs[a] =>
           \E r \in Requests : Commits(r) /\ req[r].user = addrs[a].owner]_vars
  BY <1>1
<1> QED
  BY <1>2, AddressInvariant, PTL DEF Spec, OnlyOwnerWrites

(* The last default of a user goes only when its owner deletes or unsets it:  *)
(* a switch of the default in update_address clears and sets in one           *)
(* transaction, on a row it has locked or made.                               *)
THEOREM SwitchKeepsDefault == Spec => DefaultLostOnlyOnPurpose
<1>1. ASSUME AddressInv, [Next]_vars, NEW u \in Users, Defaults(u) # {}, Defaults(u)' = {}
      PROVE  \E r \in Requests : /\ Commits(r) /\ Defaults(u) = {req[r].id}
                                 /\ req[r].op = "delete" \/ req[r].sets = FALSE
  <2>1. Defaults(u) = DefaultsIn(addrs, u) /\ Defaults(u)' = DefaultsIn(addrs', u)
    BY DEF Defaults, Owned, DefaultsIn
  <2>2. addrs' # addrs
    BY <1>1, <2>1
  <2>3. PICK r \in Requests : Commit(r) /\ Commits(r)
    BY <1>1, <2>2, OnlyCommits DEF vars
  <2>4. u = req[r].user
    BY <1>1, <2>1, <2>3, CommitDefaults
  <2>5. /\ req[r] \in Request /\ Stage(req[r]) /\ Refers(req[r], addrs)
        /\ req[r].pc \in {"answer", "commit"} /\ req[r].op \in Writers
        /\ \A a \in AddrIds : addrs[a] \in Address \union {None}
    BY <1>1, <2>3 DEF AddressInv, Commit, Stage, Request
  <2>6. None # TRUE /\ None # FALSE /\ None \notin Address
    BY NullAssumption, RowAssumption
  <2>7. req[r].sets # TRUE
    <3>1. SUFFICES ASSUME req[r].sets = TRUE PROVE FALSE
      OBVIOUS
    <3> DEFINE a == req[r].id
    <3>2. a \in AddrIds /\ addrs'[a] = Written(r, a)
      BY <1>1, <2>3, <2>5, CommitWrites DEF Stage, Writers
    <3>3. addrs'[a] # None /\ addrs'[a].owner = u /\ addrs'[a].default
      <4>1. CASE req[r].op = "create"
        <5>1. addrs'[a] = [owner |-> u, default |-> TRUE]
          BY <2>4, <3>1, <3>2, <4>1 DEF Written
        <5>2. addrs'[a] \in Address
          BY <5>1 DEF Address
        <5>3. addrs'[a].owner = u /\ addrs'[a].default
          BY <5>1
        <5> QED
          BY <2>6, <5>2, <5>3
      <4>2. CASE req[r].op = "update"
        <5>1. /\ addrs'[a] = [addrs[a] EXCEPT !.default = TRUE] /\ a \in req[r].locks
          BY <2>5, <2>6, <3>1, <3>2, <4>2 DEF Written, Stage
        <5>2. addrs[a] \in Address /\ addrs[a].owner = u
          BY <2>4, <2>5, <3>2, <5>1 DEF Refers
        <5>3. addrs'[a] \in Address /\ addrs'[a].owner = u /\ addrs'[a].default
          BY <5>1, <5>2 DEF Address
        <5> QED
          BY <2>6, <5>3
      <4> QED
        BY <2>5, <2>6, <3>1, <4>1, <4>2 DEF Stage, Writers
    <3> QED
      BY <1>1, <2>1, <3>2, <3>3 DEF DefaultsIn
  <2>8. req[r].cleared = {}
    BY <2>5, <2>7 DEF Stage
  <2>9. ASSUME NEW a \in Defaults(u)
        PROVE  a = req[r].id /\ (req[r].op = "delete" \/ req[r].sets = FALSE)
    <3>1. /\ a \in AddrIds /\ addrs'[a] = Written(r, a) /\ addrs'[a] # addrs[a]
          /\ addrs[a] # None
      BY <1>1, <2>1, <2>3, CommitWrites DEF DefaultsIn
    <3>2. a = req[r].id
      BY <2>8, <3>1 DEF Written
    <3>3. req[r].op # "create"
      BY <2>5, <3>1, <3>2 DEF Refers
    <3>4. req[r].op = "delete" \/ req[r].sets # None
      BY <2>5, <3>1, <3>2, <3>3 DEF Written, Writers
    <3> QED
      BY <2>5, <2>7, <3>2, <3>4 DEF Request
  <2> QED
    BY <1>1, <2>3, <2>9
<1>2. AddressInv /\ [Next]_vars =>
        [\A u \in Users : Defaults(u) # {} /\ Defaults(u)' = {} =>
           \E r \in Requests : /\ Commits(r) /\ Defaults(u) = {req[r].id}
                               /\ req[r].op = "delete" \/ req[r].sets = FALSE]_vars
  BY <1>1
<1> QED
  BY <1>2, AddressInvariant, PTL DEF Spec, DefaultLostOnlyOnPurpose

-----------------------------------------------------------------------------
(* The refinement of AddressBook.                                             *)
OwnedIn(t, u) == {a \in AddrIds : t[a] # None /\ t[a].owner = u}

(* A request of a user served in turn that adds an address without making it  *)
(* the default has seen another one, which is still there.                    *)
SawAnother(q, t) ==
  ~ReplyFirst /\ q.user \in Patient /\ q.op = "create" /\ q.sets # TRUE
    => OwnedIn(t, q.user) # {}

BookInv == AddressInv /\ \A r \in Requests : SawAnother(req[r], addrs)

(* Addresses, with the table as a parameter.                                  *)
LEMMA OwnedAre == \A u : Owned(u) = OwnedIn(addrs, u)
BY DEF Owned, OwnedIn

(* A step that leaves the table alone and gives slot r the request q.         *)
LEMMA SlotSawAnother ==
  ASSUME BookInv, NEW r \in Requests, NEW q, req' = [req EXCEPT ![r] = q],
         SawAnother(q, addrs), UNCHANGED addrs
  PROVE  \A o \in Requests : SawAnother(req'[o], addrs')
BY DEF BookInv, AddressInv

(* The steps of a handler before its commit neither change what it is about   *)
(* nor the table, or end it.                                                  *)
LEMMA StepSawAnother ==
  ASSUME BookInv, NEW r \in Requests, NEW q, req' = [req EXCEPT ![r] = q],
         \/ q.op = None
         \/ q.op = req[r].op /\ q.sets = req[r].sets /\ q.user = req[r].user,
         UNCHANGED addrs
  PROVE  \A o \in Requests : SawAnother(req'[o], addrs')
<1>1. SawAnother(q, addrs)
  BY NullAssumption DEF BookInv, SawAnother, Writers
<1> QED
  BY <1>1, SlotSawAnother

(* A slot that only answers, or nothing.                                      *)
LEMMA OverSawAnother ==
  ASSUME BookInv, NEW r \in Requests, UNCHANGED addrs,
         req' = [req EXCEPT ![r] = Blank] \/ \E u : Refuse(r, u)
  PROVE  \A o \in Requests : SawAnother(req'[o], addrs')
<1>1. CASE req' = [req EXCEPT ![r] = Blank]
  BY <1>1, StepSawAnother DEF Blank
<1>2. ASSUME NEW u, Refuse(r, u) PROVE \A o \in Requests : SawAnother(req'[o], addrs')
  <2> DEFINE q == [Blank EXCEPT !.pc = "reply", !.user = u]
  <2>1. q.op = None /\ req' = [req EXCEPT ![r] = q]
    BY <1>2 DEF Refuse, Blank
  <2> HIDE DEF q
  <2> QED
    BY <2>1, StepSawAnother
<1> QED
  BY <1>1, <1>2

(* Arrivals: the count of create_address is made while nobody else adds or    *)
(* removes an address of the user.                                            *)
LEMMA ArriveSawAnother ==
  ASSUME BookInv, NEW r \in Requests, Arrive(r)
  PROVE  \A o \in Requests : SawAnother(req'[o], addrs')
<1>1. UNCHANGED addrs
  BY DEF Arrive, Create, Update, Delete
<1>2. ASSUME NEW pc, NEW op, NEW u, NEW a, NEW sets, Proceed(r, pc, op, u, a, sets),
             op = "create" /\ sets # TRUE => Owned(u) # {}
      PROVE  \A o \in Requests : SawAnother(req'[o], addrs')
  <2> DEFINE q == [pc |-> pc, op |-> op, user |-> u, id |-> a, sets |-> sets,
                   targets |-> {}, cleared |-> {}, locks |-> {}]
  <2>1. q.op = op /\ q.user = u /\ q.sets = sets
    OBVIOUS
  <2>2. req' = [req EXCEPT ![r] = q]
    BY <1>2 DEF Proceed
  <2> HIDE DEF q
  <2>3. SawAnother(q, addrs)
    BY <1>2, <2>1, OwnedAre DEF SawAnother
  <2> QED
    BY <1>1, <2>2, <2>3, SlotSawAnother
<1>3. CASE Create(r)
  <2>1. PICK u \in Users, wants \in BOOLEAN, a \in FreshIds :
          Proceed(r, IF wants \/ Owned(u) = {} THEN "begin" ELSE "answer",
                  "create", u, a, wants \/ Owned(u) = {})
    BY <1>3 DEF Create
  <2>2. (wants \/ Owned(u) = {}) # TRUE => Owned(u) # {}
    OBVIOUS
  <2> QED
    BY <1>2, <2>1, <2>2
<1>4. CASE Update(r) \/ Delete(r)
  <2>1. \/ \E u : Refuse(r, u)
        \/ \E pc, u, a, sets : Proceed(r, pc, "update", u, a, sets)
        \/ \E pc, u, a, sets : Proceed(r, pc, "delete", u, a, sets)
    BY <1>4 DEF Update, Delete
  <2> QED
    BY <1>1, <1>2, <2>1, OverSawAnother
<1> QED
  BY <1>3, <1>4 DEF Arrive

(* What a commit does to the addresses of a user.                             *)
LEMMA CommitOwned ==
  ASSUME AddressInv, NEW r \in Requests, Commit(r)
  PROVE  /\ \A u : u # req[r].user => OwnedIn(addrs', u) = OwnedIn(addrs, u)
         /\ req[r].op = "create" => /\ OwnedIn(addrs', req[r].user)
                                         = OwnedIn(addrs, req[r].user) \union {req[r].id}
                                    /\ \A u : req[r].id \notin OwnedIn(addrs, u)
         /\ req[r].op = "update" => OwnedIn(addrs', req[r].user)
                                      = OwnedIn(addrs, req[r].user)
         /\ req[r].op = "delete" => OwnedIn(addrs', req[r].user)
                                      = OwnedIn(addrs, req[r].user) \ {req[r].id}
<1>1. /\ req[r] \in Request /\ Stage(req[r]) /\ Refers(req[r], addrs)
      /\ req[r].pc \in {"answer", "commit"} /\ req[r].id \in AddrIds
      /\ req[r].op \in Writers
      /\ \A a \in AddrIds : addrs[a] \in Address \union {None}
  BY DEF AddressInv, Commit, Stage, Request
<1>2. None \notin Address /\ None # TRUE /\ None # FALSE
  BY NullAssumption, RowAssumption
<1>3. ASSUME NEW a \in AddrIds, a # req[r].id \/ req[r].op = "update"
      PROVE  /\ addrs'[a] = None <=> addrs[a] = None
             /\ addrs[a] # None => addrs'[a].owner = addrs[a].owner
  <2>1. /\ addrs'[a] = Written(r, a)
        /\ addrs[a] = None /\ addrs'[a] # None => a = req[r].id /\ req[r].op = "create"
        /\ addrs[a] # None /\ addrs'[a] # None => addrs'[a].owner = addrs[a].owner
    BY CommitWrites
  <2>2. addrs[a] # None => Written(r, a) # None
    <3>1. ASSUME NEW d \in BOOLEAN, addrs[a] # None
          PROVE  [addrs[a] EXCEPT !.default = d] # None
      <4>1. [addrs[a] EXCEPT !.default = d] \in Address
        BY <1>1, <3>1 DEF Address
      <4> QED
        BY <1>2, <4>1
    <3> QED
      BY <1>1, <1>3, <3>1 DEF Written, Request
  <2> QED
    BY <1>3, <2>1, <2>2
<1>4. ASSUME NEW u, u # req[r].user, NEW a \in AddrIds
      PROVE  a \in OwnedIn(addrs', u) <=> a \in OwnedIn(addrs, u)
  BY <1>1, <1>4, CommitWrites DEF OwnedIn, Refers
<1>5. \A u : u # req[r].user => OwnedIn(addrs', u) = OwnedIn(addrs, u)
  BY <1>4 DEF OwnedIn
<1>6. ASSUME req[r].op = "create"
      PROVE  /\ OwnedIn(addrs', req[r].user) = OwnedIn(addrs, req[r].user) \union {req[r].id}
             /\ \A u : req[r].id \notin OwnedIn(addrs, u)
  <2>1. /\ addrs'[req[r].id] = [owner |-> req[r].user, default |-> req[r].sets]
        /\ addrs[req[r].id] = None /\ req[r].sets \in BOOLEAN /\ req[r].user \in Users
    BY <1>1, <1>6, CommitWrites DEF Written, Refers, Stage
  <2>2. addrs'[req[r].id] # None /\ addrs'[req[r].id].owner = req[r].user
    BY <1>2, <2>1 DEF Address
  <2> QED
    BY <1>1, <1>3, <2>1, <2>2 DEF OwnedIn
<1>7. ASSUME req[r].op = "delete"
      PROVE  OwnedIn(addrs', req[r].user) = OwnedIn(addrs, req[r].user) \ {req[r].id}
  <2>1. addrs'[req[r].id] = None
    BY <1>1, <1>7, CommitWrites DEF Written
  <2> QED
    BY <1>1, <1>3, <2>1 DEF OwnedIn
<1>8. ASSUME req[r].op = "update"
      PROVE  OwnedIn(addrs', req[r].user) = OwnedIn(addrs, req[r].user)
  BY <1>3, <1>8 DEF OwnedIn
<1> QED
  BY <1>5, <1>6, <1>7, <1>8

(* The user of a commit has no other request that is adding an address.       *)
LEMMA CommitSawAnother ==
  ASSUME BookInv, NEW r \in Requests, Commit(r)
  PROVE  \A o \in Requests : SawAnother(req'[o], addrs')
<1> DEFINE q == IF ReplyFirst THEN Blank
                ELSE [Blank EXCEPT !.pc = "reply", !.user = req[r].user]
<1>1. q.op = None /\ req' = [req EXCEPT ![r] = q]
  BY DEF Commit, Refuse, Blank
<1> HIDE DEF q
<1>2. req'[r].op = None /\ \A o \in Requests \ {r} : req'[o] = req[o]
  BY <1>1 DEF BookInv, AddressInv
<1>3. SawAnother(req'[r], addrs')
  BY <1>2, NullAssumption DEF SawAnother, Writers
<1>4. ASSUME NEW o \in Requests \ {r} PROVE SawAnother(req[o], addrs')
  <2> SUFFICES ASSUME ~ReplyFirst, req[o].user \in Patient, req[o].op = "create",
                      req[o].sets # TRUE
               PROVE  OwnedIn(addrs', req[o].user) # {}
    BY DEF SawAnother
  <2>1. req[o].pc \notin {"idle", "commit"} /\ req[r].pc \notin {"idle", "commit"}
    BY NullAssumption DEF BookInv, AddressInv, Stage, Commit, Writers
  <2>2. req[o].user # req[r].user
    BY <2>1 DEF BookInv, AddressInv, Apart
  <2> QED
    BY <2>2, CommitOwned DEF BookInv, SawAnother
<1> QED
  BY <1>2, <1>3, <1>4

(* Every step keeps what a request has seen true.                             *)
LEMMA BookNext == BookInv /\ [Next]_vars => BookInv'
<1> SUFFICES ASSUME BookInv, [Next]_vars PROVE BookInv'
  OBVIOUS
<1>1. AddressInv'
  BY NextInv DEF BookInv
<1>2. ASSUME NEW r \in Requests, Progress(r)
      PROVE  \A o \in Requests : SawAnother(req'[o], addrs')
  <2>1. CASE StartClear(r)
    <3> DEFINE q == [req[r] EXCEPT !.targets = Defaults(req[r].user),
                 !.pc = IF Defaults(req[r].user) = {} THEN AfterClear(r) ELSE "clear"]
    <3>1. req' = [req EXCEPT ![r] = q] /\ UNCHANGED addrs
      BY <2>1 DEF StartClear, BookInv, AddressInv
    <3>2. q.op = req[r].op /\ q.sets = req[r].sets /\ q.user = req[r].user
      BY DEF BookInv, AddressInv, Request
    <3> HIDE DEF q
    <3> QED
      BY <3>1, <3>2, StepSawAnother
  <2>2. CASE ClearRow(r)
    <3>1. PICK a \in req[r].targets :
            req' = [req EXCEPT ![r].targets = @ \ {a},
                      ![r].locks = @ \union Found(a),
                      ![r].cleared = @ \union ({a} \intersect Defaults(req[r].user)),
                      ![r].pc = IF req[r].targets = {a} THEN AfterClear(r) ELSE "clear"]
      BY <2>2 DEF ClearRow
    <3> DEFINE q == [req[r] EXCEPT !.targets = @ \ {a}, !.locks = @ \union Found(a),
                 !.cleared = @ \union ({a} \intersect Defaults(req[r].user)),
                 !.pc = IF req[r].targets = {a} THEN AfterClear(r) ELSE "clear"]
    <3>2. req' = [req EXCEPT ![r] = q] /\ UNCHANGED addrs
      BY <2>2, <3>1 DEF ClearRow, BookInv, AddressInv, Request
    <3>3. q.op = req[r].op /\ q.sets = req[r].sets /\ q.user = req[r].user
      BY DEF BookInv, AddressInv, Request
    <3> HIDE DEF q
    <3> QED
      BY <3>2, <3>3, StepSawAnother
  <2>3. CASE FlushRow(r)
    <3> DEFINE q == [req[r] EXCEPT !.pc = "answer", !.locks = @ \union Found(req[r].id)]
    <3>1. req' = [req EXCEPT ![r] = q] /\ UNCHANGED addrs
      BY <2>3 DEF FlushRow, BookInv, AddressInv, Request
    <3>2. q.op = req[r].op /\ q.sets = req[r].sets /\ q.user = req[r].user
      BY DEF BookInv, AddressInv, Request
    <3> HIDE DEF q
    <3> QED
      BY <3>1, <3>2, StepSawAnother
  <2>4. CASE StaleData(r) \/ DeadlockVictim(r)
    BY <2>4, OverSawAnother DEF StaleData, DeadlockVictim
  <2>5. CASE Send(r)
    <3> DEFINE q == [req[r] EXCEPT !.pc = "commit"]
    <3>1. \/ req' = [req EXCEPT ![r] = Blank]
          \/ req' = [req EXCEPT ![r] = q]
      BY <2>5 DEF Send, BookInv, AddressInv
    <3>2. q.op = req[r].op /\ q.sets = req[r].sets /\ q.user = req[r].user
      BY DEF BookInv, AddressInv, Request
    <3>3. UNCHANGED addrs
      BY <2>5 DEF Send
    <3> HIDE DEF q
    <3> QED
      BY <3>1, <3>2, <3>3, StepSawAnother, OverSawAnother
  <2> QED
    BY <1>2, <2>1, <2>2, <2>3, <2>4, <2>5, CommitSawAnother DEF Progress
<1>3. ASSUME NEW r \in Requests, Drop(r)
      PROVE  \A o \in Requests : SawAnother(req'[o], addrs')
  BY <1>3, OverSawAnother DEF Drop
<1>4. UNCHANGED vars => \A o \in Requests : SawAnother(req'[o], addrs')
  BY DEF vars, BookInv
<1>5. \A o \in Requests : SawAnother(req'[o], addrs')
  BY <1>2, <1>3, <1>4, ArriveSawAnother DEF Next
<1> QED
  BY <1>1, <1>5 DEF BookInv, SawAnother, OwnedIn

(* The invariant of the refinement.                                           *)
LEMMA BookInvariant == Spec => []BookInv
<1>1. ASSUME Init PROVE BookInv
  <2>1. \A r \in Requests : req[r].op = None
    BY <1>1 DEF Init, Blank
  <2> QED
    BY <1>1, <2>1, InitInv, NullAssumption DEF BookInv, SawAnother, Writers
<1> QED
  BY <1>1, BookNext, PTL DEF Spec

(* What a commit does to the default of its user, who is served in turn.      *)
LEMMA CommitInTurn ==
  ASSUME BookInv, NEW r \in Requests, Commit(r), req[r].user \in ServedInTurn
  PROVE  LET u == req[r].user  a == req[r].id  D == DefaultsIn(addrs, u)
             D2 == DefaultsIn(addrs', u)
         IN /\ req[r].sets = TRUE => D2 = {a} /\ a \in OwnedIn(addrs', u)
            /\ req[r].sets = FALSE /\ req[r].op = "create" => D2 = D
            /\ req[r].sets = FALSE /\ req[r].op = "update" => D2 = D \ {a}
            /\ req[r].sets = None /\ req[r].op = "update" => D2 = D
            /\ req[r].op = "delete" => D2 = D \ {a}
<1> DEFINE u == req[r].user
           a == req[r].id
<1>1. /\ req[r] \in Request /\ Stage(req[r]) /\ Refers(req[r], addrs)
      /\ req[r].pc = "answer" /\ a \in AddrIds /\ req[r].op \in Writers
      /\ ~ReplyFirst /\ u \in Patient /\ req[r].targets = {}
      /\ \A b \in AddrIds : addrs[b] \in Address \union {None}
      /\ Tracks(req[r], addrs)
  BY DEF BookInv, AddressInv, Commit, Stage, Request, ServedInTurn
<1>2. None \notin Address /\ None # TRUE /\ None # FALSE /\ None \notin Writers
  BY NullAssumption, RowAssumption
<1>3. addrs'[a] = Written(r, a) /\ \A b \in AddrIds : addrs'[b] = Written(r, b)
  BY <1>1, CommitWrites DEF BookInv
<1>4. CASE req[r].sets = TRUE
  <2>1. addrs'[a] # None /\ addrs'[a].owner = u /\ addrs'[a].default
    <3>1. CASE req[r].op = "create"
      <4>1. addrs'[a] = [owner |-> u, default |-> TRUE] /\ u \in Users
        BY <1>1, <1>3, <1>4, <3>1 DEF Written, Stage
      <4>2. addrs'[a] \in Address
        BY <4>1 DEF Address
      <4>3. addrs'[a].owner = u /\ addrs'[a].default
        BY <4>1
      <4> QED
        BY <1>2, <4>2, <4>3
    <3>2. CASE req[r].op = "update"
      <4>1. /\ addrs'[a] = [addrs[a] EXCEPT !.default = TRUE] /\ addrs[a] # None
            /\ addrs[a].owner = u
        BY <1>1, <1>2, <1>3, <1>4, <3>2 DEF Written, Stage, Refers
      <4>2. addrs'[a] \in Address /\ addrs'[a].owner = u /\ addrs'[a].default
        BY <1>1, <4>1 DEF Address
      <4> QED
        BY <1>2, <4>2
    <3> QED
      BY <1>1, <1>2, <1>4, <3>1, <3>2 DEF Stage, Writers
  <2>2. DefaultsIn(addrs, u) \subseteq req[r].cleared \union {a}
    BY <1>1, <1>4 DEF Tracks
  <2>3. DefaultsIn(addrs', u) \subseteq {a}
    BY <1>4, <2>2, CommitDefaults DEF BookInv
  <2>4. DefaultsIn(addrs', u) = {a} /\ a \in OwnedIn(addrs', u)
    BY <1>1, <2>1, <2>3 DEF DefaultsIn, OwnedIn
  <2>5. req[r].op # "delete"
    BY <1>1, <1>2, <1>4 DEF Stage
  <2> QED
    BY <1>2, <1>4, <2>4, <2>5
<1>5. CASE req[r].sets # TRUE
  <2>1. req[r].cleared = {} /\ DefaultsIn(addrs', u) \subseteq DefaultsIn(addrs, u)
    BY <1>1, <1>5, CommitDefaults DEF Stage, BookInv
  <2>2. \A b \in AddrIds \ {a} : addrs'[b] = addrs[b]
    BY <1>3, <2>1 DEF Written
  <2>3. DefaultsIn(addrs', u) \ {a} = DefaultsIn(addrs, u) \ {a}
    BY <2>2 DEF DefaultsIn
  <2>4. CASE req[r].op = "create"
    <3>1. a \notin DefaultsIn(addrs, u)
      BY <1>1, <2>4 DEF Refers, DefaultsIn
    <3>2. DefaultsIn(addrs', u) = DefaultsIn(addrs, u)
      BY <2>1, <2>3, <3>1
    <3>3. req[r].sets = FALSE
      BY <1>1, <1>5, <2>4 DEF Stage
    <3> QED
      BY <2>4, <3>2, <3>3
  <2>5. CASE req[r].op = "delete"
    <3>1. addrs'[a] = None /\ req[r].sets = None
      BY <1>1, <1>3, <2>5 DEF Written, Stage
    <3>2. DefaultsIn(addrs', u) = DefaultsIn(addrs, u) \ {a}
      BY <2>3, <3>1 DEF DefaultsIn
    <3> QED
      BY <1>2, <2>5, <3>1, <3>2
  <2>6. CASE req[r].op = "update" /\ req[r].sets = FALSE
    <3>1. /\ addrs'[a] = [addrs[a] EXCEPT !.default = FALSE] /\ addrs[a] # None
      BY <1>1, <1>2, <1>3, <2>6 DEF Written, Stage, Refers
    <3>2. ~addrs'[a].default
      BY <1>1, <3>1 DEF Address
    <3>3. DefaultsIn(addrs', u) = DefaultsIn(addrs, u) \ {a}
      BY <2>3, <3>2 DEF DefaultsIn
    <3> QED
      BY <1>2, <2>6, <3>3
  <2>7. CASE req[r].op = "update" /\ req[r].sets = None
    <3>1. addrs'[a] = addrs[a]
      BY <1>3, <2>7 DEF Written
    <3>2. DefaultsIn(addrs', u) = DefaultsIn(addrs, u)
      BY <2>2, <3>1 DEF DefaultsIn
    <3> QED
      BY <1>2, <2>7, <3>2
  <2> QED
    BY <1>1, <1>5, <2>4, <2>5, <2>6, <2>7 DEF Request, Writers
<1> QED
  BY <1>4, <1>5

(* Every commit is one operation of the book of its user, or changes no book. *)
LEMMA CommitMaps ==
  ASSUME BookInv, NEW r \in Requests, Commit(r)
  PROVE  [Book!Next]_(Book!vars)
<1> DEFINE u == req[r].user
           a == req[r].id
           B == [v \in ServedInTurn |-> Owned(v)]
           D == [v \in ServedInTurn |-> Defaults(v)]
           B2 == [v \in ServedInTurn |-> OwnedIn(addrs', v)]
           D2 == [v \in ServedInTurn |-> DefaultsIn(addrs', v)]
<1>1. B' = B2 /\ D' = D2
  BY DEF Owned, OwnedIn, Defaults, DefaultsIn
<1>2. \A v \in ServedInTurn : B[v] = OwnedIn(addrs, v) /\ D[v] = DefaultsIn(addrs, v)
  BY OwnedAre, DefaultsAre
<1>3. \A v \in ServedInTurn \ {u} : B2[v] = B[v] /\ D2[v] = D[v]
  BY <1>2, CommitOwned, CommitDefaults DEF BookInv
<1>4. CASE u \notin ServedInTurn
  <2>1. B2 = B /\ D2 = D
    BY <1>3, <1>4
  <2> QED
    BY <1>1, <2>1 DEF Book!vars
<1>5. CASE u \in ServedInTurn
  <2>1. /\ a \in AddrIds /\ req[r].op \in Writers /\ req[r].sets \in BOOLEAN \union {None}
        /\ Stage(req[r]) /\ AtMostOne(D[u]) /\ SawAnother(req[r], addrs)
        /\ ~ReplyFirst /\ u \in Patient
    BY <1>2, <1>5 DEF BookInv, AddressInv, Commit, Stage, Request, SingleDefault, ServedInTurn
  <2>2. \A S, T : /\ B2[u] = S => B2 = [B EXCEPT ![u] = S]
                  /\ D2[u] = T => D2 = [D EXCEPT ![u] = T]
    BY <1>3
  <2>3. B2[u] = OwnedIn(addrs', u) /\ D2[u] = DefaultsIn(addrs', u)
    BY <1>5
  <2> HIDE DEF B, D, B2, D2
  <2>4. CASE req[r].op = "create"
    <3>1. /\ B2[u] = B[u] \union {a} /\ \A v \in ServedInTurn : a \notin B[v]
      BY <1>2, <1>5, <2>3, <2>4, CommitOwned DEF BookInv
    <3>2. B2 = [B EXCEPT ![u] = B[u] \union {a}]
      BY <2>2, <3>1
    <3>3. \/ D2 = [D EXCEPT ![u] = {a}]
          \/ B[u] # {} /\ D2 = D
      <4>1. CASE req[r].sets = TRUE
        BY <1>5, <2>2, <2>3, <4>1, CommitInTurn
      <4>2. CASE req[r].sets # TRUE
        <5>1. D2[u] = D[u]
          BY <1>2, <1>5, <2>1, <2>3, <2>4, <4>2, CommitInTurn DEF Stage
        <5>2. D2 = D
          BY <1>3, <5>1 DEF D, D2
        <5>3. B[u] # {}
          BY <1>2, <1>5, <2>1, <2>4, <4>2 DEF SawAnother
        <5> QED
          BY <5>2, <5>3
      <4> QED
        BY <4>1, <4>2
    <3>4. Book!Add(u)
      BY <1>1, <2>1, <3>1, <3>2, <3>3 DEF Book!Add, B, D
    <3> QED
      BY <1>5, <3>4 DEF Book!Next
  <2>5. CASE req[r].op = "update"
    <3>1. B2 = B
      BY <1>2, <1>3, <1>5, <2>3, <2>5, CommitOwned DEF B, B2, BookInv
    <3>2. CASE req[r].sets = TRUE
      <4>1. D2[u] = {a} /\ a \in B[u]
        BY <1>5, <2>3, <3>1, <3>2, CommitInTurn
      <4>2. Book!Switch(u)
        BY <1>1, <2>2, <3>1, <4>1 DEF Book!Switch, B, D
      <4> QED
        BY <1>5, <4>2 DEF Book!Next
    <3>3. CASE req[r].sets = FALSE
      <4>1. D2[u] = D[u] \ {a}
        BY <1>2, <1>5, <2>3, <2>5, <3>3, CommitInTurn
      <4>2. CASE a \in D[u]
        <5>1. D2[u] = {}
          BY <2>1, <4>1, <4>2 DEF AtMostOne
        <5>2. Book!Unset(u)
          BY <1>1, <2>2, <3>1, <5>1 DEF Book!Unset, B, D
        <5> QED
          BY <1>5, <5>2 DEF Book!Next
      <4>3. CASE a \notin D[u]
        <5>1. D2 = D
          BY <1>3, <4>1, <4>3 DEF D, D2
        <5> QED
          BY <1>1, <3>1, <5>1 DEF Book!vars, B, D
      <4> QED
        BY <4>2, <4>3
    <3>4. CASE req[r].sets = None
      <4>1. D2[u] = D[u]
        BY <1>2, <1>5, <2>3, <2>5, <3>4, NullAssumption, CommitInTurn
      <4>2. D2 = D
        BY <1>3, <4>1 DEF D, D2
      <4> QED
        BY <1>1, <3>1, <4>2 DEF Book!vars, B, D
    <3> QED
      BY <2>1, <3>2, <3>3, <3>4
  <2>6. CASE req[r].op = "delete"
    <3>1. B2[u] = B[u] \ {a} /\ D2[u] = D[u] \ {a}
      <4>1. req[r].sets = None
        BY <2>1, <2>6 DEF Stage
      <4> QED
        BY <1>2, <1>5, <2>3, <2>6, <4>1, NullAssumption, CommitInTurn, CommitOwned DEF BookInv
    <3>2. CASE a \in B[u]
      <4>1. Book!Remove(u)
        BY <1>1, <2>2, <3>1, <3>2 DEF Book!Remove, B, D
      <4> QED
        BY <1>5, <4>1 DEF Book!Next
    <3>3. CASE a \notin B[u]
      <4>1. a \notin D[u]
        BY <1>2, <1>5, <3>3 DEF DefaultsIn, OwnedIn
      <4>2. B2[u] = B[u] /\ D2[u] = D[u]
        BY <3>1, <3>3, <4>1
      <4>3. B2 = B
        BY <1>3, <4>2 DEF B, B2
      <4>4. D2 = D
        BY <1>3, <4>2 DEF D, D2
      <4> QED
        BY <1>1, <4>3, <4>4 DEF Book!vars, B, D
    <3> QED
      BY <3>2, <3>3
  <2> QED
    BY <2>1, <2>4, <2>5, <2>6 DEF Writers
<1> QED
  BY <1>4, <1>5

(* To a user who is served in turn the address endpoints are an address book, *)
(* for any number of users and requests of others in between.                 *)
THEOREM BookImplemented == Spec => ImplementsBook
<1>1. Init => Book!Init
  BY DEF Init, Book!Init, Owned, Defaults
<1>2. BookInv /\ [Next]_vars => [Book!Next]_(Book!vars)
  <2> SUFFICES ASSUME BookInv, [Next]_vars PROVE [Book!Next]_(Book!vars)
    OBVIOUS
  <2>1. CASE addrs' = addrs
    BY <2>1 DEF Book!vars, Owned, Defaults
  <2>2. ASSUME NEW r \in Requests, Commit(r) PROVE [Book!Next]_(Book!vars)
    BY <2>2, CommitMaps
  <2> QED
    BY <2>1, <2>2, OnlyCommits DEF BookInv, vars
<1> QED
  BY <1>1, <1>2, BookInvariant, PTL DEF Spec, ImplementsBook, Book!Spec

-----------------------------------------------------------------------------
(* What the book promises, on its own.                                        *)
BookSound == \A u \in ServedInTurn : AtMostOne(Defaults(u))

(* Each of its operations leaves a user at most one default.                  *)
LEMMA BookKeeps ==
  ASSUME BookSound, [Book!Next]_(Book!vars)
  PROVE  BookSound'
<1> DEFINE D == [u \in ServedInTurn |-> Defaults(u)]
<1>1. \A u \in ServedInTurn : D[u] = Defaults(u) /\ D'[u] = Defaults(u)'
  BY DEF ServedInTurn
<1>2. CASE D' = D
  <2> HIDE DEF D
  <2> QED
    BY <1>1, <1>2 DEF BookSound, ServedInTurn
<1>3. ASSUME NEW u \in ServedInTurn, NEW S, AtMostOne(S), D' = [D EXCEPT ![u] = S]
      PROVE  BookSound'
  <2>1. \A v \in ServedInTurn : D'[v] = IF v = u THEN S ELSE D[v]
    BY <1>3
  <2> HIDE DEF D
  <2> QED
    BY <1>1, <1>3, <2>1 DEF BookSound, ServedInTurn
<1>4. CASE UNCHANGED Book!vars
  BY <1>2, <1>4 DEF Book!vars
<1>5. ASSUME NEW u \in ServedInTurn, Book!Add(u) PROVE BookSound'
  <2>1. PICK a \in AddrIds : D' = [D EXCEPT ![u] = {a}] \/ D' = D
    BY <1>5 DEF Book!Add
  <2>2. AtMostOne({a})
    BY DEF AtMostOne
  <2> HIDE DEF D
  <2> QED
    BY <1>2, <1>3, <2>1, <2>2
<1>6. ASSUME NEW u \in ServedInTurn, Book!Switch(u) PROVE BookSound'
  <2>1. PICK a : D' = [D EXCEPT ![u] = {a}]
    BY <1>6 DEF Book!Switch
  <2>2. AtMostOne({a})
    BY DEF AtMostOne
  <2> HIDE DEF D
  <2> QED
    BY <1>3, <2>1, <2>2
<1>7. ASSUME NEW u \in ServedInTurn, Book!Unset(u) PROVE BookSound'
  <2>1. D' = [D EXCEPT ![u] = {}]
    BY <1>7 DEF Book!Unset
  <2>2. AtMostOne({})
    BY DEF AtMostOne
  <2> HIDE DEF D
  <2> QED
    BY <1>3, <2>1, <2>2
<1>8. ASSUME NEW u \in ServedInTurn, Book!Remove(u) PROVE BookSound'
  <2>1. PICK a : D' = [D EXCEPT ![u] = D[u] \ {a}]
    BY <1>8 DEF Book!Remove
  <2>2. AtMostOne(D[u] \ {a})
    BY DEF AtMostOne, BookSound
  <2> HIDE DEF D
  <2> QED
    BY <1>3, <2>1, <2>2
<1> QED
  BY <1>4, <1>5, <1>6, <1>7, <1>8 DEF Book!Next

(* The abstract specification alone gives what the comment at service.py:380  *)
(* promises: the refinement is enough for the single default.                 *)
THEOREM BookHasOneDefault == ImplementsBook => []OneDefaultIfServedInTurn
<1>1. Book!Init => BookSound
  <2> DEFINE D == [u \in ServedInTurn |-> Defaults(u)]
  <2> SUFFICES ASSUME Book!Init PROVE BookSound
    OBVIOUS
  <2>1. \A u \in ServedInTurn : D[u] = Defaults(u) /\ D[u] = {}
    BY DEF Book!Init
  <2> HIDE DEF D
  <2> QED
    BY <2>1 DEF BookSound, AtMostOne
<1>2. BookSound /\ [Book!Next]_(Book!vars) => BookSound'
  BY BookKeeps
<1>3. BookSound => OneDefaultIfServedInTurn
  BY AtMostOneCounts DEF BookSound, OneDefaultIfServedInTurn, ServedInTurn
<1> QED
  BY <1>1, <1>2, <1>3, PTL DEF ImplementsBook, Book!Spec

-----------------------------------------------------------------------------
(* Deadlock freedom.                                                          *)
(* A finite set whose members all wait for one another has a smallest such    *)
(* subset.                                                                    *)
LEMMA SmallestWait ==
  ASSUME NEW R \in SUBSET Requests, AllWait(R)
  PROVE  \E S \in SUBSET Requests :
           AllWait(S) /\ \A T \in SUBSET S : AllWait(T) => T = S
<1> DEFINE waits == {S \in SUBSET Requests : AllWait(S)}
<1>1. IsWellFoundedOn(StrictSubsetOrdering(Requests), SUBSET Requests)
  BY RequestsAssumption, FS_StrictSubsetOrderingWellFounded, FS_FiniteSubsetsOfFinite
<1>2. waits \subseteq SUBSET Requests /\ R \in waits
  OBVIOUS
<1> HIDE DEF waits
<1>3. PICK S \in waits : \A T \in waits : ~(<<T, S>> \in StrictSubsetOrdering(Requests))
  BY <1>1, <1>2, WFMin
<1> USE DEF waits
<1>4. ASSUME NEW T \in SUBSET S, AllWait(T) PROVE T = S
  <2>1. T \in waits /\ S \in SUBSET Requests /\ T \in SUBSET Requests
    BY <1>3, <1>4
  <2>2. ~(T \subseteq S /\ T # S)
    BY <1>3, <2>1 DEF StrictSubsetOrdering
  <2> QED
    BY <2>2
<1> QED
  BY <1>3, <1>4

(* A request waits only for requests that are being served.                   *)
LEMMA WaitsForServed ==
  ASSUME AddressInv, NEW r \in Requests
  PROVE  WaitsFor(r) \subseteq {o \in Requests : req[o].pc # "idle"}
<1>1. \A a : HoldersOf(a, r) \subseteq {o \in Requests : req[o].pc # "idle"}
  BY DEF HoldersOf, AddressInv, Stage
<1> QED
  BY <1>1 DEF WaitsFor

(* One that is being served and waits for nobody can go on.                   *)
LEMMA UnblockedProceeds ==
  ASSUME AddressInv, NEW r \in Requests, req[r].pc # "idle", WaitsFor(r) = {}
  PROVE  CanProceed(r)
<1>1. req[r].pc \in {"begin", "clear", "flush", "answer", "commit", "reply"}
  BY DEF AddressInv, Request
<1>2. CASE req[r].pc = "clear"
  <2>1. req[r].targets # {}
    BY <1>2 DEF AddressInv, Stage
  <2>2. (\E a \in req[r].targets : HoldersOf(a, r) = {})
          \/ UNION {HoldersOf(a, r) : a \in req[r].targets} = {}
    BY <1>2 DEF WaitsFor
  <2>3. \E a \in req[r].targets : HoldersOf(a, r) = {}
    BY <2>1, <2>2
  <2> QED
    BY <1>2, <2>3 DEF CanProceed
<1>3. CASE req[r].pc = "flush"
  BY <1>3 DEF WaitsFor, CanProceed
<1>4. CASE req[r].pc = "commit"
  BY <1>4 DEF AddressInv, Stage, CanProceed
<1> QED
  BY <1>1, <1>2, <1>3, <1>4 DEF CanProceed

(* No number of requests, of one user or of many, ever waits for one another  *)
(* for good: service.py:356 locks a user's rows in no fixed order, and every  *)
(* cycle that makes is one that PostgreSQL breaks.                            *)
THEOREM NoStandingDeadlock == Spec => []NeverStuck
<1>1. AddressInv => NeverStuck
  <2> SUFFICES ASSUME AddressInv, NEW q \in Requests, req[q].pc # "idle"
               PROVE  \E r \in Requests : CanProceed(r)
    BY DEF NeverStuck
  <2> DEFINE served == {o \in Requests : req[o].pc # "idle"}
  <2>1. CASE \E r \in served : WaitsFor(r) = {}
    BY <2>1, UnblockedProceeds
  <2>2. CASE \A r \in served : WaitsFor(r) # {}
    <3>1. served \in SUBSET Requests /\ q \in served
      OBVIOUS
    <3>2. AllWait(served)
      BY <2>2, <3>1, WaitsForServed DEF AllWait
    <3>3. PICK S \in SUBSET Requests :
            AllWait(S) /\ \A T \in SUBSET S : AllWait(T) => T = S
      BY <3>1, <3>2, SmallestWait
    <3>4. PICK r \in S : TRUE
      BY <3>3 DEF AllWait
    <3>5. r \in Requests /\ InCycle(r)
      BY <3>3, <3>4 DEF InCycle
    <3> QED
      BY <3>5 DEF CanProceed
  <2> QED
    BY <2>1, <2>2
<1> QED
  BY <1>1, AddressInvariant, PTL

-----------------------------------------------------------------------------
(* How far a request still has to go, by the place of its handler.            *)
Rank(pc) ==
  CASE pc = "idle" -> 0
    [] pc = "reply" -> 1
    [] pc = "commit" -> 2
    [] pc = "answer" -> 3
    [] pc = "flush" -> 4
    [] pc = "clear" -> 5
    [] pc = "begin" -> 6

(* Nearer to the end; or, while the UPDATE locks one row after the other,     *)
(* with fewer rows to go.                                                     *)
Nearer(p, q) ==
  \/ Rank(p.pc) < Rank(q.pc)
  \/ p.pc = "clear" /\ q.pc = "clear" /\ p.targets \subseteq q.targets /\ p.targets # q.targets

StepsForward ==
  [][\A r \in Requests :
       req[r].pc # "idle" /\ req'[r] # req[r] => Nearer(req'[r], req[r])]_vars

(* A refusal ends a request that has not been answered.                       *)
LEMMA RefuseNearer ==
  ASSUME AddressInv, NEW r \in Requests, NEW u, Refuse(r, u),
         req[r].pc \notin {"idle", "reply"}
  PROVE  Nearer(req'[r], req[r])
<1>1. req'[r].pc = "reply"
  BY DEF Refuse, Blank, AddressInv
<1>2. req[r].pc \in {"begin", "clear", "flush", "answer", "commit"}
  BY DEF AddressInv, Request
<1> QED
  BY <1>1, <1>2 DEF Nearer, Rank

(* Its own steps.                                                             *)
LEMMA ProgressNearer ==
  ASSUME AddressInv, NEW r \in Requests, Progress(r)
  PROVE  Nearer(req'[r], req[r])
<1>0. req \in [Requests -> Request] /\ req[r] \in Request
  BY DEF AddressInv
<1>1. CASE StartClear(r)
  <2>1. req[r].pc = "begin" /\ req'[r].pc \in {"clear", "flush", "answer"}
    BY <1>0, <1>1 DEF StartClear, AfterClear, Request
  <2> QED
    BY <2>1 DEF Nearer, Rank
<1>2. CASE ClearRow(r)
  <2>1. PICK a \in req[r].targets :
          req' = [req EXCEPT ![r].targets = @ \ {a},
                    ![r].locks = @ \union Found(a),
                    ![r].cleared = @ \union ({a} \intersect Defaults(req[r].user)),
                    ![r].pc = IF req[r].targets = {a} THEN AfterClear(r) ELSE "clear"]
    BY <1>2 DEF ClearRow
  <2>2. /\ req[r].pc = "clear" /\ req'[r].pc \in {"clear", "flush", "answer"}
        /\ req'[r].targets = req[r].targets \ {a}
    BY <1>0, <1>2, <2>1 DEF ClearRow, AfterClear, Request
  <2>3. req'[r].targets \subseteq req[r].targets /\ req'[r].targets # req[r].targets
    BY <2>2
  <2>4. CASE req'[r].pc = "clear"
    BY <2>2, <2>3, <2>4 DEF Nearer
  <2>5. CASE req'[r].pc # "clear"
    BY <2>2, <2>5 DEF Nearer, Rank
  <2> QED
    BY <2>4, <2>5
<1>3. CASE FlushRow(r)
  <2>1. req[r].pc = "flush" /\ req'[r].pc = "answer"
    BY <1>0, <1>3 DEF FlushRow, Request
  <2> QED
    BY <2>1 DEF Nearer, Rank
<1>4. CASE StaleData(r)
  BY <1>4, RefuseNearer DEF StaleData
<1>5. CASE DeadlockVictim(r)
  <2>1. WaitsFor(r) # {}
    BY <1>5 DEF DeadlockVictim, InCycle, AllWait
  <2>2. req[r].pc \notin {"idle", "reply"}
    BY <2>1 DEF WaitsFor
  <2> QED
    BY <1>5, <2>2, RefuseNearer DEF DeadlockVictim
<1>6. CASE Commit(r)
  <2>1. CASE ReplyFirst
    <3>1. req[r].pc = "commit" /\ req'[r].pc = "idle"
      BY <1>0, <1>6, <2>1 DEF Commit, Blank
    <3> QED
      BY <3>1 DEF Nearer, Rank
  <2> QED
    BY <1>6, <2>1, RefuseNearer DEF Commit
<1>7. CASE Send(r)
  <2>1. CASE req[r].pc = "reply"
    <3>1. req'[r].pc = "idle"
      BY <1>0, <1>7, <2>1 DEF Send, Blank
    <3> QED
      BY <2>1, <3>1 DEF Nearer, Rank
  <2>2. CASE req[r].pc # "reply"
    <3>1. req[r].pc = "answer" /\ req'[r].pc = "commit"
      BY <1>0, <1>7, <2>2 DEF Send, Request
    <3> QED
      BY <3>1 DEF Nearer, Rank
  <2> QED
    BY <2>1, <2>2
<1> QED
  BY <1>1, <1>2, <1>3, <1>4, <1>5, <1>6, <1>7 DEF Progress

(* A step of a slot touches no other slot.                                    *)
LEMMA OneSlotSteps ==
  ASSUME AddressInv, NEW o \in Requests, Arrive(o) \/ Progress(o) \/ Drop(o)
  PROVE  \A r \in Requests \ {o} : req'[r] = req[r]
<1>1. req \in [Requests -> Request]
  BY DEF AddressInv
<1>2. CASE Arrive(o)
  BY <1>1, <1>2 DEF Arrive, Create, Update, Delete, Proceed, Refuse
<1>3. CASE Drop(o)
  BY <1>1, <1>3 DEF Drop
<1>4. CASE StartClear(o) \/ ClearRow(o) \/ FlushRow(o)
  BY <1>1, <1>4 DEF StartClear, ClearRow, FlushRow
<1>5. CASE StaleData(o) \/ DeadlockVictim(o) \/ Commit(o) \/ Send(o)
  BY <1>1, <1>5 DEF StaleData, DeadlockVictim, Commit, Send, Refuse
<1> QED
  BY <1>2, <1>3, <1>4, <1>5 DEF Progress

(* No handler goes back: each step is one the request has not done before, or *)
(* locks one of the rows its UPDATE has yet to lock, of which there are as    *)
(* many as its snapshot had defaults.                                         *)
THEOREM ServiceIsBounded == Spec => StepsForward
<1>1. ASSUME AddressInv, [Next]_vars, NEW r \in Requests,
             req[r].pc # "idle", req'[r] # req[r]
      PROVE  Nearer(req'[r], req[r])
  <2>1. ~Arrive(r)
    BY <1>1 DEF Arrive, Create, Update, Delete, Arrives
  <2>2. CASE Drop(r)
    <3>1. req'[r].pc = "idle"
      BY <1>1, <2>2 DEF Drop, Blank, AddressInv
    <3>2. req[r].pc \in {"begin", "clear", "flush", "answer", "commit", "reply"}
      BY <1>1 DEF AddressInv, Request
    <3> QED
      BY <3>1, <3>2 DEF Nearer, Rank
  <2> QED
    BY <1>1, <2>1, <2>2, ProgressNearer, OneSlotSteps DEF Next, vars
<1>2. AddressInv /\ [Next]_vars =>
        [\A r \in Requests :
           req[r].pc # "idle" /\ req'[r] # req[r] => Nearer(req'[r], req[r])]_vars
  BY <1>1
<1> QED
  BY <1>2, AddressInvariant, PTL DEF Spec, StepsForward
=============================================================================
