--------------------------- MODULE SessionsProofs ---------------------------
(* What holds of Sessions for any number of accounts and requests, any        *)
(* lifetimes, and whichever of commit and answer comes first.                 *)
EXTENDS Sessions, TLAPS

(* An account that is open has not been closed for any time, and the          *)
(* freshest token of an account ends in time.                                 *)
TokensLapse ==
  \A a \in Users :
    /\ Open(a) => closedFor[a] = 0
    /\ life[a]["access"] > 0 =>
         life[a]["access"] + closedFor[a] <= TTL["access"] + Patience
    /\ life[a]["password_reset"] > 0 =>
         life[a]["password_reset"] + askedFor[a] <= TTL["password_reset"]

(* A request that will sign, or has signed, a pair of tokens                  *)
Signs(q) == (q.op = "login" /\ q.pc = "lock") \/ q.mint # None

(* began when its account was open; every other one had its token in time.    *)
Timely(q, closed, asked) ==
  /\ q.pc = "idle" => q = Blank
  /\ q.pc # "idle" => q.id \in Users /\ q.op \in Ops
  /\ q.pc # "idle" /\ q.age <= Patience =>
       /\ Signs(q) => closed[q.id] <= q.age
       /\ q.op \in BearerOps =>
            closed[q.id] <= TTL["access"] + Patience + q.age
       /\ q.op = "reset_confirm" =>
            asked[q.id] <= TTL["password_reset"] + q.age

(* The inductive invariant.                                                   *)
IInv ==
  /\ TypeOK /\ TokensLapse
  /\ \A r \in Slots : Timely(req[r], closedFor, askedFor)

(* What the arithmetic needs of the constants.                                *)
LEMMA Numbers ==
  /\ \A k \in Kinds : TTL[k] \in Nat /\ Horizon(k) \in Nat
  /\ Late \in Nat /\ Late = Patience + 1 /\ Patience \in Nat
  /\ Horizon("access") = TTL["access"] + Patience + Late
  /\ Horizon("password_reset") = TTL["password_reset"] + Late
  /\ {"access", "refresh", "password_reset"} \subseteq Kinds
BY TTLAssumption, PatienceAssumption DEF Late, Horizon, Kinds

(* None is nobody, nothing and no number.                                     *)
LEMMA NoneIsNothing == None \notin Users /\ None \notin Ops /\ None \notin Nat
BY NullAssumption

(* A blank slot is a request, and in time.                                    *)
LEMMA BlankIsFine ==
  /\ Blank \in Request
  /\ Blank.pc = "idle" /\ Blank.mint = None /\ Blank.id = None
  /\ Blank.op = None /\ Blank.age = 0
  /\ \A closed, asked : Timely(Blank, closed, asked)
BY Numbers DEF Blank, Request, Timely

(* The invariant holds at the start.                                          *)
LEMMA InitIInv == Init => IInv
<1> SUFFICES ASSUME Init PROVE IInv
  OBVIOUS
<1>1. TypeOK
  <2>1. req \in [Slots -> Request]
    BY BlankIsFine DEF Init
  <2>2. life \in [Users -> [Kinds -> Nat]] /\ \A a \in Users, k \in Kinds : life[a][k] = 0
    BY DEF Init
  <2>3. status \in [Users -> Statuses] /\ address \in [Users -> BOOLEAN]
    BY DEF Init, Statuses
  <2>4. /\ closedFor \in [Users -> 0..Horizon("access")]
        /\ askedFor \in [Users -> 0..Horizon("password_reset")]
    BY Numbers DEF Init
  <2> QED BY <2>1, <2>2, <2>3, <2>4, Numbers DEF TypeOK
<1>2. TokensLapse
  BY Numbers DEF Init, TokensLapse
<1>3. \A r \in Slots : Timely(req[r], closedFor, askedFor)
  BY BlankIsFine DEF Init
<1> QED BY <1>1, <1>2, <1>3 DEF IInv

(* A step that gives one slot a request in time, and leaves accounts, tokens  *)
(* and clocks alone, keeps the invariant.                                     *)
LEMMA SlotStep ==
  ASSUME IInv, NEW r \in Slots, NEW q \in Request,
         Timely(q, closedFor, askedFor),
         req' = [req EXCEPT ![r] = q],
         status' \in [Users -> Statuses], address' \in [Users -> BOOLEAN],
         \A a \in Users : Open(a)' => Open(a),
         UNCHANGED <<life, closedFor, askedFor>>
  PROVE IInv'
<1>1. /\ req' \in [Slots -> Request]
      /\ req'[r] = q
      /\ \A s \in Slots \ {r} : req'[s] = req[s]
  BY DEF IInv, TypeOK
<1>2. \A s \in Slots : Timely(req'[s], closedFor, askedFor)
  BY <1>1 DEF IInv
<1>3. TypeOK'
  BY <1>1 DEF IInv, TypeOK
<1>4. TokensLapse'
  BY DEF IInv, TokensLapse
<1> QED BY <1>2, <1>3, <1>4 DEF IInv

-----------------------------------------------------------------------------
(* An arrival that had the token or the open account its handler asks for.    *)
LEMMA Arrival ==
  ASSUME IInv, NEW r \in Slots, NEW a \in Users, NEW op \in Ops,
         NEW pc \in {"lock", "held"}, NEW mint \in {None, 0},
         Begin(r, op, a, pc, mint),
         op = "login" \/ mint # None => Open(a),
         op \in BearerOps => Accepts(a, "access"),
         op = "reset_confirm" => Accepts(a, "password_reset")
  PROVE IInv'
<1> DEFINE q == [pc |-> pc, op |-> op, id |-> a, age |-> 0, mint |-> mint]
<1>1. q \in Request
  BY Numbers DEF Request
<1>2. q.pc = pc /\ q.op = op /\ q.id = a /\ q.age = 0 /\ q.mint = mint
  OBVIOUS
<1> HIDE DEF q
<1>3. Open(a) => closedFor[a] = 0
  BY DEF IInv, TokensLapse
<1>4. closedFor[a] \in Nat /\ askedFor[a] \in Nat
  BY Numbers DEF IInv, TypeOK
<1>5. life[a]["access"] \in Nat /\ life[a]["password_reset"] \in Nat
  BY Numbers DEF IInv, TypeOK
<1>6. op \in BearerOps => closedFor[a] <= TTL["access"] + Patience
  BY <1>4, <1>5, Numbers DEF IInv, TokensLapse, Accepts
<1>7. op = "reset_confirm" => askedFor[a] <= TTL["password_reset"]
  BY <1>4, <1>5, Numbers DEF IInv, TokensLapse, Accepts
<1>8. Timely(q, closedFor, askedFor)
  BY <1>2, <1>3, <1>4, <1>6, <1>7, Numbers DEF Timely, Signs
<1>9. /\ req' = [req EXCEPT ![r] = q]
      /\ UNCHANGED <<status, address, life, closedFor, askedFor>>
  BY DEF Begin, q
<1>10. status' \in [Users -> Statuses] /\ address' \in [Users -> BOOLEAN]
  BY <1>9 DEF IInv, TypeOK
<1>11. \A b \in Users : Open(b)' => Open(b)
  BY <1>9 DEF Open
<1> QED BY <1>1, <1>8, <1>9, <1>10, <1>11, SlotStep

(* A request that begins with a pair to sign finds its account open.          *)
LEMMA ArriveIInv ==
  ASSUME IInv, NEW r \in Slots, NEW a \in Users, Arrive(r, a)
  PROVE IInv'
<1> USE NoneIsNothing
<1>1. CASE Login(r, a)
  BY <1>1, Arrival DEF Login, Ops, BearerOps
<1>2. CASE Refresh(r, a)
  BY <1>2, Arrival DEF Refresh, Ops, BearerOps
<1>3. CASE ConfirmReset(r, a)
  BY <1>3, Arrival DEF ConfirmReset, Ops, BearerOps
<1>4. CASE ChangePassword(r, a)
  BY <1>4, Arrival DEF ChangePassword, Ops, BearerOps
<1>5. CASE DeleteMe(r, a)
  BY <1>5, Arrival DEF DeleteMe, Ops, BearerOps
<1>6. CASE AddAddress(r, a)
  BY <1>6, Arrival DEF AddAddress, Ops, BearerOps
<1>7. CASE DropAddress(r, a)
  BY <1>7, Arrival DEF DropAddress, Ops, BearerOps
<1> QED BY <1>1, <1>2, <1>3, <1>4, <1>5, <1>6, <1>7 DEF Arrive

(* The statement runs; a login signs, in time if it was in time before.       *)
LEMMA LockIInv ==
  ASSUME IInv, NEW r \in Slots, Lock(r)
  PROVE IInv'
<1> DEFINE p == req[r]
           mint == IF p.op = "login" THEN 0 ELSE None
           q == [p EXCEPT !.pc = "held", !.mint = mint]
<1>1. p \in Request /\ Timely(p, closedFor, askedFor) /\ p.pc = "lock"
  BY DEF IInv, TypeOK, Lock
<1>2. mint \in 0..Late \union {None}
  BY Numbers
<1> HIDE DEF mint
<1>3. q \in Request
  BY <1>1, <1>2 DEF Request
<1>4. /\ q.pc = "held" /\ q.op = p.op /\ q.id = p.id /\ q.age = p.age
      /\ q.mint = mint /\ (mint # None => p.op = "login")
  BY <1>1 DEF Request, mint
<1>5. req' = [req EXCEPT ![r] = q]
  BY DEF Lock, mint
<1> HIDE DEF p, mint, q
<1>6. Timely(q, closedFor, askedFor)
  BY <1>1, <1>4 DEF Timely, Signs
<1>7. /\ UNCHANGED <<status, address, life, closedFor, askedFor>>
      /\ status' \in [Users -> Statuses] /\ address' \in [Users -> BOOLEAN]
  BY DEF Lock, IInv, TypeOK
<1>8. \A b \in Users : Open(b)' => Open(b)
  BY <1>7 DEF Open
<1> QED BY <1>3, <1>5, <1>6, <1>7, <1>8, SlotStep

(* The commit changes the account's row and the slot.                         *)
LEMMA CommitIInv ==
  ASSUME IInv, NEW r \in Slots, Commit(r)
  PROVE IInv'
<1> DEFINE p == req[r]
           q == IF ReplyFirst THEN Blank ELSE [p EXCEPT !.pc = "done"]
<1>1. /\ p \in Request /\ Timely(p, closedFor, askedFor)
      /\ p.pc = IF ReplyFirst THEN "sent" ELSE "held"
  BY DEF IInv, TypeOK, Commit
<1>2. q \in Request /\ Timely(q, closedFor, askedFor)
  <2>1. CASE ReplyFirst
    BY <2>1, BlankIsFine
  <2>2. CASE ~ReplyFirst
    <3>1. q = [p EXCEPT !.pc = "done"]
      BY <2>2
    <3>2. /\ q \in Request /\ q.pc = "done" /\ q.op = p.op /\ q.id = p.id
          /\ q.age = p.age /\ q.mint = p.mint
      BY <1>1, <3>1 DEF Request
    <3> HIDE DEF q
    <3> QED BY <1>1, <2>2, <3>2 DEF Timely, Signs
  <2> QED BY <2>1, <2>2
<1>3. req' = [req EXCEPT ![r] = q]
  BY DEF Commit
<1>4. status' \in [Users -> Statuses] /\ \A b \in Users : Open(b)' => Open(b)
  <2>1. \/ status' = status
        \/ status' = [status EXCEPT ![req[r].id] = "deleted"]
    BY DEF Commit
  <2> QED BY <2>1 DEF IInv, TypeOK, Open, Statuses
<1>5. address' \in [Users -> BOOLEAN]
  BY DEF Commit, IInv, TypeOK
<1>6. UNCHANGED <<life, closedFor, askedFor>>
  BY DEF Commit
<1> HIDE DEF p, q
<1> QED BY <1>2, <1>3, <1>4, <1>5, <1>6, SlotStep

(* A request that is gone promises nothing.                                   *)
LEMMA DropIInv ==
  ASSUME IInv, NEW r \in Slots, Drop(r)
  PROVE IInv'
<1>1. /\ req' = [req EXCEPT ![r] = Blank]
      /\ UNCHANGED <<status, address, life, closedFor, askedFor>>
  BY DEF Drop
<1>2. status' \in [Users -> Statuses] /\ address' \in [Users -> BOOLEAN]
  BY <1>1 DEF IInv, TypeOK
<1>3. \A b \in Users : Open(b)' => Open(b)
  BY <1>1 DEF Open
<1> QED BY <1>1, <1>2, <1>3, BlankIsFine, SlotStep

(* A step that changes tokens and clocks only keeps the requests in time if   *)
(* no clock goes forward.                                                     *)
LEMMA ClocksBack ==
  ASSUME IInv, UNCHANGED req,
         closedFor' \in [Users -> 0..Horizon("access")],
         askedFor' \in [Users -> 0..Horizon("password_reset")],
         \A a \in Users : closedFor'[a] <= closedFor[a] /\ askedFor'[a] <= askedFor[a]
  PROVE \A r \in Slots : Timely(req'[r], closedFor', askedFor')
<1> SUFFICES ASSUME NEW r \in Slots PROVE Timely(req[r], closedFor', askedFor')
  OBVIOUS
<1> DEFINE p == req[r]
<1>1. p \in Request /\ Timely(p, closedFor, askedFor)
  BY DEF IInv, TypeOK
<1>2. p.pc # "idle" =>
        /\ closedFor'[p.id] <= closedFor[p.id] /\ askedFor'[p.id] <= askedFor[p.id]
        /\ closedFor'[p.id] \in Nat /\ closedFor[p.id] \in Nat
        /\ askedFor'[p.id] \in Nat /\ askedFor[p.id] \in Nat
  BY <1>1, Numbers DEF Timely, IInv, TypeOK
<1>3. p.age \in Nat
  BY <1>1, Numbers DEF Request
<1> HIDE DEF p
<1>4. Timely(p, closedFor', askedFor')
  BY <1>1, <1>2, <1>3, Numbers DEF Timely
<1> QED BY <1>4 DEF p

(* A reset token is fresh when it was asked for just now.                     *)
LEMMA RequestResetIInv ==
  ASSUME IInv, NEW a \in Users, RequestReset(a)
  PROVE IInv'
<1>1. /\ life \in [Users -> [Kinds -> Nat]]
      /\ closedFor \in [Users -> 0..Horizon("access")]
      /\ askedFor \in [Users -> 0..Horizon("password_reset")]
      /\ \A b \in Users, k \in Kinds : life[b][k] <= TTL[k]
  BY DEF IInv, TypeOK
<1>2. /\ life' \in [Users -> [Kinds -> Nat]]
      /\ life'[a]["password_reset"] = TTL["password_reset"]
      /\ life'[a]["access"] = life[a]["access"]
      /\ \A b \in Users \ {a} : life'[b] = life[b]
      /\ \A k \in Kinds : life'[a][k] \in {life[a][k], TTL[k]}
  BY <1>1, Numbers DEF RequestReset
<1>3. \A b \in Users, k \in Kinds : life'[b][k] <= TTL[k]
  BY <1>1, <1>2, Numbers
<1>4. /\ askedFor' \in [Users -> 0..Horizon("password_reset")]
      /\ askedFor'[a] = 0 /\ \A b \in Users \ {a} : askedFor'[b] = askedFor[b]
  BY <1>1, Numbers DEF RequestReset
<1>5. UNCHANGED <<status, address, closedFor, req>>
  BY DEF RequestReset
<1>6. TypeOK'
  BY <1>2, <1>3, <1>4, <1>5 DEF IInv, TypeOK
<1>7. TokensLapse'
  <2>1. status' = status /\ closedFor' = closedFor
    BY <1>5
  <2>2. \A b \in Users : /\ life'[b]["access"] = life[b]["access"]
                         /\ Open(b)' <=> Open(b)
    BY <1>2, <2>1 DEF Open
  <2>3. \A b \in Users :
          \/ /\ life'[b]["password_reset"] = TTL["password_reset"]
             /\ askedFor'[b] = 0
          \/ /\ life'[b]["password_reset"] = life[b]["password_reset"]
             /\ askedFor'[b] = askedFor[b]
    BY <1>2, <1>4
  <2> QED BY <2>1, <2>2, <2>3, Numbers DEF IInv, TokensLapse
<1>8. \A b \in Users : closedFor'[b] <= closedFor[b] /\ askedFor'[b] <= askedFor[b]
  BY <1>1, <1>4, <1>5, Numbers
<1>9. \A r \in Slots : Timely(req'[r], closedFor', askedFor')
  BY <1>1, <1>4, <1>5, <1>8, ClocksBack
<1> QED BY <1>6, <1>7, <1>9 DEF IInv

(* A client that throws its tokens away.                                      *)
LEMMA LogoutIInv ==
  ASSUME IInv, NEW a \in Users, Logout(a)
  PROVE IInv'
<1>1. /\ life \in [Users -> [Kinds -> Nat]]
      /\ \A b \in Users, k \in Kinds : life[b][k] <= TTL[k]
  BY DEF IInv, TypeOK
<1> DEFINE kept == [life EXCEPT ![a]["access"] = 0]
<1>2. /\ kept \in [Users -> [Kinds -> Nat]]
      /\ \A b \in Users, k \in Kinds : kept[b][k] \in {life[b][k], 0}
  BY <1>1, Numbers
<1>3. life' = [kept EXCEPT ![a]["refresh"] = 0]
  BY DEF Logout
<1> HIDE DEF kept
<1>4. /\ life' \in [Users -> [Kinds -> Nat]]
      /\ \A b \in Users, k \in Kinds : life'[b][k] \in {kept[b][k], 0}
  BY <1>2, <1>3, Numbers
<1>5. \A b \in Users, k \in Kinds : life'[b][k] \in {life[b][k], 0}
  BY <1>2, <1>4
<1>6. UNCHANGED <<status, address, closedFor, askedFor, req>>
  BY DEF Logout
<1>7. \A b \in Users, k \in Kinds : life'[b][k] <= TTL[k]
  BY <1>1, <1>5, Numbers
<1>8. TypeOK'
  BY <1>4, <1>6, <1>7 DEF IInv, TypeOK
<1>9. TokensLapse'
  BY <1>5, <1>6, Numbers DEF IInv, TokensLapse, Open
<1>10. \A r \in Slots : Timely(req'[r], closedFor', askedFor')
  BY <1>6 DEF IInv
<1> QED BY <1>8, <1>9, <1>10 DEF IInv

(* A suspension starts the clock of the account, or a reactivation ends it.   *)
LEMMA SetActiveIInv ==
  ASSUME IInv, NEW a \in Users, NEW s \in Statuses, SetActive(a, s)
  PROVE IInv'
<1>1. /\ closedFor \in [Users -> 0..Horizon("access")]
      /\ askedFor \in [Users -> 0..Horizon("password_reset")]
      /\ life \in [Users -> [Kinds -> Nat]]
      /\ \A b \in Users, k \in Kinds : life[b][k] <= TTL[k]
  BY DEF IInv, TypeOK
<1>2. /\ closedFor' \in [Users -> 0..Horizon("access")]
      /\ closedFor'[a] = 0 /\ \A b \in Users \ {a} : closedFor'[b] = closedFor[b]
  BY <1>1, Numbers DEF SetActive
<1>3. /\ status' \in [Users -> Statuses]
      /\ \A b \in Users \ {a} : status'[b] = status[b]
  BY DEF SetActive, IInv, TypeOK
<1>4. UNCHANGED <<address, life, askedFor, req>>
  BY DEF SetActive
<1>5. TypeOK'
  BY <1>2, <1>3, <1>4 DEF IInv, TypeOK
<1>6. TokensLapse'
  BY <1>1, <1>2, <1>3, <1>4, Numbers DEF IInv, TokensLapse, Open
<1>7. \A b \in Users : closedFor'[b] <= closedFor[b] /\ askedFor'[b] <= askedFor[b]
  BY <1>1, <1>2, <1>4, Numbers
<1>8. \A r \in Slots : Timely(req'[r], closedFor', askedFor')
  BY <1>1, <1>2, <1>4, <1>7, ClocksBack
<1> QED BY <1>5, <1>6, <1>8 DEF IInv

(* What an answer does to the tokens of the account it is for.                *)
LEMMA SentTokens ==
  ASSUME TypeOK, NEW r \in Slots, Send(r), req[r].id \in Users
  PROVE
    /\ life' \in [Users -> [Kinds -> Nat]]
    /\ \A a \in Users, k \in Kinds :
         \/ life'[a][k] = life[a][k]
         \/ /\ req[r].mint # None /\ req[r].age <= Patience
            /\ a = req[r].id /\ k \in Pair
            /\ req[r].mint < TTL[k] /\ life'[a][k] = TTL[k] - req[r].mint
<1> DEFINE p == req[r]
<1>1. p \in Request /\ life \in [Users -> [Kinds -> Nat]]
  BY DEF TypeOK
<1>2. p.age \in Nat /\ (p.mint # None => p.mint \in Nat) /\ p.id \in Users
  BY <1>1, Numbers DEF Request
<1>3. CASE p.mint = None \/ p.age > Patience
  <2>1. life' = life
    BY <1>3 DEF Send
  <2> QED BY <2>1, <1>1
<1>4. CASE ~(p.mint = None \/ p.age > Patience)
  <2> DEFINE mine == [k \in Kinds |->
                       IF k \in Pair /\ p.mint < TTL[k]
                       THEN Fresher(life[p.id][k], TTL[k] - p.mint)
                       ELSE life[p.id][k]]
  <2>1. life' = [life EXCEPT ![p.id] = mine]
    BY <1>4 DEF Send
  <2>2. \A k \in Kinds :
          /\ mine[k] \in Nat
          /\ \/ mine[k] = life[p.id][k]
             \/ k \in Pair /\ p.mint < TTL[k] /\ mine[k] = TTL[k] - p.mint
    <3> TAKE k \in Kinds
    <3>1. life[p.id][k] \in Nat /\ TTL[k] \in Nat
      BY <1>1, <1>2, Numbers
    <3> QED BY <3>1, <1>2, <1>4 DEF Fresher
  <2>3. mine \in [Kinds -> Nat]
    BY <2>2
  <2> HIDE DEF mine
  <2>4. /\ life' \in [Users -> [Kinds -> Nat]] /\ life'[p.id] = mine
        /\ \A a \in Users \ {p.id} : life'[a] = life[a]
    BY <1>1, <1>2, <2>1, <2>3
  <2>5. p.age <= Patience
    BY <1>2, <1>4, Numbers
  <2> QED BY <2>2, <2>4, <2>5, <1>4
<1> QED BY <1>3, <1>4

(* What a client receives is younger than the request, and so than the        *)
(* closing.                                                                   *)
LEMMA SendIInv ==
  ASSUME IInv, NEW r \in Slots, Send(r)
  PROVE IInv'
<1> DEFINE p == req[r]
           q == IF ReplyFirst THEN [p EXCEPT !.pc = "sent", !.mint = None]
                ELSE Blank
<1>1. /\ p \in Request /\ Timely(p, closedFor, askedFor)
      /\ p.pc = IF ReplyFirst THEN "held" ELSE "done"
      /\ req' = [req EXCEPT ![r] = q]
      /\ UNCHANGED <<status, address, closedFor, askedFor>>
  BY DEF IInv, TypeOK, Send
<1>2. q \in Request /\ Timely(q, closedFor, askedFor)
  <2>1. CASE ~ReplyFirst
    BY <2>1, BlankIsFine
  <2>2. CASE ReplyFirst
    <3>1. q = [p EXCEPT !.pc = "sent", !.mint = None]
      BY <2>2
    <3>2. /\ q \in Request /\ q.pc = "sent" /\ q.op = p.op /\ q.id = p.id
          /\ q.age = p.age /\ q.mint = None
      BY <1>1, <3>1 DEF Request
    <3> HIDE DEF q
    <3> QED BY <1>1, <2>2, <3>2 DEF Timely, Signs
  <2> QED BY <2>1, <2>2
<1> HIDE DEF q
<1>3. p.id \in Users /\ p.pc # "idle" /\ p.age \in Nat
  BY <1>1, Numbers DEF Timely, Request
<1>4. /\ life' \in [Users -> [Kinds -> Nat]]
      /\ \A a \in Users, k \in Kinds :
           \/ life'[a][k] = life[a][k]
           \/ /\ p.mint # None /\ p.age <= Patience /\ a = p.id /\ k \in Pair
              /\ p.mint < TTL[k] /\ life'[a][k] = TTL[k] - p.mint
  BY <1>3, SentTokens DEF IInv
<1>5. /\ p.mint # None => p.mint \in Nat
      /\ p.mint # None /\ p.age <= Patience => closedFor[p.id] <= p.age
  BY <1>1, <1>3, Numbers DEF Timely, Signs, Request
<1>6. /\ life \in [Users -> [Kinds -> Nat]]
      /\ \A a \in Users, k \in Kinds : life[a][k] <= TTL[k]
      /\ closedFor \in [Users -> 0..Horizon("access")]
      /\ req \in [Slots -> Request]
  BY DEF IInv, TypeOK
<1>7. \A a \in Users, k \in Kinds : life'[a][k] <= TTL[k]
  BY <1>4, <1>5, <1>6, Numbers
<1>8. TypeOK'
  <2>1. req' \in [Slots -> Request]
    BY <1>1, <1>2, <1>6
  <2> QED BY <1>1, <1>4, <1>7, <2>1 DEF IInv, TypeOK
<1>9. TokensLapse'
  <2> SUFFICES ASSUME NEW a \in Users
               PROVE /\ Open(a)' => closedFor[a] = 0
                     /\ life'[a]["access"] > 0 =>
                          life'[a]["access"] + closedFor[a] <= TTL["access"] + Patience
                     /\ life'[a]["password_reset"] > 0 =>
                          life'[a]["password_reset"] + askedFor[a]
                            <= TTL["password_reset"]
    BY <1>1 DEF TokensLapse
  <2>1. Open(a)' => closedFor[a] = 0
    BY <1>1 DEF IInv, TokensLapse, Open
  <2>2. life'[a]["password_reset"] = life[a]["password_reset"]
    BY <1>4, Numbers DEF Pair
  <2>3. \/ life'[a]["access"] = life[a]["access"]
        \/ /\ p.mint # None /\ p.age <= Patience /\ a = p.id
           /\ p.mint < TTL["access"] /\ life'[a]["access"] = TTL["access"] - p.mint
    BY <1>4, Numbers
  <2>4. closedFor[a] \in Nat
    BY <1>6, Numbers
  <2>5. life'[a]["access"] > 0 =>
          life'[a]["access"] + closedFor[a] <= TTL["access"] + Patience
    <3>1. CASE life'[a]["access"] = life[a]["access"]
      BY <3>1 DEF IInv, TokensLapse
    <3>2. CASE /\ p.mint # None /\ p.age <= Patience /\ a = p.id
               /\ p.mint < TTL["access"]
               /\ life'[a]["access"] = TTL["access"] - p.mint
      <4>1. closedFor[a] <= p.age /\ p.mint \in Nat
        BY <3>2, <1>5
      <4> QED BY <3>2, <4>1, <2>4, <1>3, Numbers
    <3> QED BY <2>3, <3>1, <3>2
  <2> QED BY <2>1, <2>2, <2>5 DEF IInv, TokensLapse
<1>10. \A s \in Slots : Timely(req'[s], closedFor', askedFor')
  <2>1. req'[r] = q /\ \A s \in Slots \ {r} : req'[s] = req[s]
    BY <1>1, <1>6
  <2>2. closedFor' = closedFor /\ askedFor' = askedFor
    BY <1>1
  <2> QED BY <1>2, <2>1, <2>2 DEF IInv
<1> QED BY <1>8, <1>9, <1>10 DEF IInv

(* A clock goes up by at most one and stays within its bound; what is left of *)
(* a token goes down.                                                         *)
LEMMA UpIs ==
  ASSUME NEW max \in Nat, NEW n \in 0..max
  PROVE Up(n, max) \in 0..max /\ Up(n, max) <= n + 1
BY DEF Up

(* Down, on numbers.                                                          *)
LEMMA DownIs ==
  ASSUME NEW n \in Nat
  PROVE Down(n) \in Nat /\ Down(n) = IF n > 0 THEN n - 1 ELSE 0
BY DEF Down

(* A tick lengthens the clocks and shortens the tokens by one.                *)
LEMMA TickIInv ==
  ASSUME IInv, Tick
  PROVE IInv'
<1>1. /\ status' = status /\ address' = address
      /\ \A a \in Users : Open(a)' <=> Open(a)
  BY DEF Tick, Open
<1>2. /\ life \in [Users -> [Kinds -> Nat]]
      /\ \A a \in Users, k \in Kinds : life[a][k] <= TTL[k]
      /\ closedFor \in [Users -> 0..Horizon("access")]
      /\ askedFor \in [Users -> 0..Horizon("password_reset")]
      /\ req \in [Slots -> Request]
  BY DEF IInv, TypeOK
<1>3. /\ life' \in [Users -> [Kinds -> Nat]]
      /\ \A a \in Users, k \in Kinds :
           life'[a][k] = IF life[a][k] > 0 THEN life[a][k] - 1 ELSE 0
  <2>1. life' = [a \in Users |-> [k \in Kinds |-> Down(life[a][k])]]
    BY DEF Tick
  <2>2. \A a \in Users, k \in Kinds : life[a][k] \in Nat
    BY <1>2
  <2> QED BY <2>1, <2>2, DownIs
<1>4. /\ closedFor' \in [Users -> 0..Horizon("access")]
      /\ \A a \in Users : /\ closedFor'[a] <= closedFor[a] + 1
                          /\ Open(a) => closedFor'[a] = 0
                          /\ closedFor'[a] \in Nat /\ closedFor[a] \in Nat
  <2>1. \A a \in Users :
          closedFor'[a] = IF Open(a) THEN 0 ELSE Up(closedFor[a], Horizon("access"))
    BY DEF Tick
  <2>2. closedFor' = [a \in Users |-> closedFor'[a]]
    BY DEF Tick
  <2>3. \A a \in Users : closedFor[a] \in 0..Horizon("access")
    BY <1>2
  <2>4. \A a \in Users : /\ closedFor'[a] \in 0..Horizon("access")
                         /\ closedFor'[a] <= closedFor[a] + 1
    <3> TAKE a \in Users
    <3> DEFINE later == Up(closedFor[a], Horizon("access"))
    <3>1. closedFor[a] \in 0..Horizon("access") /\ Horizon("access") \in Nat
      BY <2>3, Numbers
    <3>2. later \in 0..Horizon("access") /\ later <= closedFor[a] + 1
      BY <3>1, UpIs
    <3>3. closedFor'[a] \in {0, later}
      BY <2>1
    <3> HIDE DEF later
    <3> QED BY <3>1, <3>2, <3>3
  <2> QED BY <2>1, <2>2, <2>3, <2>4, Numbers
<1>5. /\ askedFor' \in [Users -> 0..Horizon("password_reset")]
      /\ \A a \in Users : /\ askedFor'[a] <= askedFor[a] + 1
                          /\ askedFor'[a] \in Nat /\ askedFor[a] \in Nat
  <2>1. askedFor' = [a \in Users |-> Up(askedFor[a], Horizon("password_reset"))]
    BY DEF Tick
  <2>2. \A a \in Users : askedFor[a] \in 0..Horizon("password_reset")
    BY <1>2
  <2>3. \A a \in Users : /\ askedFor'[a] \in 0..Horizon("password_reset")
                         /\ askedFor'[a] <= askedFor[a] + 1
    BY <2>1, <2>2, UpIs, Numbers
  <2> QED BY <2>1, <2>2, <2>3, Numbers
<1>6. ASSUME NEW r \in Slots
      PROVE req'[r] \in Request /\ Timely(req'[r], closedFor', askedFor')
  <2> DEFINE p == req[r]
             age == IF p.pc = "idle" THEN 0 ELSE Up(p.age, Late)
             mint == IF p.mint = None THEN None ELSE Up(p.mint, Late)
             q == [p EXCEPT !.age = age, !.mint = mint]
  <2>1. p \in Request /\ Timely(p, closedFor, askedFor)
    BY DEF IInv, TypeOK
  <2>2. /\ p.age \in 0..Late /\ p.mint \in 0..Late \union {None}
    BY <2>1 DEF Request
  <2>3. /\ age \in 0..Late /\ mint \in 0..Late \union {None}
        /\ (mint = None <=> p.mint = None)
        /\ p.pc # "idle" /\ age <= Patience => age = p.age + 1
    BY <2>2, Numbers, NoneIsNothing DEF Up
  <2>4. p.pc = "idle" => age = 0
    OBVIOUS
  <2>5. req'[r] = q
    BY DEF Tick
  <2> HIDE DEF p, age, mint
  <2>6. /\ q \in Request /\ q.pc = p.pc /\ q.op = p.op /\ q.id = p.id
        /\ q.age = age /\ q.mint = mint
    BY <2>1, <2>3 DEF Request
  <2>7. CASE p.pc = "idle"
    <3>1. p = Blank
      BY <2>1, <2>7 DEF Timely
    <3>2. age = p.age /\ mint = p.mint
      BY <2>3, <2>4, <2>7, <3>1, BlankIsFine
    <3>3. q = p
      BY <2>1, <3>2 DEF Request
    <3> QED BY <2>1, <2>5, <3>1, <3>3, BlankIsFine
  <2>8. CASE p.pc # "idle"
    <3> HIDE DEF q
    <3>1. p.id \in Users /\ p.op \in Ops
      BY <2>1, <2>8 DEF Timely
    <3>2. /\ closedFor'[p.id] <= closedFor[p.id] + 1
          /\ askedFor'[p.id] <= askedFor[p.id] + 1
          /\ closedFor'[p.id] \in Nat /\ closedFor[p.id] \in Nat
          /\ askedFor'[p.id] \in Nat /\ askedFor[p.id] \in Nat
      BY <3>1, <1>4, <1>5
    <3>3. Signs(q) => Signs(p)
      BY <2>3, <2>6 DEF Signs
    <3>4. q.age <= Patience => q.age = p.age + 1 /\ p.age <= Patience /\ p.age \in Nat
      BY <2>2, <2>3, <2>6, <2>8, Numbers
    <3>5. q.age <= Patience =>
            /\ Signs(q) => closedFor'[q.id] <= q.age
            /\ q.op \in BearerOps =>
                 closedFor'[q.id] <= TTL["access"] + Patience + q.age
            /\ q.op = "reset_confirm" =>
                 askedFor'[q.id] <= TTL["password_reset"] + q.age
      BY <2>1, <2>6, <2>8, <3>2, <3>3, <3>4, Numbers DEF Timely
    <3>6. Timely(q, closedFor', askedFor')
      BY <2>6, <2>8, <3>1, <3>5 DEF Timely
    <3> QED BY <2>5, <2>6, <3>6
  <2> QED BY <2>7, <2>8
<1>7. TypeOK'
  <2>1. req' \in [Slots -> Request]
    BY <1>6 DEF Tick
  <2>2. \A a \in Users, k \in Kinds : life'[a][k] <= TTL[k]
    BY <1>2, <1>3, Numbers
  <2> QED BY <1>1, <1>3, <1>4, <1>5, <2>1, <2>2 DEF IInv, TypeOK
<1>8. TokensLapse'
  <2> SUFFICES ASSUME NEW a \in Users
               PROVE /\ Open(a)' => closedFor'[a] = 0
                     /\ life'[a]["access"] > 0 =>
                          life'[a]["access"] + closedFor'[a] <= TTL["access"] + Patience
                     /\ life'[a]["password_reset"] > 0 =>
                          life'[a]["password_reset"] + askedFor'[a]
                            <= TTL["password_reset"]
    BY DEF TokensLapse
  <2>1. life[a]["access"] \in Nat /\ life[a]["password_reset"] \in Nat
    BY <1>2, Numbers
  <2>2. /\ life'[a]["access"] =
             IF life[a]["access"] > 0 THEN life[a]["access"] - 1 ELSE 0
        /\ life'[a]["password_reset"] =
             IF life[a]["password_reset"] > 0 THEN life[a]["password_reset"] - 1 ELSE 0
    BY <1>3, Numbers
  <2> QED BY <1>1, <1>4, <1>5, <2>1, <2>2, Numbers DEF IInv, TokensLapse
<1> QED BY <1>6, <1>7, <1>8 DEF IInv

-----------------------------------------------------------------------------
(* Every step keeps the invariant.                                            *)
LEMMA StepIInv ==
  ASSUME IInv, [Next]_vars
  PROVE IInv'
<1>1. CASE \E r \in Slots, a \in Users : Arrive(r, a)
  BY <1>1, ArriveIInv
<1>2. CASE \E r \in Slots : Progress(r)
  BY <1>2, LockIInv, CommitIInv, SendIInv DEF Progress
<1>3. CASE \E r \in Slots : Drop(r)
  BY <1>3, DropIInv
<1>4. CASE \E a \in Users : RequestReset(a) \/ Logout(a)
  BY <1>4, RequestResetIInv, LogoutIInv
<1>5. CASE \E a \in Users, s \in Statuses : SetActive(a, s)
  BY <1>5, SetActiveIInv
<1>6. CASE Tick
  BY <1>6, TickIInv
<1>7. CASE UNCHANGED vars
  BY <1>7 DEF vars, IInv, TypeOK, TokensLapse, Open
<1> QED BY <1>1, <1>2, <1>3, <1>4, <1>5, <1>6, <1>7 DEF Next

(* The inductive invariant holds: above all, what is left of a token and the  *)
(* time since its account was closed never exceed its lifetime (_create_token)*)
THEOREM Invariance == Spec => []IInv
BY InitIInv, StepIInv, PTL DEF Spec

(* The state stays one of the program's: tokens never outlast their kind's    *)
(* lifetime, requests keep their shape.                                       *)
THEOREM TypeCorrect == Spec => []TypeOK
BY Invariance, PTL DEF IInv

(* Within TTL + Patience of its closing, by deletion or suspension, no access *)
(* token of an account is valid: logins and refreshes under way included.     *)
THEOREM AccessRunsOut == Spec => []AccessLapses
<1>1. IInv => AccessLapses
  BY DEF IInv, TokensLapse, AccessLapses
<1> QED BY <1>1, Invariance, PTL

(* No request acts with a token of another kind or past its time.             *)
THEOREM NoLateAction == Spec => []ActsWithinLifetime
<1>1. IInv => ActsWithinLifetime
  BY DEF IInv, Timely, ActsWithinLifetime
<1> QED BY <1>1, Invariance, PTL

-----------------------------------------------------------------------------
(* Pending, with the request as a parameter.                                  *)
Left(q, k) ==
  IF q.age > Patience THEN 0
  ELSE IF q.op = "login" /\ q.pc = "lock" THEN TTL[k]
  ELSE IF q.mint # None /\ q.mint < TTL[k] THEN TTL[k] - q.mint ELSE 0

(* It is the same, before and after a step.                                   *)
LEMMA PendingIs ==
  \A r, k : Pending(r, k) = Left(req[r], k) /\ Pending(r, k)' = Left(req'[r], k)
BY DEF Pending, Left

(* What is left of a pending pair is a number.                                *)
LEMMA LeftIsNat ==
  ASSUME NEW q \in Request, NEW k \in Kinds
  PROVE Left(q, k) \in Nat
<1>1. TTL[k] \in Nat /\ (q.mint # None => q.mint \in Nat)
  BY Numbers DEF Request
<1> QED BY <1>1 DEF Left

(* What is to be shown of a step, with a witness for each prospect.           *)
LEMMA Witnessed ==
  ASSUME IInv, NEW a \in Users, NEW k \in Kinds,
         \/ life'[a][k] <= life[a][k]
         \/ \E r \in Slots : req[r].id = a /\ life'[a][k] <= Left(req[r], k),
         \A s \in Slots : req'[s].id = a =>
            \/ Left(req'[s], k) = 0
            \/ req[s].id = a /\ Left(req'[s], k) <= Left(req[s], k)
  PROVE \A x \in Prospects(a, k)' : \E y \in Prospects(a, k) : x <= y
<1>1. Prospects(a, k)' =
        {life'[a][k]} \union {Left(req'[s], k) : s \in {t \in Slots : req'[t].id = a}}
  BY PendingIs DEF Prospects
<1>2. Prospects(a, k) =
        {life[a][k]} \union {Left(req[s], k) : s \in {t \in Slots : req[t].id = a}}
  BY PendingIs DEF Prospects
<1>3. 0 <= life[a][k]
  BY Numbers DEF IInv, TypeOK
<1> QED BY <1>1, <1>2, <1>3

(* A step that gives one slot a request with nothing more to hope for, and    *)
(* changes no token.                                                          *)
LEMMA SlotShrinks ==
  ASSUME IInv, NEW a \in Users, NEW k \in Kinds, NEW r \in Slots, NEW q,
         req' = [req EXCEPT ![r] = q], UNCHANGED life,
         q.id = a => \/ Left(q, k) = 0
                     \/ req[r].id = a /\ Left(q, k) <= Left(req[r], k)
  PROVE \A x \in Prospects(a, k)' : \E y \in Prospects(a, k) : x <= y
<1>1. req'[r] = q /\ \A s \in Slots \ {r} : req'[s] = req[s]
  BY DEF IInv, TypeOK
<1>2. life'[a][k] <= life[a][k]
  BY Numbers DEF IInv, TypeOK
<1>3. \A s \in Slots : Left(req[s], k) \in Nat
  BY LeftIsNat DEF IInv, TypeOK
<1>4. \A s \in Slots : req'[s].id = a =>
            \/ Left(req'[s], k) = 0
            \/ req[s].id = a /\ Left(req'[s], k) <= Left(req[s], k)
  BY <1>1, <1>3
<1> QED BY <1>2, <1>4, Witnessed

(* A request for an account that is closed has no pair to sign.               *)
LEMMA ArrivalShrinks ==
  ASSUME IInv, NEW a \in Users, NEW k \in Kinds, ~Open(a), NEW r \in Slots,
         NEW b \in Users, NEW op, NEW pc, NEW mint,
         Begin(r, op, b, pc, mint), op = "login" \/ mint # None => Open(b)
  PROVE \A x \in Prospects(a, k)' : \E y \in Prospects(a, k) : x <= y
<1> DEFINE q == [pc |-> pc, op |-> op, id |-> b, age |-> 0, mint |-> mint]
<1>1. q.op = op /\ q.id = b /\ q.age = 0 /\ q.mint = mint
  OBVIOUS
<1>2. req' = [req EXCEPT ![r] = q] /\ UNCHANGED life
  BY DEF Begin
<1> HIDE DEF q
<1>3. q.id = a => Left(q, k) = 0
  BY <1>1, Numbers DEF Left
<1> QED BY <1>2, <1>3, SlotShrinks

(* Arrivals renew nothing.                                                    *)
LEMMA ArriveShrinks ==
  ASSUME IInv, NEW a \in Users, NEW k \in Kinds, ~Open(a), NEW r \in Slots,
         NEW b \in Users, Arrive(r, b)
  PROVE \A x \in Prospects(a, k)' : \E y \in Prospects(a, k) : x <= y
<1>1. CASE Login(r, b)
  BY <1>1, ArrivalShrinks DEF Login
<1>2. CASE Refresh(r, b)
  BY <1>2, ArrivalShrinks DEF Refresh
<1>3. CASE ConfirmReset(r, b)
  BY <1>3, ArrivalShrinks DEF ConfirmReset
<1>4. CASE ChangePassword(r, b)
  BY <1>4, ArrivalShrinks DEF ChangePassword
<1>5. CASE DeleteMe(r, b)
  BY <1>5, ArrivalShrinks DEF DeleteMe
<1>6. CASE AddAddress(r, b)
  BY <1>6, ArrivalShrinks DEF AddAddress
<1>7. CASE DropAddress(r, b)
  BY <1>7, ArrivalShrinks DEF DropAddress
<1> QED BY <1>1, <1>2, <1>3, <1>4, <1>5, <1>6, <1>7 DEF Arrive

(* A login signs what it was to sign, with its full lifetime at most.         *)
LEMMA LockShrinks ==
  ASSUME IInv, NEW a \in Users, NEW k \in Kinds, NEW r \in Slots, Lock(r)
  PROVE \A x \in Prospects(a, k)' : \E y \in Prospects(a, k) : x <= y
<1> DEFINE p == req[r]
           mint == IF p.op = "login" THEN 0 ELSE None
           q == [p EXCEPT !.pc = "held", !.mint = mint]
<1>1. p \in Request /\ p.pc = "lock"
  BY DEF IInv, TypeOK, Lock
<1>2. req' = [req EXCEPT ![r] = q] /\ UNCHANGED life
  BY DEF Lock
<1>3. mint = IF p.op = "login" THEN 0 ELSE None
  OBVIOUS
<1> HIDE DEF p, mint
<1>4. /\ q.pc = "held" /\ q.op = p.op /\ q.id = p.id /\ q.age = p.age
      /\ q.mint = mint
  BY <1>1 DEF Request
<1> HIDE DEF q
<1>5. Left(q, k) = 0 \/ Left(q, k) <= Left(p, k)
  <2>1. TTL[k] \in Nat /\ 0 # None /\ p.age \in Nat
    BY <1>1, Numbers, NoneIsNothing DEF Request
  <2>2. CASE p.op = "login"
    <3>1. CASE p.age > Patience
      BY <1>4, <3>1 DEF Left
    <3>2. CASE ~(p.age > Patience)
      <4>1. Left(p, k) = TTL[k]
        BY <1>1, <2>2, <3>2 DEF Left
      <4>2. Left(q, k) = IF 0 < TTL[k] THEN TTL[k] - 0 ELSE 0
        BY <1>3, <1>4, <2>1, <2>2, <3>2 DEF Left
      <4> QED BY <2>1, <4>1, <4>2
    <3> QED BY <3>1, <3>2
  <2>3. CASE p.op # "login"
    BY <1>3, <1>4, <2>3 DEF Left
  <2> QED BY <2>2, <2>3
<1> QED BY <1>2, <1>4, <1>5, SlotShrinks DEF p

(* A commit signs nothing.                                                    *)
LEMMA CommitShrinks ==
  ASSUME IInv, NEW a \in Users, NEW k \in Kinds, NEW r \in Slots, Commit(r)
  PROVE \A x \in Prospects(a, k)' : \E y \in Prospects(a, k) : x <= y
<1> DEFINE p == req[r]
           q == IF ReplyFirst THEN Blank ELSE [p EXCEPT !.pc = "done"]
<1>1. p \in Request /\ p.pc # "lock"
  BY DEF IInv, TypeOK, Commit
<1>2. req' = [req EXCEPT ![r] = q] /\ UNCHANGED life
  BY DEF Commit
<1>3. CASE ReplyFirst
  <2>1. q.id # a
    BY <1>3, BlankIsFine, NoneIsNothing
  <2> QED BY <1>2, <2>1, SlotShrinks
<1>4. CASE ~ReplyFirst
  <2>1. /\ q.pc = "done" /\ q.op = p.op /\ q.id = p.id /\ q.age = p.age
        /\ q.mint = p.mint
    BY <1>1, <1>4 DEF Request
  <2>2. Left(p, k) \in Nat
    BY <1>1, LeftIsNat
  <2> HIDE DEF p, q
  <2>3. Left(q, k) = Left(p, k)
    BY <1>1, <2>1 DEF Left
  <2>4. Left(q, k) <= Left(p, k)
    BY <2>2, <2>3
  <2>5. q.id = a => p.id = a /\ Left(q, k) <= Left(p, k)
    BY <2>1, <2>4
  <2> QED BY <1>2, <2>5, SlotShrinks DEF p
<1> QED BY <1>3, <1>4

(* What a client receives was pending.                                        *)
LEMMA SendShrinks ==
  ASSUME IInv, NEW a \in Users, NEW k \in Kinds, NEW r \in Slots, Send(r)
  PROVE \A x \in Prospects(a, k)' : \E y \in Prospects(a, k) : x <= y
<1> DEFINE p == req[r]
           q == IF ReplyFirst THEN [p EXCEPT !.pc = "sent", !.mint = None]
                ELSE Blank
<1>1. /\ p \in Request /\ Timely(p, closedFor, askedFor)
      /\ p.pc \in {"held", "done"} /\ req' = [req EXCEPT ![r] = q]
  BY DEF IInv, TypeOK, Send
<1>2. p.id \in Users /\ p.age \in Nat /\ (p.mint # None => p.mint \in Nat)
  BY <1>1, Numbers DEF Timely, Request
<1>3. q.id = a => Left(q, k) = 0
  <2>1. CASE ReplyFirst
    <3>1. q.pc = "sent" /\ q.mint = None
      BY <1>1, <2>1 DEF Request
    <3> HIDE DEF q
    <3> QED BY <3>1 DEF Left
  <2>2. CASE ~ReplyFirst
    BY <2>2, BlankIsFine, NoneIsNothing
  <2> QED BY <2>1, <2>2
<1> HIDE DEF q
<1>4. req'[r] = q /\ \A s \in Slots \ {r} : req'[s] = req[s]
  BY <1>1 DEF IInv, TypeOK
<1>5. \A s \in Slots : Left(req[s], k) \in Nat
  BY LeftIsNat DEF IInv, TypeOK
<1>6. \A s \in Slots : req'[s].id = a =>
        \/ Left(req'[s], k) = 0
        \/ req[s].id = a /\ Left(req'[s], k) <= Left(req[s], k)
  BY <1>3, <1>4, <1>5
<1>7. \/ life'[a][k] = life[a][k]
      \/ /\ p.mint # None /\ p.age <= Patience /\ a = p.id
         /\ p.mint < TTL[k] /\ life'[a][k] = TTL[k] - p.mint
  BY <1>2, SentTokens DEF IInv
<1>8. life[a][k] \in Nat /\ TTL[k] \in Nat
  BY Numbers DEF IInv, TypeOK
<1>9. \/ life'[a][k] <= life[a][k]
      \/ p.id = a /\ life'[a][k] <= Left(p, k)
  BY <1>1, <1>2, <1>7, <1>8, Numbers DEF Left
<1> QED BY <1>6, <1>9, Witnessed

(* A request that is dropped takes its pair along.                            *)
LEMMA DropShrinks ==
  ASSUME IInv, NEW a \in Users, NEW k \in Kinds, NEW r \in Slots, Drop(r)
  PROVE \A x \in Prospects(a, k)' : \E y \in Prospects(a, k) : x <= y
<1>1. Blank.id # a
  BY BlankIsFine, NoneIsNothing
<1>2. req' = [req EXCEPT ![r] = Blank] /\ UNCHANGED life
  BY DEF Drop
<1> QED BY <1>1, <1>2, SlotShrinks

(* A step that leaves the requests alone and lengthens no token of kind k.    *)
LEMMA TokensShrink ==
  ASSUME IInv, NEW a \in Users, NEW k \in Kinds, UNCHANGED req,
         life'[a][k] <= life[a][k]
  PROVE \A x \in Prospects(a, k)' : \E y \in Prospects(a, k) : x <= y
<1>1. \A s \in Slots : Left(req[s], k) \in Nat
  BY LeftIsNat DEF IInv, TypeOK
<1>2. \A s \in Slots : req'[s].id = a =>
        req[s].id = a /\ Left(req'[s], k) <= Left(req[s], k)
  BY <1>1
<1> QED BY <1>2, Witnessed

(* A tick shortens everything.                                                *)
LEMMA TickShrinks ==
  ASSUME IInv, NEW a \in Users, NEW k \in Kinds, Tick
  PROVE \A x \in Prospects(a, k)' : \E y \in Prospects(a, k) : x <= y
<1>1. life'[a][k] <= life[a][k]
  <2>1. life[a][k] \in Nat /\ life'[a][k] = Down(life[a][k])
    BY DEF IInv, TypeOK, Tick
  <2> QED BY <2>1, DownIs
<1>2. ASSUME NEW s \in Slots
      PROVE req'[s].id = req[s].id /\ Left(req'[s], k) <= Left(req[s], k)
  <2> DEFINE p == req[s]
             age == IF p.pc = "idle" THEN 0 ELSE Up(p.age, Late)
             mint == IF p.mint = None THEN None ELSE Up(p.mint, Late)
             q == [p EXCEPT !.age = age, !.mint = mint]
  <2>1. p \in Request /\ Timely(p, closedFor, askedFor)
    BY DEF IInv, TypeOK
  <2>2. /\ p.age \in 0..Late /\ p.mint \in 0..Late \union {None}
        /\ p.pc = "idle" => p.age = 0
    BY <2>1, BlankIsFine DEF Request, Timely
  <2>3. /\ age \in Nat /\ age >= p.age
        /\ (mint = None <=> p.mint = None)
        /\ mint # None => mint \in Nat /\ mint >= p.mint
    BY <2>2, Numbers, NoneIsNothing DEF Up
  <2>4. req'[s] = q
    BY DEF Tick
  <2> HIDE DEF p, age, mint
  <2>5. q.pc = p.pc /\ q.op = p.op /\ q.id = p.id /\ q.age = age /\ q.mint = mint
    BY <2>1 DEF Request
  <2> HIDE DEF q
  <2>6. Left(q, k) <= Left(p, k)
    <3>1. TTL[k] \in Nat /\ Patience \in Nat /\ p.age \in Nat
      BY <2>2, Numbers
    <3>2. p.mint # None => p.mint \in Nat
      BY <2>2, Numbers
    <3> QED BY <2>3, <2>5, <3>1, <3>2 DEF Left
  <2> QED BY <2>4, <2>5, <2>6 DEF p
<1> QED BY <1>1, <1>2, Witnessed

(* No step at all renews what the holder of a closed account has or awaits.   *)
LEMMA StepShrinks ==
  ASSUME IInv, [Next]_vars, NEW a \in Users, NEW k \in Pair, ~Open(a), ~Open(a)'
  PROVE \A x \in Prospects(a, k)' : \E y \in Prospects(a, k) : x <= y
<1>1. k \in Kinds /\ k # "password_reset"
  BY DEF Pair, Kinds
<1>2. life \in [Users -> [Kinds -> Nat]] /\ life[a][k] \in Nat
  BY <1>1 DEF IInv, TypeOK
<1>3. CASE \E r \in Slots, b \in Users : Arrive(r, b)
  BY <1>1, <1>3, ArriveShrinks
<1>4. CASE \E r \in Slots : Progress(r)
  BY <1>1, <1>4, LockShrinks, CommitShrinks, SendShrinks DEF Progress
<1>5. CASE \E r \in Slots : Drop(r)
  BY <1>1, <1>5, DropShrinks
<1>6. CASE \E b \in Users : RequestReset(b)
  <2>1. life'[a][k] = life[a][k] /\ UNCHANGED req
    BY <1>1, <1>2, <1>6 DEF RequestReset
  <2> QED BY <1>1, <1>2, <2>1, TokensShrink
<1>7. CASE \E b \in Users : Logout(b)
  <2>1. PICK b \in Users : Logout(b)
    BY <1>7
  <2> DEFINE kept == [life EXCEPT ![b]["access"] = 0]
  <2>2. kept \in [Users -> [Kinds -> Nat]] /\ kept[a][k] \in {life[a][k], 0}
    BY <1>1, <1>2
  <2>3. life' = [kept EXCEPT ![b]["refresh"] = 0] /\ UNCHANGED req
    BY <2>1 DEF Logout
  <2> HIDE DEF kept
  <2>4. life'[a][k] \in {kept[a][k], 0}
    BY <1>1, <2>2, <2>3
  <2>5. life'[a][k] <= life[a][k]
    BY <1>2, <2>2, <2>4
  <2> QED BY <1>1, <2>3, <2>5, TokensShrink
<1>8. CASE \E b \in Users, s \in Statuses : SetActive(b, s)
  <2>1. UNCHANGED <<life, req>>
    BY <1>8 DEF SetActive
  <2> QED BY <1>1, <1>2, <2>1, TokensShrink
<1>9. CASE Tick
  BY <1>1, <1>9, TickShrinks
<1>10. CASE UNCHANGED vars
  <2>1. UNCHANGED <<life, req>>
    BY <1>10 DEF vars
  <2> QED BY <1>1, <1>2, <2>1, TokensShrink
<1> QED BY <1>3, <1>4, <1>5, <1>6, <1>7, <1>8, <1>9, <1>10 DEF Next

(* While an account is closed no step lengthens the time anybody can act for  *)
(* it: not the login that was under way, nor a refresh.                       *)
THEOREM ClosedIsTheEnd == Spec => NoRenewalOnceClosed
<1>1. IInv /\ [Next]_vars =>
        [\A a \in Users, k \in Pair :
           ~Open(a) /\ ~Open(a)' =>
             \A x \in Prospects(a, k)' : \E y \in Prospects(a, k) : x <= y]_vars
  BY StepShrinks
<1> QED BY <1>1, Invariance, PTL DEF Spec, NoRenewalOnceClosed
=============================================================================
