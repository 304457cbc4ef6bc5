---------------------------- MODULE DirectoryProofs ----------------------------
(* The users table, read through its unique columns, implements the abstract  *)
(* AccountDirectory, for every value of the constants of Accounts.            *)
EXTENDS AccountsProofs

AllKeys == ({"email"} \X AllEmails) \union ({"uid"} \X Uids)
Closed(i) == Committed(i) /\ users[i].deleted

-----------------------------------------------------------------------------
(* The email column is NOT NULL, so an account is open exactly while it has   *)
(* a key.                                                                     *)
LEMMA KeysOfType ==
  ASSUME TypeOK, NEW i \in UserIds
  PROVE  KeysOf(i) \in SUBSET AllKeys /\ (KeysOf(i) # {} <=> Live(i))
<1>1. CASE Live(i)
  <2>1. users[i] \in User
    BY <1>1, LiveType
  <2>2. KeysOf(i) = {<<c, users[i][c]>> : c \in {k \in Keys : users[i][k] # None}}
    BY <1>1 DEF KeysOf
  <2>3. users[i].email \in AllEmails /\ users[i].email # None
    BY <2>1, NullFacts DEF User
  <2>4. <<"email", users[i]["email"]>> \in KeysOf(i)
    BY <2>2, <2>3 DEF Keys
  <2>5. ASSUME NEW c \in Keys, users[i][c] # None PROVE <<c, users[i][c]>> \in AllKeys
    BY <2>1, <2>5 DEF User, Keys, AllKeys
  <2> QED
    BY <1>1, <2>2, <2>4, <2>5
<1>2. CASE ~Live(i)
  BY <1>2 DEF KeysOf
<1> QED
  BY <1>1, <1>2

(* Unique columns give accounts disjoint sets of keys.                        *)
LEMMA KeysApart ==
  ASSUME UniqueKeys, NEW i \in UserIds, NEW j \in UserIds, i # j
  PROVE  KeysOf(i) \intersect KeysOf(j) = {}
<1> SUFFICES ASSUME NEW k \in KeysOf(i), k \in KeysOf(j) PROVE FALSE
  OBVIOUS
<1>1. PICK c \in Keys : Live(i) /\ users[i][c] # None /\ k = <<c, users[i][c]>>
  BY DEF KeysOf
<1>2. PICK d \in Keys : Live(j) /\ users[j][d] # None /\ k = <<d, users[j][d]>>
  BY DEF KeysOf
<1>3. c = d /\ users[i][c] = users[j][d]
  BY <1>1, <1>2
<1> QED
  BY <1>1, <1>2, <1>3 DEF UniqueKeys, Live

(* What the directory relies on: keys it knows, and nobody has two.           *)
KeysSound ==
  /\ \A i \in UserIds : KeysOf(i) \in SUBSET AllKeys /\ (KeysOf(i) # {} <=> Live(i))
  /\ \A i, j \in UserIds : i # j => KeysOf(i) \intersect KeysOf(j) = {}

(* What a step may do to one row of the table: fill in a new account, change  *)
(* a live one, or leave a deleted one deleted.                                *)
RowStep(i) ==
  /\ \A j \in UserIds \ {i} : users'[j] = users[j]
  /\ Committed(i)'
  /\ ~Committed(i) => ~users'[i].deleted
  /\ Closed(i) => users'[i].deleted

(* One such step is one operation of the directory, or none.                  *)
LEMMA RowStepMaps ==
  ASSUME KeysSound, KeysSound', NEW i \in UserIds, RowStep(i)
  PROVE  [Directory!Next]_(Directory!vars)
<1> DEFINE K == [j \in UserIds |-> KeysOf(j)]
           D == {j \in UserIds : Closed(j)}
           ks == (KeysOf(i))'
<1>1. \A j \in UserIds \ {i} : (KeysOf(j))' = KeysOf(j) /\ (Closed(j)' <=> Closed(j))
  BY DEF RowStep, KeysOf, Live, Closed, Committed
<1>2. K' = [K EXCEPT ![i] = ks]
  BY <1>1
<1>3. \A j \in UserIds \ {i} : K[j] \intersect ks = {}
  BY <1>1 DEF KeysSound
<1>4. ks \in SUBSET AllKeys /\ (ks # {} <=> Live(i)') /\ (K[i] # {} <=> Live(i))
  BY DEF KeysSound
<1>taken. D' = D /\ ks # {} => Directory!Takes(i)
  BY <1>2, <1>3, <1>4 DEF Directory!Takes, AllKeys, Closed, Committed
<1>5. Directory!vars = <<K, D>> /\ Directory!vars' = <<K', D'>>
  BY DEF Directory!vars, Closed, Committed
<1>6. CASE ~Committed(i)
  <2>1. ~Closed(i) /\ ~Live(i) /\ Live(i)' /\ ~Closed(i)'
    BY <1>6 DEF Closed, Live, RowStep, Committed
  <2>2. D' = D
    BY <1>1, <2>1
  <2>3. Directory!Open(i)
    BY <1>4, <1>taken, <2>1, <2>2 DEF Directory!Open, Closed, Committed
  <2> QED
    BY <2>3 DEF Directory!Next
<1>7. CASE Live(i) /\ ~Closed(i)'
  <2>1. ~Closed(i) /\ Live(i)' /\ Committed(i)
    BY <1>7 DEF Closed, Live, RowStep, Committed
  <2>2. D' = D
    BY <1>1, <1>7, <2>1
  <2>3. Directory!Rekey(i)
    BY <1>4, <1>taken, <1>7, <2>1, <2>2 DEF Directory!Rekey, Closed, Committed
  <2> QED
    BY <2>3 DEF Directory!Next
<1>8. CASE Live(i) /\ Closed(i)'
  <2>1. ~Live(i)' /\ ks = {}
    BY <1>4, <1>8 DEF Closed, Live, Committed
  <2>2. D' = D \union {i}
    BY <1>1, <1>8
  <2>3. Directory!Close(i)
    BY <1>2, <1>4, <1>8, <2>1, <2>2 DEF Directory!Close, Closed, Committed
  <2> QED
    BY <2>3 DEF Directory!Next
<1>9. CASE Closed(i)
  <2>1. Closed(i)' /\ ~Live(i) /\ ~Live(i)'
    BY <1>9 DEF RowStep, Closed, Live, Committed
  <2>2. K' = K /\ D' = D
    BY <1>1, <1>2, <1>4, <1>9, <2>1
  <2> QED
    BY <1>5, <2>2
<1> QED
  BY <1>6, <1>7, <1>8, <1>9 DEF Live, Closed, Committed

(* The invariant of Accounts makes the keys sound.                            *)
LEMMA KeysAreSound == AccountInv => KeysSound
<1> SUFFICES ASSUME AccountInv PROVE KeysSound
  OBVIOUS
<1>1. TypeOK /\ UniqueKeys
  BY DEF AccountInv, TypeInv
<1>2. \A i \in UserIds : KeysOf(i) \in SUBSET AllKeys /\ (KeysOf(i) # {} <=> Live(i))
  BY <1>1, KeysOfType
<1>3. \A i, j \in UserIds : i # j => KeysOf(i) \intersect KeysOf(j) = {}
  BY <1>1, KeysApart
<1> QED
  BY <1>2, <1>3 DEF KeysSound

-----------------------------------------------------------------------------
(* A step that leaves identity alone is no step of the directory.             *)
LEMMA SameIdentity ==
  ASSUME \A i \in UserIds : (KeysOf(i))' = KeysOf(i) /\ (Closed(i)' <=> Closed(i))
  PROVE  UNCHANGED Directory!vars
BY DEF Directory!vars, Closed, Committed

(* A commit writes one row: a new one that is not deleted, or one that stays  *)
(* deleted if it was.                                                         *)
LEMMA CommitMaps ==
  ASSUME AccountInv, KeysSound, KeysSound', NEW r \in Requests, Commit(r)
  PROVE  [Directory!Next]_(Directory!vars)
<1>1. /\ users \in [UserIds -> User \union {None}] /\ Running(r)
      /\ req[r].id \in UserIds /\ req[r].row \in User
  BY DEF AccountInv, TypeInv, TypeOK, RowsHeld, Commit, CommitPc, Running
<1>2. PICK id \in UserIds : id = req[r].id
  BY <1>1
<1> DEFINE merged == Merged(users[id], req[r].row, req[r].dirty)
<1>3. merged \in User /\ merged # None
  BY <1>1, MergedType, RowAssumption
<1>4. users'[id] = merged /\ \A i \in UserIds \ {id} : users'[i] = users[i]
  BY <1>1, <1>2 DEF Commit
<1>5. ~Committed(id) => ~merged.deleted
  BY <1>1, <1>2 DEF AccountInv, FreshRows, Merged, Committed
<1>6. OneWay(id)
  BY CommitOneWay
<1> HIDE DEF merged
<1>7. RowStep(id)
  BY <1>3, <1>4, <1>5, <1>6 DEF RowStep, OneWay, Closed, Committed
<1> QED
  BY <1>7, RowStepMaps

(* Suspending an account changes neither its keys nor whether it is deleted.  *)
LEMMA SuspendMaps ==
  ASSUME AccountInv, NEW i \in UserIds, Suspend(i)
  PROVE  UNCHANGED Directory!vars
<1>1. users[i] \in User /\ users \in [UserIds -> User \union {None}]
  BY LiveType DEF AccountInv, TypeInv, TypeOK, Suspend
<1> DEFINE row == [users[i] EXCEPT !.active = FALSE]
<1>2. /\ row \in User /\ row # None /\ row.deleted = users[i].deleted
      /\ row.email = users[i].email /\ row.uid = users[i].uid
  BY <1>1, RowAssumption DEF User
<1>3. users'[i] = row /\ \A j \in UserIds \ {i} : users'[j] = users[j]
  BY <1>1 DEF Suspend
<1>4. Live(i) /\ users[i] # None
  BY DEF Suspend, Live
<1> HIDE DEF row
<1>5. \A j \in UserIds : \A c \in Keys : Live(j) => users'[j][c] = users[j][c]
  BY <1>2, <1>3 DEF Keys
<1>6. \A j \in UserIds : (Live(j)' <=> Live(j)) /\ (Closed(j)' <=> Closed(j))
  BY <1>2, <1>3, <1>4 DEF Live, Closed, Committed
<1>7. \A j \in UserIds : (KeysOf(j))' = KeysOf(j)
  BY <1>5, <1>6 DEF KeysOf
<1> QED
  BY <1>6, <1>7, SameIdentity

(* Every step of Accounts is a step of the directory or a stutter.            *)
LEMMA StepMaps ==
  ASSUME AccountInv, KeysSound, KeysSound', [Next]_vars
  PROVE  [Directory!Next]_(Directory!vars)
<1>1. CASE users' = users
  BY <1>1, SameIdentity DEF KeysOf, Live, Closed, Committed
<1>2. ASSUME NEW r \in Requests, Commit(r) PROVE [Directory!Next]_(Directory!vars)
  BY <1>2, CommitMaps
<1>3. ASSUME NEW i \in UserIds, Suspend(i) PROVE [Directory!Next]_(Directory!vars)
  BY <1>3, SuspendMaps
<1> QED
  BY <1>1, <1>2, <1>3, OnlyCommitWrites DEF Next, vars

(* Registration, linking, address changes, deletion and suspension, however   *)
(* their requests overlap, are operations of the abstract directory: an       *)
(* observer of the committed table sees accounts opened under keys nobody     *)
(* has, rekeyed to free ones and closed for good, one at a time.              *)
THEOREM DirectoryImplemented == Spec => ImplementsDirectory
<1>1. Init => Directory!Init
  BY DEF Init, Directory!Init, KeysOf, Live
<1>2. AccountInv /\ KeysSound /\ KeysSound' /\ [Next]_vars
        => [Directory!Next]_(Directory!vars)
  BY StepMaps
<1>3. Spec => Directory!Spec
  BY <1>1, <1>2, KeysAreSound, AccountInvariant, PTL DEF Spec, Directory!Spec
<1> QED
  BY <1>3 DEF ImplementsDirectory

-----------------------------------------------------------------------------
(* What the directory promises, on its own.                                   *)
KeysExclusive ==
  \A i, j \in UserIds : i # j => KeysOf(i) \intersect KeysOf(j) = {}

(* Each of its operations leaves the keys of different accounts apart.        *)
LEMMA DirectoryKeeps ==
  ASSUME KeysExclusive, [Directory!Next]_(Directory!vars)
  PROVE  KeysExclusive'
<1> DEFINE K == [j \in UserIds |-> KeysOf(j)]
<1>1. \A j \in UserIds : K[j] = KeysOf(j) /\ K'[j] = (KeysOf(j))'
  OBVIOUS
<1>2. CASE UNCHANGED Directory!vars
  <2>1. K' = K
    BY <1>2 DEF Directory!vars
  <2> HIDE DEF K
  <2> QED
    BY <1>1, <2>1 DEF KeysExclusive
<1>3. ASSUME NEW i \in UserIds, NEW ks, K' = [K EXCEPT ![i] = ks],
             \A j \in UserIds \ {i} : K[j] \intersect ks = {}
      PROVE  KeysExclusive'
  <2>1. \A j \in UserIds \ {i} : K[j] \intersect ks = {}
    BY <1>3
  <2>2. \A j \in UserIds : K'[j] = IF j = i THEN ks ELSE K[j]
    BY <1>3
  <2> HIDE DEF K
  <2> QED
    BY <1>1, <2>1, <2>2 DEF KeysExclusive
<1>4. ASSUME NEW i \in UserIds, Directory!Open(i) \/ Directory!Rekey(i) PROVE KeysExclusive'
  BY <1>3, <1>4 DEF Directory!Open, Directory!Rekey, Directory!Takes
<1>5. ASSUME NEW i \in UserIds, Directory!Close(i) PROVE KeysExclusive'
  <2>1. K' = [K EXCEPT ![i] = {}]
    BY <1>5 DEF Directory!Close
  <2>2. \A j \in UserIds \ {i} : K[j] \intersect {} = {}
    OBVIOUS
  <2> QED
    BY <1>3, <2>1, <2>2
<1> QED
  BY <1>2, <1>4, <1>5 DEF Directory!Next

(* The abstract specification alone gives exclusive keys: with the theorem    *)
(* before, that no two live accounts share an email or a uid needs nothing of *)
(* the code but that it implements the directory.                             *)
THEOREM DirectoryIsExclusive == ImplementsDirectory => []KeysExclusive
<1>1. Directory!Init => KeysExclusive
  <2> DEFINE K == [j \in UserIds |-> KeysOf(j)]
  <2> SUFFICES ASSUME Directory!Init PROVE KeysExclusive
    OBVIOUS
  <2>1. \A j \in UserIds : K[j] = KeysOf(j) /\ K[j] = {}
    BY DEF Directory!Init
  <2> HIDE DEF K
  <2> QED
    BY <2>1 DEF KeysExclusive
<1>2. KeysExclusive /\ [Directory!Next]_(Directory!vars) => KeysExclusive'
  BY DirectoryKeeps
<1> QED
  BY <1>1, <1>2, PTL DEF ImplementsDirectory, Directory!Spec
=============================================================================
