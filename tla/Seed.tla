-------------------------------- MODULE Seed --------------------------------
(* scripts/seed_data.py: stage by stage, look for a row and insert it if it   *)
(* is not there, all in one transaction.  Seeders run beside each other and   *)
(* beside the service.  One row stands for the rows of a table, since all of  *)
(* them are written by the same transaction: rows[t] is how many committed    *)
(* rows have the seeded row's key.                                            *)
EXTENDS Naturals, Sequences

CONSTANTS
  Seeders,
  MaxRows,   \* rows with one key, where the schema lets there be several
  NoStage

Stages == <<"users", "addresses", "sources", "restaurants", "menus",
            "promotions">>
Tables == {Stages[i] : i \in 1..Len(Stages)}

(* uq_users_email, sources.name, uq_restaurant_source_external.               *)
Unique == {"users", "sources", "restaurants"}
Catalog == {"sources", "restaurants", "menus", "promotions"}

(* The first schema a stage's statements run on: the users model has the      *)
(* columns of 0002, the catalog tables come with 0003.                        *)
Needs(t) == IF t \in Catalog THEN 3 ELSE 2

ASSUME SeedAssumption == MaxRows \in Nat \ {0} /\ NoStage \notin Nat

VARIABLES
  rows,   \* table -> committed rows with the seeded key
  seeder  \* stage it is at, whether it has looked and found nothing, and the
          \* tables its transaction has inserted into

seedVars == <<rows, seeder>>

Idle == [stage |-> NoStage, missing |-> FALSE, mine |-> {}]
Seeder == [stage : 1..Len(Stages) + 1 \union {NoStage}, missing : BOOLEAN,
           mine : SUBSET Tables]

(* An empty database, one with the accounts only (registered, or left by a    *)
(* seed from before the catalog), a seeded one, or a seeded one whose account *)
(* was deleted.                                                               *)
SeedInit ==
  /\ \E T \in {{}, {"users"}, {"users", "addresses"}, Tables, Catalog} :
       rows = [t \in Tables |-> IF t \in T THEN 1 ELSE 0]
  /\ seeder = [s \in Seeders |-> Idle]

At(s) == Stages[seeder[s].stage]
InStage(s) == seeder[s].stage \in 1..Len(Stages)

SeedStarts(s) ==
  /\ seeder[s] = Idle
  /\ seeder' = [seeder EXCEPT ![s].stage = 1]
  /\ UNCHANGED rows

(* Any exception leaves main(): the session rolls back.                       *)
Abort(s) == seeder' = [seeder EXCEPT ![s] = Idle] /\ UNCHANGED rows

Seen(s, t) == rows[t] + (IF t \in seeder[s].mine THEN 1 ELSE 0)

NextStage(s) == seeder' = [seeder EXCEPT ![s].stage = @ + 1]

(* The SELECT sees committed rows; scalar_one_or_none raises on a second one, *)
(* and a table or column that is not there yet ends the run.                  *)
Look(s, schema) ==
  /\ InStage(s) /\ ~seeder[s].missing
  /\ IF schema < Needs(At(s)) \/ Seen(s, At(s)) > 1 THEN Abort(s)
     ELSE /\ IF Seen(s, At(s)) = 1 THEN NextStage(s)
             ELSE seeder' = [seeder EXCEPT ![s].missing = TRUE]
          /\ UNCHANGED rows

(* A unique key that another transaction has pending makes the INSERT wait.   *)
Pending(t) == {s \in Seeders : t \in seeder[s].mine}
InsertWaits(s) == At(s) \in Unique /\ Pending(At(s)) \ {s} # {}

(* Mutant: the constraints are left to the SELECT before.                     *)
InsertUnchecked(s) ==
  /\ InStage(s) /\ seeder[s].missing
  /\ seeder' = [seeder EXCEPT ![s] =
       [stage |-> @.stage + 1, missing |-> FALSE, mine |-> @.mine \union {At(s)}]]
  /\ UNCHANGED rows

(* Mutant: an INSERT that finds the key taken is tried again.                 *)
InsertRetried(s) ==
  /\ InStage(s) /\ seeder[s].missing /\ ~InsertWaits(s)
  /\ At(s) \notin Unique \/ rows[At(s)] = 0
  /\ seeder' = [seeder EXCEPT ![s] =
       [stage |-> @.stage + 1, missing |-> FALSE, mine |-> @.mine \union {At(s)}]]
  /\ UNCHANGED rows

Insert(s) ==
  /\ InStage(s) /\ seeder[s].missing /\ ~InsertWaits(s)
  /\ IF At(s) \in Unique /\ rows[At(s)] > 0 THEN Abort(s)
     ELSE /\ seeder' = [seeder EXCEPT ![s] =
               [stage |-> @.stage + 1, missing |-> FALSE,
                mine |-> @.mine \union {At(s)}]]
          /\ UNCHANGED rows

(* The rows of T become visible.  (Bounded: a row over MaxRows is not told    *)
(* from one under it.)                                                        *)
Added(T) ==
  rows' = [t \in Tables |-> IF t \in T /\ rows[t] < MaxRows THEN rows[t] + 1
                            ELSE rows[t]]

(* Mutant: a commit after every stage.                                        *)
CommitsEachStage(s) ==
  /\ seeder[s].stage = Len(Stages) + 1 \/ seeder[s].mine # {}
  /\ seeder' = [seeder EXCEPT ![s] =
       IF @.stage > Len(Stages) THEN Idle ELSE [@ EXCEPT !.mine = {}]]
  /\ Added(seeder[s].mine)

(* The single commit at the end.                                              *)
SeedCommits(s) ==
  /\ seeder[s].stage = Len(Stages) + 1
  /\ seeder' = [seeder EXCEPT ![s] = Idle]
  /\ Added(seeder[s].mine)

SeederSteps(s, schema) == Look(s, schema) \/ Insert(s) \/ SeedCommits(s)

-----------------------------------------------------------------------------
(* The service, as far as the seeded keys go.  A client registers the email   *)
(* (a register that meets a pending key waits for the seed), or deletes the   *)
(* account: its email becomes another one, and its addresses are another      *)
(* user's than the one a later seed makes.                                    *)
Register ==
  /\ rows["users"] = 0 /\ Pending("users") = {}
  /\ Added({"users"}) /\ UNCHANGED seeder

(* A seed that found the account goes on with the deleted user's addresses:   *)
(* what it adds to them is not under the seeded key, and only two that were   *)
(* there can end it.                                                          *)
Orphaned(p) ==
  IF p.stage # 2 THEN [p EXCEPT !.mine = @ \ {"addresses"}]
  ELSE IF ~p.missing /\ rows["addresses"] > 1 THEN Idle
  ELSE [p EXCEPT !.stage = 3, !.missing = FALSE]

DeleteAccount ==
  /\ rows["users"] > 0
  /\ rows' = [rows EXCEPT !["users"] = 0, !["addresses"] = 0]
  /\ seeder' = [s \in Seeders |-> Orphaned(seeder[s])]

(* The owner adds an address with the seeded label, or deletes or renames it. *)
AddAddress ==
  /\ rows["users"] > 0 /\ rows["addresses"] < MaxRows
  /\ Added({"addresses"}) /\ UNCHANGED seeder

DropAddress ==
  /\ rows["addresses"] > 0
  /\ rows' = [rows EXCEPT !["addresses"] = @ - 1]
  /\ UNCHANGED seeder

SeedTypeOK ==
  /\ rows \in [Tables -> 0..MaxRows]
  /\ seeder \in [Seeders -> Seeder]
=============================================================================
