----------------------------- MODULE Deployment -----------------------------
(* What `make deploy` and an operator's seed do to one database: containers   *)
(* that start, migrate, serve and die (Startup), and seed scripts executed in *)
(* them (Seed), at any moment of each other.                                  *)
EXTENDS Startup, Seed

CONSTANT MaxFaults   \* crashes of the container or of PostgreSQL, bounded

ASSUME FaultsAssumption == MaxFaults \in Nat

VARIABLE faults

vars == <<container, imports, schema, up, rows, seeder, faults>>

(* Rows are only where their tables are.                                      *)
Init ==
  /\ StartupInit /\ SeedInit
  /\ \A t \in Tables : rows[t] > 0 => schema >= (IF t \in Catalog THEN 3 ELSE 1)
  /\ faults = 0

(* An upgrader that stops the container kills the scripts executing in it.    *)
SeedersSurvive ==
  IF container' = "stopped" THEN seeder' = [s \in Seeders |-> Idle]
                            ELSE UNCHANGED seeder

Restart == ContainerStarts /\ SeedersSurvive /\ UNCHANGED <<imports, rows, faults>>
Booting == Boots /\ SeedersSurvive /\ UNCHANGED <<imports, rows, faults>>
Deploy == DeployUpgrades /\ SeedersSurvive /\ UNCHANGED <<imports, rows, faults>>
Upgrading(u) ==
  UpgraderSteps(u) /\ SeedersSurvive /\ UNCHANGED <<imports, rows, faults>>

(* The script is executed in a running container.                             *)
Seeding(s) ==
  /\ container # "stopped" /\ SeedStarts(s) /\ UNCHANGED <<startupVars, faults>>
SeederGoesOn(s) ==
  SeederSteps(s, schema) /\ UNCHANGED <<startupVars, faults>>

(* The service's own writes need a serving container.                         *)
Serving ==
  /\ container = "serving"
  /\ Register \/ DeleteAccount \/ AddAddress \/ DropAddress
  /\ UNCHANGED <<startupVars, faults>>

Fault ==
  /\ faults < MaxFaults /\ faults' = faults + 1
  /\ \/ ContainerDies /\ seeder' = [s \in Seeders |-> Idle]
     \/ UpgradersLose /\ seeder' = [s \in Seeders |-> Idle]
  /\ UNCHANGED <<imports, rows>>

Next ==
  \/ Restart \/ Booting \/ Deploy \/ \E u \in Upgraders : Upgrading(u)
  \/ \E s \in Seeders : Seeding(s) \/ SeederGoesOn(s)
  \/ Serving \/ Fault

Spec == Init /\ [][Next]_vars

(* Docker restarts the container, alembic and the seeds go on, and lock       *)
(* waiters are served in their order.  Nothing makes an operator start one.   *)
Fairness ==
  /\ WF_vars(Restart) /\ WF_vars(Booting)
  /\ \A u \in Upgraders : SF_vars(Upgrading(u))
  /\ \A s \in Seeders : SF_vars(SeederGoesOn(s))
FairSpec == Spec /\ Fairness

-----------------------------------------------------------------------------
TypeOK == StartupTypeOK /\ SeedTypeOK /\ faults \in 0..MaxFaults

(* Nothing is served before its schema, whichever of the two upgraders gets   *)
(* there first and however the other ends (start.sh).                         *)
ServesOnlyAtHead == container = "serving" => schema = Latest

(* A migration changes the schema it has read, and no other one changes it in *)
(* the meantime: of two upgraders the second waits for what the first has     *)
(* created, and then fails on it (the revisions' upgrade()).                  *)
MigratesWhatItRead ==
  \A u \in Upgraders : up[u].at > up[u].from =>
    /\ schema = up[u].from
    /\ \A v \in Upgraders \ {u} : up[v].at = up[v].from

(* One row per seeded key outside user_addresses, also in menus and           *)
(* promotions, which have no unique key: a seed that would insert them again  *)
(* has met the unique key of their restaurant before.                         *)
SeededOnce == \A t \in Tables \ {"addresses"} : rows[t] <= 1

(* No crash, conflict or missing table leaves a part of the catalog.          *)
WholeCatalog == \A t, v \in Catalog : rows[t] = rows[v]

(* The guards of an upgrader's and of a seed's steps: whether it can go on.   *)
UpgraderCanProceed(u) ==
  up[u].on /\ (~Waits(u) \/ up[u].at = Latest)
SeederCanProceed(s) ==
  \/ InStage(s) /\ (seeder[s].missing => ~InsertWaits(s))
  \/ seeder[s].stage = Len(Stages) + 1

(* Of the upgraders at work one can always go on, and of the seeds as well:   *)
(* whoever waits, for DDL or for a pending key, waits for one that is ahead   *)
(* of it, so that there is no cycle for PostgreSQL to break.                  *)
NeverStuck ==
  /\ (\E u \in Upgraders : up[u].on) => \E u \in Upgraders : UpgraderCanProceed(u)
  /\ (\E s \in Seeders : seeder[s] # Idle)
        => \E s \in Seeders : SeederCanProceed(s)

(* Once the crashes are over the service comes up and stays up, if app.main   *)
(* can be loaded: a start.sh that lost the race to migrate is started again.  *)
(* At this commit it cannot, and the container restarts for ever.             *)
ComesUp == imports => <>[](container = "serving")

(* Every seed run ends.                                                       *)
SeedEnds == \A s \in Seeders : seeder[s] # Idle ~> seeder[s] = Idle
=============================================================================
