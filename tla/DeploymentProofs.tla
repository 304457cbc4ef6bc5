-------------------------- MODULE DeploymentProofs --------------------------
(* What holds of Deployment for any number of revisions, seeders and crashes. *)
EXTENDS Deployment, TLAPS

(* A container that boots or serves has the schema it needs, and its own      *)
(* upgrader runs exactly as long as it starts.                                *)
Containers ==
  /\ container \in {"booting", "serving"} => schema = Latest
  /\ up["start"].on <=> container = "starting"

(* An upgrader's transaction began with the schema it read, which has not     *)
(* moved since if it has changed anything; only one has.                      *)
InStep(p, s) ==
  /\ p.from <= p.at
  /\ ~p.on => p.at = p.from
  /\ p.on => p.from <= s
  /\ p.at > p.from => s = p.from

Upgrades ==
  /\ \A u \in Upgraders : InStep(up[u], schema)
  /\ \A u, v \in Upgraders :
       u # v => up[u].at = up[u].from \/ up[v].at = up[v].from

StartupInv == StartupTypeOK /\ Containers /\ Upgrades

(* Revisions are counted from 0.                                              *)
LEMMA LatestIsNat == Latest \in Nat /\ 0 \in 0..Latest
BY LatestAssumption

(* An upgrader that does not run.                                             *)
LEMMA OffIs == Off \in Process /\ Off.on = FALSE /\ Off.from = 0 /\ Off.at = 0
BY LatestIsNat DEF Off, Process

(* Nothing runs at first.                                                     *)
LEMMA StartupInitInv == StartupInit => StartupInv
<1> SUFFICES ASSUME StartupInit PROVE StartupInv
  OBVIOUS
<1>1. /\ up \in [Upgraders -> Process] /\ \A u \in Upgraders : up[u] = Off
      /\ schema \in 0..Latest /\ container = "stopped" /\ imports \in BOOLEAN
  BY OffIs DEF StartupInit
<1>2. "start" \in Upgraders
  BY DEF Upgraders
<1>3. Containers
  BY <1>1, <1>2, OffIs, Zenon DEF Containers
<1>4. Upgrades
  BY <1>1, OffIs, LatestIsNat DEF Upgrades, InStep
<1> QED BY <1>1, <1>3, <1>4 DEF StartupInv, StartupTypeOK

(* What the steps below say of the processes, without EXCEPT.                 *)
LEMMA OneUp ==
  ASSUME StartupInv, NEW u \in Upgraders, NEW p, up' = [up EXCEPT ![u] = p]
  PROVE up'[u] = p /\ \A v \in Upgraders \ {u} : up'[v] = up[v]
BY DEF StartupInv, StartupTypeOK

(* One upgrader changes; it or all the others have changed nothing yet.       *)
LEMMA OneUpgrades ==
  ASSUME StartupInv, NEW u \in Upgraders, NEW p, up' = [up EXCEPT ![u] = p],
         InStep(p, schema'), schema' = schema,
         p.at = p.from \/ \A v \in Upgraders \ {u} : up[v].at = up[v].from
  PROVE Upgrades'
<1>1. up'[u] = p /\ \A v \in Upgraders \ {u} : up'[v] = up[v]
  BY OneUp
<1>2. \A v \in Upgraders : InStep(up'[v], schema')
  BY <1>1 DEF StartupInv, Upgrades
<1>3. ASSUME NEW v \in Upgraders, NEW w \in Upgraders, v # w
      PROVE up'[v].at = up'[v].from \/ up'[w].at = up'[w].from
  BY <1>1, <1>3 DEF StartupInv, Upgrades
<1> QED BY <1>2, <1>3 DEF Upgrades

(* An upgrader begins at the committed revision.                              *)
LEMMA BegunIs ==
  ASSUME StartupInv
  PROVE Begun \in Process /\ Begun.on = TRUE /\ Begun.from = schema /\ Begun.at = schema
BY LatestIsNat DEF StartupInv, StartupTypeOK, Begun, Process

(* A new upgrader, of a container that has none or beside the container's.    *)
LEMMA BeginKeeps ==
  ASSUME StartupInv, NEW u \in Upgraders, ~up[u].on,
         up' = [up EXCEPT ![u] = Begun], UNCHANGED <<imports, schema>>,
         container' = IF u = "start" THEN "starting" ELSE container,
         u = "start" => container = "stopped"
  PROVE StartupInv'
<1>1. up'[u] = Begun /\ \A v \in Upgraders \ {u} : up'[v] = up[v]
  BY OneUp
<1>2. up' \in [Upgraders -> Process]
  BY BegunIs DEF StartupInv, StartupTypeOK
<1>3. StartupTypeOK'
  BY <1>2 DEF StartupInv, StartupTypeOK
<1>4. Upgrades'
  <2>1. schema \in Nat
    BY LatestIsNat DEF StartupInv, StartupTypeOK
  <2>2. InStep(Begun, schema')
    BY <2>1, BegunIs DEF InStep
  <2> QED BY <2>2, BegunIs, OneUpgrades
<1>5. Containers'
  <2>1. CASE u = "start"
    BY <1>1, <2>1, BegunIs DEF Containers
  <2>2. CASE u # "start"
    <3>1. "start" \in Upgraders \ {u}
      BY <2>2 DEF Upgraders
    <3>2. up'["start"] = up["start"] /\ container' = container /\ schema' = schema
      BY <1>1, <2>2, <3>1
    <3> QED BY <3>2 DEF StartupInv, Containers
  <2> QED BY <2>1, <2>2
<1> QED BY <1>3, <1>4, <1>5 DEF StartupInv

(* The container stops, and with it all that was executing in it.             *)
LEMMA StoppedKeeps ==
  ASSUME StartupInv, Stopped, UNCHANGED <<imports, schema>>
  PROVE StartupInv'
<1>1. /\ container' = "stopped" /\ up' \in [Upgraders -> Process]
      /\ \A u \in Upgraders : up'[u] = Off
  BY OffIs DEF Stopped
<1>2. "start" \in Upgraders
  BY DEF Upgraders
<1>3. StartupTypeOK'
  BY <1>1 DEF StartupInv, StartupTypeOK
<1>4. Containers'
  BY <1>1, <1>2, OffIs, Zenon DEF Containers
<1>5. Upgrades'
  BY <1>1, OffIs, LatestIsNat DEF StartupInv, StartupTypeOK, Upgrades, InStep
<1> QED BY <1>3, <1>4, <1>5 DEF StartupInv

(* The next revision: nobody else is ahead of the one it read, so that is the *)
(* committed one still.                                                       *)
LEMMA RevisionKeeps ==
  ASSUME StartupInv, NEW u \in Upgraders, Revision(u), UNCHANGED imports
  PROVE StartupInv'
<1> DEFINE p == up[u]
           q == [p EXCEPT !.at = @ + 1]
<1>1. p \in Process /\ p.on /\ p.at < Latest
  BY DEF StartupInv, StartupTypeOK, Revision
<1>2. p.at \in Nat /\ p.from \in Nat /\ p.at + 1 \in 0..Latest
  BY <1>1, LatestIsNat DEF Process
<1>3. q \in Process /\ q.on = p.on /\ q.from = p.from /\ q.at = p.at + 1
  BY <1>1, <1>2 DEF Process
<1>4. up' = [up EXCEPT ![u] = q] /\ UNCHANGED <<container, schema>>
  BY DEF Revision
<1> HIDE DEF q
<1>5. up'[u] = q /\ \A v \in Upgraders \ {u} : up'[v] = up[v]
  BY <1>4, OneUp
<1>6. StartupTypeOK'
  BY <1>3, <1>4 DEF StartupInv, StartupTypeOK
<1>7. \A v \in Upgraders \ {u} : ~(up[v].on /\ up[v].at > up[v].from)
  BY DEF Revision, Waits
<1>8. \A v \in Upgraders : up[v].at \in Nat /\ up[v].from \in Nat
  BY LatestIsNat DEF StartupInv, StartupTypeOK, Process
<1>9. \A v \in Upgraders \ {u} : up[v].at = up[v].from
  BY <1>7, <1>8 DEF StartupInv, Upgrades, InStep
<1>10. schema = p.from
  <2>1. schema \in Nat /\ p.from <= schema /\ p.from <= p.at /\ ~(p.at < schema)
    BY <1>1, LatestIsNat DEF StartupInv, StartupTypeOK, Upgrades, InStep, Revision, Exists
  <2>2. CASE p.at = p.from
    BY <2>1, <2>2, <1>2
  <2>3. CASE p.at > p.from
    BY <2>3 DEF StartupInv, Upgrades, InStep
  <2> QED BY <2>1, <2>2, <2>3, <1>2
<1>11. Upgrades'
  <2>1. InStep(q, schema')
    BY <1>1, <1>2, <1>3, <1>4, <1>10 DEF InStep, StartupInv, Upgrades
  <2> QED BY <1>4, <1>9, <2>1, OneUpgrades
<1>12. Containers'
  <2>1. up'["start"].on = up["start"].on
    BY <1>3, <1>5 DEF Upgraders
  <2> QED BY <1>4, <2>1 DEF StartupInv, Containers
<1> QED BY <1>6, <1>11, <1>12 DEF StartupInv

(* An upgrader that ends well: nobody else has changed anything.              *)
LEMMA UpgradedKeeps ==
  ASSUME StartupInv, NEW u \in Upgraders, Upgraded(u), UNCHANGED imports
  PROVE StartupInv'
<1>1. /\ up[u].on /\ up[u].at = Latest /\ schema' = Latest
      /\ up' = [up EXCEPT ![u] = Off]
      /\ container' = IF u = "start" THEN "booting" ELSE container
  BY DEF Upgraded
<1>2. up'[u] = Off /\ \A v \in Upgraders \ {u} : up'[v] = up[v]
  BY <1>1, OneUp
<1>3. StartupTypeOK'
  <2>1. up' \in [Upgraders -> Process]
    BY <1>1, OffIs DEF StartupInv, StartupTypeOK
  <2> QED BY <1>1, <2>1, LatestIsNat DEF StartupInv, StartupTypeOK
<1>4. ASSUME NEW v \in Upgraders PROVE InStep(up'[v], schema')
  <2>1. CASE v = u
    BY <1>1, <1>2, <2>1, OffIs, LatestIsNat DEF InStep
  <2>2. CASE v # u
    <3>1. up'[v] = up[v] /\ InStep(up[v], schema) /\ InStep(up[u], schema)
      BY <1>2, <2>2 DEF StartupInv, Upgrades
    <3>2. /\ up[v].from \in 0..Latest /\ up[v].at \in 0..Latest
          /\ up[u].from \in 0..Latest /\ schema \in 0..Latest
      BY DEF StartupInv, StartupTypeOK, Process
    <3>3. up[v].at = up[v].from \/ up[u].at = up[u].from
      BY <2>2 DEF StartupInv, Upgrades
    <3> QED BY <1>1, <3>1, <3>2, <3>3, LatestIsNat DEF InStep
  <2> QED BY <2>1, <2>2
<1>5. Upgrades'
  <2>1. \A v, w \in Upgraders :
          v # w => up'[v].at = up'[v].from \/ up'[w].at = up'[w].from
    BY <1>2, OffIs DEF StartupInv, Upgrades
  <2> QED BY <1>4, <2>1 DEF Upgrades
<1>6. Containers'
  <2>1. CASE u = "start"
    BY <1>1, <1>2, <2>1, OffIs DEF Containers
  <2>2. CASE u # "start"
    <3>1. up'["start"] = up["start"]
      BY <1>2, <2>2 DEF Upgraders
    <3> QED BY <1>1, <2>2, <3>1 DEF StartupInv, Containers
  <2> QED BY <2>1, <2>2
<1> QED BY <1>3, <1>5, <1>6 DEF StartupInv

(* The upgrader of a deploy that ends without a trace.                        *)
LEMMA GoneKeeps ==
  ASSUME StartupInv, NEW u \in Upgraders, u # "start",
         up' = [up EXCEPT ![u] = Off], UNCHANGED <<container, imports, schema>>
  PROVE StartupInv'
<1>1. up' \in [Upgraders -> Process]
  BY OffIs DEF StartupInv, StartupTypeOK
<1>2. StartupTypeOK'
  BY <1>1 DEF StartupInv, StartupTypeOK
<1>3. InStep(Off, schema')
  BY OffIs, LatestIsNat DEF InStep, StartupInv, StartupTypeOK
<1>4. Upgrades'
  BY <1>3, OffIs, OneUpgrades
<1>5. up'["start"] = up["start"]
  BY OneUp DEF Upgraders
<1> QED BY <1>2, <1>4, <1>5 DEF StartupInv, Containers

(* An upgrader finds that another was faster.                                 *)
LEMMA FailsKeeps ==
  ASSUME StartupInv, NEW u \in Upgraders, Fails(u), UNCHANGED imports
  PROVE StartupInv'
<1>1. CASE u = "start"
  BY <1>1, StoppedKeeps DEF Fails
<1>2. CASE u # "start"
  BY <1>2, GoneKeeps DEF Fails
<1> QED BY <1>1, <1>2

(* The workers load app.main, or the container stops.                         *)
LEMMA BootsKeeps ==
  ASSUME StartupInv, Boots, UNCHANGED imports
  PROVE StartupInv'
<1>1. CASE imports
  <2>1. /\ container = "booting" /\ container' = "serving" /\ UNCHANGED <<up, schema>>
    BY <1>1 DEF Boots
  <2> QED BY <2>1 DEF StartupInv, StartupTypeOK, Containers, Upgrades, InStep
<1>2. CASE ~imports
  BY <1>2, StoppedKeeps DEF Boots
<1> QED BY <1>1, <1>2

(* PostgreSQL restarts.                                                       *)
LEMMA LoseKeeps ==
  ASSUME StartupInv, UpgradersLose, UNCHANGED imports
  PROVE StartupInv'
<1>1. CASE up["start"].on
  BY <1>1, StoppedKeeps DEF UpgradersLose
<1>2. CASE ~up["start"].on
  <2>1. /\ up' = [v \in Upgraders |-> Off] /\ UNCHANGED <<container, schema>>
    BY <1>2 DEF UpgradersLose
  <2>2. up' \in [Upgraders -> Process] /\ \A v \in Upgraders : up'[v] = Off
    BY <2>1, OffIs
  <2>3. StartupTypeOK'
    BY <2>1, <2>2 DEF StartupInv, StartupTypeOK
  <2>4. Upgrades'
    BY <2>1, <2>2, OffIs, LatestIsNat
    DEF StartupInv, StartupTypeOK, Upgrades, InStep
  <2>5. "start" \in Upgraders
    BY DEF Upgraders
  <2>6. ~up'["start"].on
    BY <2>2, <2>5, OffIs
  <2>7. Containers'
    BY <1>2, <2>1, <2>6 DEF StartupInv, Containers
  <2> QED BY <2>3, <2>4, <2>7 DEF StartupInv
<1> QED BY <1>1, <1>2

(* Seeds and the service leave the upgraders alone; so all steps keep the     *)
(* invariant.                                                                 *)
LEMMA StartupStep ==
  ASSUME StartupInv, [Next]_vars
  PROVE StartupInv'
<1>0. UNCHANGED imports
  BY DEF Next, vars, startupVars, Restart, Booting, Deploy, Upgrading, Seeding,
         SeederGoesOn, Serving, Fault
<1>1. "start" \in Upgraders /\ "deploy" \in Upgraders /\ "deploy" # "start"
  BY DEF Upgraders
<1>2. CASE Restart
  <2>1. ContainerStarts
    BY <1>2 DEF Restart
  <2>2. ~up["start"].on
    BY <2>1 DEF ContainerStarts, StartupInv, Containers
  <2> QED BY <1>0, <1>1, <2>1, <2>2, BeginKeeps DEF ContainerStarts
<1>3. CASE Deploy
  BY <1>0, <1>1, <1>3, BeginKeeps DEF Deploy, DeployUpgrades
<1>4. CASE \E u \in Upgraders : Upgrading(u)
  BY <1>0, <1>4, RevisionKeeps, UpgradedKeeps, FailsKeeps DEF Upgrading, UpgraderSteps
<1>5. CASE \E s \in Seeders : Seeding(s) \/ SeederGoesOn(s)
  <2>1. UNCHANGED <<container, schema, up>>
    BY <1>5 DEF Seeding, SeederGoesOn, startupVars
  <2> QED BY <1>0, <2>1
      DEF StartupInv, StartupTypeOK, Containers, Upgrades, InStep
<1>6. CASE Serving
  <2>1. UNCHANGED <<container, schema, up>>
    BY <1>6 DEF Serving, startupVars
  <2> QED BY <1>0, <2>1
      DEF StartupInv, StartupTypeOK, Containers, Upgrades, InStep
<1>7. CASE Fault
  BY <1>0, <1>7, StoppedKeeps, LoseKeeps DEF Fault, ContainerDies
<1>8. CASE UNCHANGED vars
  <2>1. UNCHANGED <<container, schema, up>>
    BY <1>8 DEF vars
  <2> QED BY <1>0, <2>1
      DEF StartupInv, StartupTypeOK, Containers, Upgrades, InStep
<1>9. CASE Booting
  BY <1>0, <1>9, BootsKeeps DEF Booting
<1> QED BY <1>2, <1>3, <1>4, <1>5, <1>6, <1>7, <1>8, <1>9 DEF Next

(* The inductive invariant of the upgraders and the container (start.sh).     *)
THEOREM StartupInvariance == Spec => []StartupInv
<1>1. Init => StartupInv
  BY StartupInitInv DEF Init
<1> QED BY <1>1, StartupStep, PTL DEF Spec

(* Nothing is served before its schema.                                       *)
THEOREM ServesAtHead == Spec => []ServesOnlyAtHead
<1>1. StartupInv => ServesOnlyAtHead
  BY DEF StartupInv, Containers, ServesOnlyAtHead
<1> QED BY <1>1, StartupInvariance, PTL

(* Of two upgraders only one changes the schema, and it is the one it read.   *)
THEOREM UpgradesAreSerial == Spec => []MigratesWhatItRead
<1>1. StartupInv => MigratesWhatItRead
  <2> SUFFICES ASSUME StartupInv, NEW u \in Upgraders, up[u].at > up[u].from,
                      NEW v \in Upgraders \ {u}
               PROVE schema = up[u].from /\ up[v].at = up[v].from
    BY DEF MigratesWhatItRead, StartupInv, Upgrades, InStep
  <2>1. up[u].at \in Nat /\ up[u].from \in Nat
    BY LatestIsNat DEF StartupInv, StartupTypeOK, Process
  <2> QED BY <2>1 DEF StartupInv, Upgrades, InStep
<1> QED BY <1>1, StartupInvariance, PTL

-----------------------------------------------------------------------------
(* What a seeder has found and inserted, given the committed rows.  What it   *)
(* has inserted with a unique key lies before its stage.  It has either       *)
(* inserted the whole catalog up to its stage, in a database without one, or  *)
(* nothing of it, in a database that had it when the seeder passed.           *)
Orderly(q, table) ==
  /\ q.stage = NoStage => q = Idle
  /\ "users" \in q.mine => table["users"] = 0 /\ q.stage \in 2..7
  /\ "sources" \in q.mine =>
       /\ table["sources"] = 0 /\ q.stage \in 4..7
       /\ \A i \in 3..6 : Stages[i] \in q.mine <=> i < q.stage
  /\ "sources" \notin q.mine =>
       /\ \A t \in Catalog : t \notin q.mine
       /\ q.stage \in 4..7 => table["sources"] = 1
  /\ q.missing /\ q.stage \in 4..6 => "sources" \in q.mine

(* Two seeders have not inserted the same unique key.                         *)
Distinct(q, p) ==
  ~("users" \in q.mine /\ "users" \in p.mine)
    /\ ~("sources" \in q.mine /\ "sources" \in p.mine)

Once(table) ==
  /\ table["users"] \in {0, 1} /\ table["sources"] \in {0, 1}
  /\ \A t \in Catalog : table[t] = table["sources"]

SeedInv ==
  /\ SeedTypeOK /\ Once(rows)
  /\ \A s \in Seeders : Orderly(seeder[s], rows)
  /\ \A s, r \in Seeders : s # r => Distinct(seeder[s], seeder[r])

(* The stages and their tables, one by one.                                   *)
LEMMA StagesAre ==
  /\ Len(Stages) = 6
  /\ Stages[1] = "users" /\ Stages[2] = "addresses" /\ Stages[3] = "sources"
  /\ Stages[4] = "restaurants" /\ Stages[5] = "menus" /\ Stages[6] = "promotions"
  /\ Tables = {"users", "addresses", "sources", "restaurants", "menus", "promotions"}
  /\ \A i \in 1..6 : Stages[i] \in Tables
  /\ \A i \in 3..6 : Stages[i] \in Catalog
  /\ \A t \in Catalog : \E i \in 3..6 : t = Stages[i]
<1>1. /\ Len(Stages) = 6
      /\ Stages[1] = "users" /\ Stages[2] = "addresses" /\ Stages[3] = "sources"
      /\ Stages[4] = "restaurants" /\ Stages[5] = "menus" /\ Stages[6] = "promotions"
  BY DEF Stages
<1>2. \A i \in 1..6 : i \in {1, 2, 3, 4, 5, 6}
  OBVIOUS
<1>3. Tables = {Stages[i] : i \in {1, 2, 3, 4, 5, 6}}
  BY <1>1, <1>2 DEF Tables
<1>4. Tables = {"users", "addresses", "sources", "restaurants", "menus", "promotions"}
  BY <1>1, <1>3
<1> QED BY <1>1, <1>2, <1>4 DEF Catalog

(* One row fits, and no stage is NoStage.                                     *)
LEMMA SeedNumbers == MaxRows \in Nat /\ MaxRows >= 1 /\ NoStage \notin Nat
BY SeedAssumption

(* A seeder that does not run has inserted nothing.                           *)
LEMMA IdleIs ==
  /\ Idle \in Seeder /\ Idle.stage = NoStage /\ Idle.missing = FALSE /\ Idle.mine = {}
  /\ \A table : Orderly(Idle, table)
  /\ \A q : Distinct(Idle, q) /\ Distinct(q, Idle)
<1>1. /\ Idle \in Seeder /\ Idle.stage = NoStage /\ Idle.missing = FALSE
      /\ Idle.mine = {}
  BY StagesAre DEF Idle, Seeder
<1> QED BY <1>1, SeedNumbers DEF Orderly, Distinct

(* No seed runs at first, and the catalog is whole or absent.                 *)
LEMMA SeedInitInv == SeedInit => SeedInv
<1> SUFFICES ASSUME SeedInit PROVE SeedInv
  OBVIOUS
<1>1. PICK T \in {{}, {"users"}, {"users", "addresses"}, Tables, Catalog} :
        rows = [t \in Tables |-> IF t \in T THEN 1 ELSE 0]
  BY DEF SeedInit
<1>2. rows \in [Tables -> 0..MaxRows]
  BY <1>1, SeedNumbers
<1>3. Once(rows)
  BY <1>1, StagesAre DEF Once, Catalog
<1>4. seeder \in [Seeders -> Seeder] /\ \A s \in Seeders : seeder[s] = Idle
  BY IdleIs DEF SeedInit
<1> QED BY <1>2, <1>3, <1>4, IdleIs DEF SeedInv, SeedTypeOK

(* One seeder moves on; the table stays as it is.                             *)
LEMMA SeederMoves ==
  ASSUME SeedInv, NEW s \in Seeders, NEW q \in Seeder,
         seeder' = [seeder EXCEPT ![s] = q], UNCHANGED rows, Orderly(q, rows),
         \A r \in Seeders \ {s} : Distinct(q, seeder[r])
  PROVE SeedInv'
<1>1. /\ seeder' \in [Seeders -> Seeder] /\ seeder'[s] = q
      /\ \A r \in Seeders \ {s} : seeder'[r] = seeder[r]
  BY DEF SeedInv, SeedTypeOK
<1>2. SeedTypeOK' /\ Once(rows')
  BY <1>1 DEF SeedInv, SeedTypeOK
<1>3. \A r \in Seeders : Orderly(seeder'[r], rows')
  BY <1>1 DEF SeedInv
<1>4. ASSUME NEW r \in Seeders, NEW o \in Seeders, r # o
      PROVE Distinct(seeder'[r], seeder'[o])
  <2>1. \A x, y : Distinct(x, y) => Distinct(y, x)
    BY DEF Distinct
  <2> QED BY <1>1, <1>4, <2>1 DEF SeedInv
<1> QED BY <1>2, <1>3, <1>4 DEF SeedInv

(* A seed that is rolled back.                                                *)
LEMMA AbortKeeps ==
  ASSUME SeedInv, NEW s \in Seeders, Abort(s)
  PROVE SeedInv'
BY IdleIs, SeederMoves DEF Abort

(* A seed that starts.                                                        *)
LEMMA StartsKeeps ==
  ASSUME SeedInv, NEW s \in Seeders, SeedStarts(s)
  PROVE SeedInv'
<1> DEFINE q == [Idle EXCEPT !.stage = 1]
<1>1. q \in Seeder /\ q.stage = 1 /\ q.missing = FALSE /\ q.mine = {}
  BY IdleIs, StagesAre DEF Seeder
<1>2. seeder' = [seeder EXCEPT ![s] = q] /\ UNCHANGED rows
  BY DEF SeedStarts
<1> HIDE DEF q
<1>3. Orderly(q, rows) /\ \A r \in Seeders \ {s} : Distinct(q, seeder[r])
  BY <1>1, SeedNumbers DEF Orderly, Distinct
<1> QED BY <1>1, <1>2, <1>3, SeederMoves

(* The SELECT of a stage: behind the sources it finds what the SELECT of the  *)
(* sources found.                                                             *)
LEMMA LookKeeps ==
  ASSUME SeedInv, NEW s \in Seeders, NEW v, Look(s, v)
  PROVE SeedInv'
<1> DEFINE p == seeder[s]
           t == Stages[p.stage]
<1>1. /\ p \in Seeder /\ Orderly(p, rows) /\ p.stage \in 1..6 /\ ~p.missing
      /\ t \in Tables /\ Once(rows) /\ rows \in [Tables -> 0..MaxRows]
      /\ \A r \in Seeders \ {s} : Distinct(p, seeder[r])
  BY StagesAre DEF SeedInv, SeedTypeOK, Look, InStage
<1>2. p.stage \in 4..6 => IF "sources" \in p.mine THEN Seen(s, t) = 0 ELSE Seen(s, t) = 1
  <2> SUFFICES ASSUME p.stage \in 4..6
               PROVE IF "sources" \in p.mine THEN Seen(s, t) = 0 ELSE Seen(s, t) = 1
    OBVIOUS
  <2>1. t \in Catalog /\ rows[t] = rows["sources"]
    BY <1>1, StagesAre DEF Once
  <2>2. CASE "sources" \in p.mine
    <3>1. rows[t] = 0 /\ t \notin p.mine
      BY <1>1, <2>1, <2>2 DEF Orderly
    <3> QED BY <2>2, <3>1 DEF Seen
  <2>3. CASE "sources" \notin p.mine
    <3>1. rows[t] = 1 /\ t \notin p.mine
      BY <1>1, <2>1, <2>3 DEF Orderly
    <3> QED BY <2>3, <3>1 DEF Seen
  <2> QED BY <2>2, <2>3
<1>3. p.stage = 3 => "sources" \notin p.mine /\ (Seen(s, t) = 1 => rows["sources"] = 1)
  BY <1>1, StagesAre DEF Orderly, Seen
<1>4. CASE Abort(s)
  BY <1>4, AbortKeeps
<1>5. CASE NextStage(s) /\ Seen(s, t) = 1 /\ UNCHANGED rows
  <2> DEFINE q == [p EXCEPT !.stage = @ + 1]
  <2>1. /\ q \in Seeder /\ q.stage = p.stage + 1 /\ q.missing = FALSE
        /\ q.mine = p.mine
    BY <1>1, StagesAre DEF Seeder
  <2>2. seeder' = [seeder EXCEPT ![s] = q]
    BY <1>5 DEF NextStage
  <2> HIDE DEF p, q
  <2>3. Orderly(q, rows)
    <3>1. "sources" \in p.mine => p.stage \notin 1..6
      BY <1>1, <1>2, <1>5 DEF Orderly
    <3>2. q.stage \in 4..7 => rows["sources"] = 1
      BY <1>1, <1>3, <1>5, <2>1, <3>1 DEF Orderly
    <3> QED BY <1>1, <2>1, <3>1, <3>2, SeedNumbers DEF Orderly
  <2>4. \A r \in Seeders \ {s} : Distinct(q, seeder[r])
    BY <1>1, <2>1 DEF Distinct
  <2> QED BY <1>5, <2>1, <2>2, <2>3, <2>4, SeederMoves
<1>6. CASE /\ seeder' = [seeder EXCEPT ![s].missing = TRUE]
           /\ Seen(s, t) # 1 /\ UNCHANGED rows
  <2> DEFINE q == [p EXCEPT !.missing = TRUE]
  <2>1. q \in Seeder /\ q.stage = p.stage /\ q.missing = TRUE /\ q.mine = p.mine
    BY <1>1 DEF Seeder
  <2>2. seeder' = [seeder EXCEPT ![s] = q]
    BY <1>6
  <2> HIDE DEF p, q
  <2>3. Orderly(q, rows)
    BY <1>1, <1>2, <1>6, <2>1, SeedNumbers DEF Orderly
  <2>4. \A r \in Seeders \ {s} : Distinct(q, seeder[r])
    BY <1>1, <2>1 DEF Distinct
  <2> QED BY <1>6, <2>1, <2>2, <2>3, <2>4, SeederMoves
<1>7. At(s) = t
  BY DEF At
<1> QED BY <1>4, <1>5, <1>6, <1>7 DEF Look

(* The INSERT of a stage: a unique key it gets is nobody's, committed or      *)
(* pending.                                                                   *)
LEMMA InsertKeeps ==
  ASSUME SeedInv, NEW s \in Seeders, Insert(s)
  PROVE SeedInv'
<1> DEFINE p == seeder[s]
           t == Stages[p.stage]
           q == [stage |-> p.stage + 1, missing |-> FALSE, mine |-> p.mine \union {t}]
<1>1. /\ p \in Seeder /\ Orderly(p, rows) /\ p.stage \in 1..6 /\ p.missing
      /\ t \in Tables /\ Once(rows) /\ rows \in [Tables -> 0..MaxRows]
      /\ \A r \in Seeders \ {s} : Distinct(p, seeder[r])
  BY StagesAre DEF SeedInv, SeedTypeOK, Insert, InStage
<1>2. t = At(s)
  BY DEF At
<1>3. CASE t \in Unique /\ rows[t] > 0
  BY <1>2, <1>3, AbortKeeps DEF Insert
<1>4. CASE ~(t \in Unique /\ rows[t] > 0)
  <2>1. seeder' = [seeder EXCEPT ![s] = q] /\ UNCHANGED rows
    BY <1>2, <1>4 DEF Insert
  <2>2. t \in Unique => rows[t] = 0
    BY <1>1, <1>4, SeedNumbers
  <2>3. t \in Unique => \A r \in Seeders \ {s} : t \notin seeder[r].mine
    BY <1>2 DEF Insert, InsertWaits, Pending
  <2>4. /\ p.stage = 1 <=> t = "users"
        /\ p.stage = 3 <=> t = "sources"
    BY <1>1, StagesAre
  <2>5. /\ q \in Seeder /\ q.stage = p.stage + 1 /\ q.missing = FALSE
        /\ q.mine = p.mine \union {t}
    BY <1>1, StagesAre DEF Seeder
  <2>6. "users" \in q.mine => rows["users"] = 0
    BY <1>1, <2>2, <2>5 DEF Orderly, Unique
  <2>7. CASE p.stage \in 1..2
    <3>1. "sources" \notin p.mine /\ t \notin Catalog /\ t # "sources"
      BY <1>1, <2>7, StagesAre DEF Orderly, Catalog
    <3> HIDE DEF p, q, t
    <3>2. Orderly(q, rows)
      BY <1>1, <2>5, <2>6, <2>7, <3>1, SeedNumbers DEF Orderly
    <3>3. \A r \in Seeders \ {s} : Distinct(q, seeder[r])
      BY <1>1, <2>3, <2>5, <3>1 DEF Distinct, Unique
    <3> QED BY <2>1, <2>5, <3>2, <3>3, SeederMoves
  <2>8. CASE p.stage = 3
    <3>1. /\ "sources" \notin p.mine /\ t = "sources"
          /\ \A c \in Catalog : c \notin p.mine
      BY <1>1, <2>4, <2>8 DEF Orderly
    <3>2. \A i \in 3..6 : Stages[i] \in q.mine <=> i < q.stage
      BY <2>5, <2>8, <3>1, StagesAre
    <3> HIDE DEF p, q, t
    <3>3. Orderly(q, rows)
      BY <2>2, <2>5, <2>6, <2>8, <3>1, <3>2, SeedNumbers DEF Orderly, Unique
    <3>4. \A r \in Seeders \ {s} : Distinct(q, seeder[r])
      BY <1>1, <2>3, <2>5, <3>1 DEF Distinct, Unique
    <3> QED BY <2>1, <2>5, <3>3, <3>4, SeederMoves
  <2>9. CASE p.stage \in 4..6
    <3>1. "sources" \in p.mine /\ t # "sources" /\ t # "users"
      BY <1>1, <2>4, <2>9 DEF Orderly
    <3>2. \A i \in 3..6 : Stages[i] \in q.mine <=> i < q.stage
      <4>1. \A i \in 3..6 : Stages[i] \in p.mine <=> i < p.stage
        BY <1>1, <3>1 DEF Orderly
      <4>2. \A i \in 3..6 : Stages[i] = t <=> i = p.stage
        BY <2>9, StagesAre
      <4> HIDE DEF p, q, t
      <4> QED BY <2>5, <2>9, <4>1, <4>2
    <3> HIDE DEF p, q, t
    <3>3. Orderly(q, rows)
      BY <1>1, <2>5, <2>6, <2>9, <3>1, <3>2, SeedNumbers DEF Orderly
    <3>4. \A r \in Seeders \ {s} : Distinct(q, seeder[r])
      BY <1>1, <2>5, <3>1 DEF Distinct
    <3> QED BY <2>1, <2>5, <3>3, <3>4, SeederMoves
  <2> QED BY <1>1, <2>7, <2>8, <2>9
<1> QED BY <1>3, <1>4

(* A step that changes the table for T, with no catalog in it or all of it.   *)
LEMMA AddedIs ==
  ASSUME SeedInv, NEW T \in SUBSET Tables, Added(T)
  PROVE /\ rows' \in [Tables -> 0..MaxRows]
        /\ \A t \in Tables \ T : rows'[t] = rows[t]
        /\ \A t \in T : rows[t] = 0 => rows'[t] = 1
<1>1. rows \in [Tables -> 0..MaxRows]
  BY DEF SeedInv, SeedTypeOK
<1> QED BY <1>1, SeedNumbers DEF Added

(* The commit: the whole catalog or none of it becomes visible, and no other  *)
(* seed counted on its absence.                                               *)
LEMMA CommitKeeps ==
  ASSUME SeedInv, NEW s \in Seeders, SeedCommits(s)
  PROVE SeedInv'
<1> DEFINE p == seeder[s]
<1>1. /\ p \in Seeder /\ Orderly(p, rows) /\ p.stage = 7 /\ Once(rows)
      /\ \A r \in Seeders \ {s} : Distinct(p, seeder[r])
  BY StagesAre DEF SeedInv, SeedTypeOK, SeedCommits
<1>2. seeder' = [seeder EXCEPT ![s] = Idle] /\ p.mine \in SUBSET Tables
  BY <1>1 DEF SeedCommits, Seeder
<1>3. /\ rows' \in [Tables -> 0..MaxRows]
      /\ \A t \in Tables \ p.mine : rows'[t] = rows[t]
      /\ \A t \in p.mine : rows[t] = 0 => rows'[t] = 1
  BY <1>2, AddedIs DEF SeedCommits
<1>4. /\ seeder' \in [Seeders -> Seeder] /\ seeder'[s] = Idle
      /\ \A r \in Seeders \ {s} : seeder'[r] = seeder[r]
  BY <1>2, IdleIs DEF SeedInv, SeedTypeOK
<1> HIDE DEF p
<1>5. rows'["users"] = IF "users" \in p.mine THEN 1 ELSE rows["users"]
  BY <1>1, <1>3, StagesAre DEF Orderly
<1>6. \A t \in Catalog :
        rows'[t] = IF "sources" \in p.mine THEN 1 ELSE rows[t]
  <2> SUFFICES ASSUME NEW t \in Catalog
               PROVE rows'[t] = IF "sources" \in p.mine THEN 1 ELSE rows[t]
    OBVIOUS
  <2>1. t \in Tables /\ rows[t] = rows["sources"]
    BY <1>1, StagesAre DEF Once, Catalog
  <2>2. CASE "sources" \in p.mine
    <3>1. PICK i \in 3..6 : t = Stages[i]
      BY StagesAre
    <3>2. t \in p.mine /\ rows[t] = 0
      BY <1>1, <2>1, <2>2, <3>1 DEF Orderly
    <3> QED BY <1>3, <2>2, <3>2
  <2>3. CASE "sources" \notin p.mine
    BY <1>1, <1>3, <2>1, <2>3 DEF Orderly
  <2> QED BY <2>2, <2>3
<1>7. "sources" \in Catalog
  BY DEF Catalog
<1>8. Once(rows')
  BY <1>1, <1>5, <1>6, <1>7 DEF Once
<1>9. ASSUME NEW r \in Seeders PROVE Orderly(seeder'[r], rows')
  <2>1. CASE r = s
    BY <1>4, <2>1, IdleIs
  <2>2. CASE r # s
    <3>1. seeder'[r] = seeder[r] /\ Orderly(seeder[r], rows) /\ Distinct(p, seeder[r])
      BY <1>1, <1>4, <2>2 DEF SeedInv
    <3> QED BY <1>1, <1>5, <1>6, <1>7, <3>1 DEF Orderly, Distinct
  <2> QED BY <2>1, <2>2
<1>10. \A r, o \in Seeders : r # o => Distinct(seeder'[r], seeder'[o])
  BY <1>4, IdleIs DEF SeedInv
<1> QED BY <1>3, <1>4, <1>8, <1>9, <1>10 DEF SeedInv, SeedTypeOK

(* A write of the service: the catalog stays, a user's key nobody has pending *)
(* comes, or any row goes.                                                    *)
LEMMA ServiceKeeps ==
  ASSUME SeedInv, UNCHANGED seeder, rows' \in [Tables -> 0..MaxRows],
         \A t \in Catalog : rows'[t] = rows[t],
         \/ rows'["users"] \in {0, rows["users"]}
         \/ Pending("users") = {} /\ rows'["users"] = 1
  PROVE SeedInv'
<1>1. "sources" \in Catalog
  BY DEF Catalog
<1>2. SeedTypeOK' /\ Once(rows')
  BY <1>1 DEF SeedInv, SeedTypeOK, Once
<1>3. ASSUME NEW s \in Seeders PROVE Orderly(seeder'[s], rows')
  <2>1. Orderly(seeder[s], rows) /\ seeder'[s] = seeder[s]
    BY DEF SeedInv
  <2>2. "users" \in seeder[s].mine => rows'["users"] = 0
    BY <2>1 DEF Orderly, Pending
  <2> QED BY <1>1, <2>1, <2>2 DEF Orderly
<1>4. \A r, o \in Seeders : r # o => Distinct(seeder'[r], seeder'[o])
  BY DEF SeedInv
<1> QED BY <1>2, <1>3, <1>4 DEF SeedInv

(* What the deletion of the account makes of a seed keeps it in order, with   *)
(* the pending keys it had.                                                   *)
LEMMA OrphanedIs ==
  ASSUME NEW p \in Seeder, NEW table, NEW new, Orderly(p, table),
         new["users"] = 0, new["sources"] = table["sources"]
  PROVE /\ Orphaned(p) \in Seeder /\ Orderly(Orphaned(p), new)
        /\ \A t \in {"users", "sources"} : t \in Orphaned(p).mine => t \in p.mine
<1>1. CASE p.stage # 2
  <2> DEFINE left == p.mine \ {"addresses"}
             q == [p EXCEPT !.mine = left]
  <2>1. left \in SUBSET Tables
    BY DEF Seeder
  <2>2. /\ \A t \in Catalog : t \in left <=> t \in p.mine
        /\ "users" \in left <=> "users" \in p.mine
        /\ "sources" \in left <=> "sources" \in p.mine
        /\ \A i \in 3..6 : Stages[i] \in left <=> Stages[i] \in p.mine
    BY StagesAre DEF Catalog
  <2>3. p = Idle => left = p.mine
    BY IdleIs
  <2>4. Orphaned(p) = q
    BY <1>1 DEF Orphaned
  <2> HIDE DEF left
  <2>5. /\ q \in Seeder /\ q.stage = p.stage /\ q.missing = p.missing /\ q.mine = left
        /\ left = p.mine => q = p
    BY <2>1 DEF Seeder
  <2> HIDE DEF q
  <2>6. Orderly(q, new)
    BY <2>2, <2>3, <2>5 DEF Orderly
  <2> QED BY <2>2, <2>4, <2>5, <2>6
<1>2. CASE p.stage = 2 /\ ~(~p.missing /\ rows["addresses"] > 1)
  <2> DEFINE q == [p EXCEPT !.stage = 3, !.missing = FALSE]
  <2>1. Orphaned(p) = q
    BY <1>2 DEF Orphaned
  <2>0. 3 \in 1..Len(Stages) + 1
    BY StagesAre
  <2>2. q \in Seeder /\ q.stage = 3 /\ q.missing = FALSE /\ q.mine = p.mine
    BY <2>0, Zenon DEF Seeder
  <2> HIDE DEF q
  <2>3. Orderly(q, new)
    BY <1>2, <2>2, SeedNumbers DEF Orderly
  <2> QED BY <2>1, <2>2, <2>3
<1>3. CASE p.stage = 2 /\ ~p.missing /\ rows["addresses"] > 1
  <2>1. Orphaned(p) = Idle
    BY <1>3 DEF Orphaned
  <2> QED BY <2>1, IdleIs
<1> QED BY <1>1, <1>2, <1>3

(* The account goes, and with it what a seed under way took for its own.      *)
LEMMA DeleteKeeps ==
  ASSUME SeedInv, DeleteAccount
  PROVE SeedInv'
<1>1. /\ rows \in [Tables -> 0..MaxRows] /\ seeder \in [Seeders -> Seeder]
  BY DEF SeedInv, SeedTypeOK
<1>2. /\ rows' \in [Tables -> 0..MaxRows] /\ rows'["users"] = 0
      /\ \A t \in Catalog : rows'[t] = rows[t]
  BY <1>1, StagesAre, SeedNumbers DEF DeleteAccount, Catalog
<1>3. \A s \in Seeders : seeder'[s] = Orphaned(seeder[s])
  BY DEF DeleteAccount
<1>4. "sources" \in Catalog
  BY DEF Catalog
<1>5. \A s \in Seeders :
        /\ seeder'[s] \in Seeder /\ Orderly(seeder'[s], rows')
        /\ \A t \in {"users", "sources"} : t \in seeder'[s].mine => t \in seeder[s].mine
  BY <1>1, <1>2, <1>3, <1>4, OrphanedIs DEF SeedInv
<1>6. seeder' \in [Seeders -> Seeder]
  BY <1>5 DEF DeleteAccount
<1>7. Once(rows')
  BY <1>2, <1>4 DEF SeedInv, Once
<1>8. \A r, o \in Seeders : r # o => Distinct(seeder'[r], seeder'[o])
  BY <1>5 DEF SeedInv, Distinct
<1> QED BY <1>2, <1>5, <1>6, <1>7, <1>8 DEF SeedInv, SeedTypeOK

(* The writes of the service.                                                 *)
LEMMA ServingKeeps ==
  ASSUME SeedInv, Serving
  PROVE SeedInv'
<1> USE StagesAre DEF Catalog
<1>1. rows \in [Tables -> 0..MaxRows]
  BY DEF SeedInv, SeedTypeOK
<1>2. CASE Register
  BY <1>1, <1>2, AddedIs, ServiceKeeps DEF Register
<1>3. CASE DeleteAccount
  BY <1>3, DeleteKeeps
<1>4. CASE AddAddress
  BY <1>1, <1>4, AddedIs, ServiceKeeps DEF AddAddress
<1>5. CASE DropAddress
  BY <1>1, <1>5, ServiceKeeps, SeedNumbers DEF DropAddress
<1> QED BY <1>2, <1>3, <1>4, <1>5 DEF Serving

(* All seeds are killed.                                                      *)
LEMMA AllIdleKeeps ==
  ASSUME SeedInv, UNCHANGED rows, seeder' = [s \in Seeders |-> Idle]
  PROVE SeedInv'
<1>1. seeder' \in [Seeders -> Seeder] /\ \A s \in Seeders : seeder'[s] = Idle
  BY IdleIs
<1> QED BY <1>1, IdleIs DEF SeedInv, SeedTypeOK

(* Every step keeps the seeds in order.                                       *)
LEMMA SeedStep ==
  ASSUME SeedInv, [Next]_vars
  PROVE SeedInv'
<1>1. CASE Restart \/ Booting \/ Deploy \/ \E u \in Upgraders : Upgrading(u)
  <2>1. SeedersSurvive /\ UNCHANGED rows
    BY <1>1 DEF Restart, Booting, Deploy, Upgrading
  <2>2. CASE UNCHANGED seeder
    BY <2>1, <2>2 DEF SeedInv, SeedTypeOK
  <2> QED BY <2>1, <2>2, AllIdleKeeps DEF SeedersSurvive
<1>2. CASE \E s \in Seeders : Seeding(s)
  BY <1>2, StartsKeeps DEF Seeding
<1>3. CASE \E s \in Seeders : SeederGoesOn(s)
  BY <1>3, LookKeeps, InsertKeeps, CommitKeeps DEF SeederGoesOn, SeederSteps
<1>4. CASE Serving
  BY <1>4, ServingKeeps
<1>5. CASE Fault
  BY <1>5, AllIdleKeeps DEF Fault
<1>6. CASE UNCHANGED vars
  BY <1>6 DEF vars, SeedInv, SeedTypeOK
<1> QED BY <1>1, <1>2, <1>3, <1>4, <1>5, <1>6 DEF Next

(* The inductive invariant of the seed runs (seed_data.py, main).             *)
THEOREM SeedInvariance == Spec => []SeedInv
<1>1. Init => SeedInv
  BY SeedInitInv DEF Init
<1> QED BY <1>1, SeedStep, PTL DEF Spec

(* However many seeds overlap, abort or are killed, no seeded key has two     *)
(* rows outside user_addresses, although menus and promotions have no unique  *)
(* key.                                                                       *)
THEOREM SeedsOnce == Spec => []SeededOnce
<1>1. SeedInv => SeededOnce
  BY StagesAre DEF SeedInv, Once, SeededOnce, Catalog
<1> QED BY <1>1, SeedInvariance, PTL

(* The catalog is there whole or not at all.                                  *)
THEOREM CatalogIsWhole == Spec => []WholeCatalog
<1>1. SeedInv => WholeCatalog
  BY DEF SeedInv, Once, WholeCatalog
<1> QED BY <1>1, SeedInvariance, PTL

(* Containers, processes, rows and seeders keep their types.                  *)
THEOREM TypeCorrect == Spec => []TypeOK
<1>1. Init => faults \in 0..MaxFaults
  BY FaultsAssumption DEF Init
<1>2. faults \in 0..MaxFaults /\ [Next]_vars => (faults \in 0..MaxFaults)'
  BY FaultsAssumption
  DEF Next, vars, Restart, Booting, Deploy, Upgrading, Seeding, SeederGoesOn, Serving,
      Fault
<1>3. Spec => [](faults \in 0..MaxFaults)
  BY <1>1, <1>2, PTL DEF Spec
<1>4. StartupInv /\ SeedInv /\ faults \in 0..MaxFaults => TypeOK
  BY DEF StartupInv, SeedInv, TypeOK
<1> QED BY <1>3, <1>4, StartupInvariance, SeedInvariance, PTL

-----------------------------------------------------------------------------
(* An upgrader that has changed the schema waits for nobody, and where none   *)
(* has, nobody waits.                                                         *)
LEMMA SomeUpgraderProceeds ==
  ASSUME StartupInv, NEW u \in Upgraders, up[u].on
  PROVE \E v \in Upgraders : UpgraderCanProceed(v)
<1>1. CASE Waits(u)
  <2>1. PICK v \in Upgraders \ {u} : up[v].on /\ up[v].at > up[v].from
    BY <1>1 DEF Waits
  <2>2. \A w \in Upgraders : up[w].at \in Nat /\ up[w].from \in Nat
    BY LatestIsNat DEF StartupInv, StartupTypeOK, Process
  <2>3. ~Waits(v)
    BY <2>1, <2>2 DEF Waits, StartupInv, Upgrades
  <2> QED BY <2>1, <2>3 DEF UpgraderCanProceed
<1>2. CASE ~Waits(u)
  BY <1>2 DEF UpgraderCanProceed
<1> QED BY <1>1, <1>2

(* A seed that cannot go on waits at one of the first stages, for one that    *)
(* has passed that stage.                                                     *)
LEMMA WaitsForOneAhead ==
  ASSUME SeedInv, NEW s \in Seeders, seeder[s] # Idle, ~SeederCanProceed(s)
  PROVE /\ seeder[s].stage \in {1, 3, 4}
        /\ \E r \in Seeders : seeder[r] # Idle /\ seeder[r].stage > seeder[s].stage
<1> DEFINE p == seeder[s]
           t == Stages[p.stage]
<1>1. p \in Seeder /\ Orderly(p, rows)
  BY DEF SeedInv, SeedTypeOK
<1>2. p.stage \in 1..6
  BY <1>1, StagesAre DEF Seeder, Orderly, SeederCanProceed
<1>3. t \in Unique /\ Pending(t) \ {s} # {}
  BY <1>2, StagesAre DEF SeederCanProceed, InStage, InsertWaits, At
<1>4. p.stage \in {1, 3, 4}
  BY <1>2, <1>3, StagesAre DEF Unique
<1>5. PICK r \in Seeders : t \in seeder[r].mine
  BY <1>3 DEF Pending
<1>6. Orderly(seeder[r], rows)
  BY DEF SeedInv
<1>7. seeder[r] # Idle
  BY <1>5, IdleIs
<1>8. seeder[r].stage > p.stage
  <2>1. CASE p.stage = 1
    BY <1>5, <1>6, <2>1, StagesAre DEF Orderly
  <2>2. CASE p.stage \in {3, 4}
    <3>1. t \in Catalog
      BY <2>2, StagesAre
    <3>2. "sources" \in seeder[r].mine
      BY <1>5, <1>6, <3>1 DEF Orderly
    <3>3. seeder[r].stage \in 4..7 /\ (t \in seeder[r].mine <=> p.stage < seeder[r].stage)
      BY <1>6, <2>2, <3>2, StagesAre DEF Orderly
    <3> QED BY <1>5, <2>2, <3>3
  <2> QED BY <1>4, <2>1, <2>2
<1> QED BY <1>4, <1>7, <1>8

(* From one seed to the one it waits for, at most three times.                *)
LEMMA SomeSeederProceeds ==
  ASSUME SeedInv, NEW s \in Seeders, seeder[s] # Idle
  PROVE \E r \in Seeders : SeederCanProceed(r)
<1> SUFFICES ASSUME \A r \in Seeders : ~SeederCanProceed(r) PROVE FALSE
  OBVIOUS
<1>1. \A r \in Seeders : seeder[r] # Idle =>
        /\ seeder[r].stage \in {1, 3, 4}
        /\ \E o \in Seeders : seeder[o] # Idle /\ seeder[o].stage > seeder[r].stage
  BY WaitsForOneAhead
<1>2. PICK r \in Seeders : seeder[r] # Idle /\ seeder[r].stage \in {3, 4}
  BY <1>1
<1>3. PICK o \in Seeders : seeder[o] # Idle /\ seeder[o].stage = 4
  BY <1>1, <1>2
<1> QED BY <1>1, <1>3

(* No two upgrades of the schema, and no seeds, wait for one another: of each *)
(* kind, one that is under way can take its next step.  With RunsAreBounded   *)
(* this is what SeedEnds rests on besides fairness.                           *)
THEOREM NobodyIsStuck == Spec => []NeverStuck
<1>1. StartupInv /\ SeedInv => NeverStuck
  BY SomeUpgraderProceeds, SomeSeederProceeds DEF NeverStuck
<1> QED BY <1>1, StartupInvariance, SeedInvariance, PTL

(* Further through the seed: at a later stage, or about to insert at this.    *)
(* (A deletion by the service can change what it has inserted as well.)       *)
Further(q, p) ==
  q.stage > p.stage \/ (q.stage = p.stage /\ q.missing /\ ~p.missing)

Place(p) == <<p.stage, p.missing>>

StepsForward ==
  [][/\ \A u \in Upgraders :
          up[u].on /\ up'[u] # up[u] => ~up'[u].on \/ up'[u].at > up[u].at
     /\ \A s \in Seeders :
          seeder[s] # Idle /\ Place(seeder'[s]) # Place(seeder[s]) =>
            seeder'[s] = Idle \/ Further(seeder'[s], seeder[s])]_vars

(* A step of anybody's leaves an upgrade alone, ends it or brings it on.      *)
LEMMA UpgradersForward ==
  ASSUME StartupInv, [Next]_vars, NEW u \in Upgraders, up[u].on, up'[u] # up[u]
  PROVE ~up'[u].on \/ up'[u].at > up[u].at
<1>0. up \in [Upgraders -> Process]
  BY DEF StartupInv, StartupTypeOK
<1>1. CASE Restart
  BY <1>0, <1>1 DEF Restart, ContainerStarts, StartupInv, Containers
<1>2. CASE Deploy
  BY <1>0, <1>2 DEF Deploy, DeployUpgrades
<1>3. CASE \E v \in Upgraders : Upgrading(v)
  <2>1. PICK v \in Upgraders : UpgraderSteps(v)
    BY <1>3 DEF Upgrading
  <2>2. CASE Revision(v)
    <3>1. up'[u].at = up[u].at + 1 /\ up[u].at \in Nat
      BY <1>0, <2>2, LatestIsNat DEF Revision, Process
    <3> QED BY <3>1
  <2>3. CASE Upgraded(v) \/ Fails(v)
    BY <1>0, <2>3, OffIs DEF Upgraded, Fails, Stopped
  <2> QED BY <2>1, <2>2, <2>3 DEF UpgraderSteps
<1>4. CASE Fault \/ Booting
  BY <1>4, OffIs DEF Fault, Booting, Boots, ContainerDies, UpgradersLose, Stopped
<1>5. CASE (\E s \in Seeders : Seeding(s) \/ SeederGoesOn(s)) \/ Serving \/ UNCHANGED vars
  BY <1>5 DEF Seeding, SeederGoesOn, Serving, startupVars, vars
<1> QED BY <1>1, <1>2, <1>3, <1>4, <1>5 DEF Next

(* The same of a seed.                                                        *)
LEMMA SeedersForward ==
  ASSUME SeedInv, [Next]_vars,
         NEW s \in Seeders, seeder[s] # Idle, Place(seeder'[s]) # Place(seeder[s])
  PROVE seeder'[s] = Idle \/ Further(seeder'[s], seeder[s])
<1>0. seeder \in [Seeders -> Seeder] /\ seeder'[s] # seeder[s]
  BY DEF SeedInv, SeedTypeOK
<1>1. CASE \E u \in Upgraders : Upgrading(u)
  BY <1>0, <1>1 DEF Upgrading, SeedersSurvive
<1>2. CASE Restart \/ Booting \/ Deploy
  BY <1>0, <1>2 DEF Restart, Booting, Deploy, SeedersSurvive
<1>3. CASE \E r \in Seeders : Seeding(r)
  BY <1>0, <1>3 DEF Seeding, SeedStarts
<1>4. CASE \E r \in Seeders : SeederGoesOn(r)
  <2>1. PICK r \in Seeders : SeederSteps(r, schema)
    BY <1>4 DEF SeederGoesOn
  <2>2. PICK q : seeder' = [seeder EXCEPT ![r] = q]
    <3>1. CASE Look(r, schema)
      BY <3>1 DEF Look, Abort, NextStage
    <3>2. CASE Insert(r)
      BY <3>2 DEF Insert, Abort
    <3>3. CASE SeedCommits(r)
      BY <3>3 DEF SeedCommits
    <3> QED BY <2>1, <3>1, <3>2, <3>3 DEF SeederSteps
  <2>3. r = s
    BY <1>0, <2>2
  <2>4. CASE Abort(s) \/ SeedCommits(s)
    BY <1>0, <2>4 DEF Abort, SeedCommits
  <2>5. CASE InStage(s) /\ NextStage(s)
    <3>1. seeder'[s].stage = seeder[s].stage + 1 /\ seeder[s].stage \in 1..6
      BY <1>0, <2>5, StagesAre DEF NextStage, InStage, Seeder
    <3> QED BY <3>1 DEF Further
  <2>6. CASE ~seeder[s].missing /\ seeder' = [seeder EXCEPT ![s].missing = TRUE]
    BY <1>0, <2>6 DEF Further, Seeder
  <2>7. CASE /\ InStage(s)
             /\ seeder' = [seeder EXCEPT ![s] =
                  [stage |-> @.stage + 1, missing |-> FALSE,
                   mine |-> @.mine \union {At(s)}]]
    <3>1. seeder'[s].stage = seeder[s].stage + 1 /\ seeder[s].stage \in 1..6
      BY <1>0, <2>7, StagesAre DEF InStage, Seeder
    <3> QED BY <3>1 DEF Further
  <2> QED BY <2>1, <2>3, <2>4, <2>5, <2>6, <2>7 DEF SeederSteps, Look, Insert
<1>5. CASE Serving
  <2>1. DeleteAccount
    BY <1>0, <1>5 DEF Serving, Register, AddAddress, DropAddress
  <2>2. seeder'[s] = Orphaned(seeder[s]) /\ seeder[s] \in Seeder
    BY <1>0, <2>1 DEF DeleteAccount
  <2>3. CASE seeder[s].stage # 2
    BY <2>2, <2>3 DEF Orphaned, Place, Seeder
  <2>4. CASE seeder[s].stage = 2
    BY <2>2, <2>4 DEF Orphaned, Further, Seeder
  <2> QED BY <2>3, <2>4
<1>6. CASE Fault
  BY <1>6 DEF Fault
<1>7. CASE UNCHANGED vars
  BY <1>0, <1>7 DEF vars
<1> QED BY <1>1, <1>2, <1>3, <1>4, <1>5, <1>6, <1>7 DEF Next

(* No upgrade and no seed repeats a step: an upgrade is over after one step   *)
(* per revision and one more, a seed after two per stage and its commit,      *)
(* unless a crash ends it before.                                             *)
THEOREM RunsAreBounded == Spec => StepsForward
<1>1. StartupInv /\ SeedInv /\ [Next]_vars =>
        [/\ \A u \in Upgraders :
              up[u].on /\ up'[u] # up[u] => ~up'[u].on \/ up'[u].at > up[u].at
         /\ \A s \in Seeders :
              seeder[s] # Idle /\ Place(seeder'[s]) # Place(seeder[s]) =>
                seeder'[s] = Idle \/ Further(seeder'[s], seeder[s])]_vars
  BY UpgradersForward, SeedersForward
<1> QED BY <1>1, StartupInvariance, SeedInvariance, PTL DEF Spec, StepsForward
=============================================================================
