------------------------------ MODULE Startup ------------------------------
(* From an empty or older database to a serving container: scripts/start.sh   *)
(* under Docker's restart policy, the second `alembic upgrade head` that      *)
(* `make deploy` runs inside the container while the first may still be at    *)
(* work, and migrations/env.py, which runs all revisions in one transaction.  *)
EXTENDS Naturals

CONSTANTS
  Latest   \* the number of revisions: 0001, 0002, 0003

ASSUME LatestAssumption == Latest \in Nat

Upgraders == {"start", "deploy"}

VARIABLES
  container,  \* "stopped", "starting" (start.sh), "booting" (gunicorn loads
              \* app.main) or "serving"
  imports,    \* whether the image has every module app/main.py imports: at
              \* this commit it has not, main.py:36 names one that is missing
  schema,     \* the committed revision, 0 for an empty database
  up          \* upgrader -> its process: from is the revision it read, at the
              \* one its transaction has reached

startupVars == <<container, imports, schema, up>>

Off == [on |-> FALSE, from |-> 0, at |-> 0]
Process == [on : BOOLEAN, from : 0..Latest, at : 0..Latest]

StartupInit ==
  /\ container = "stopped"
  /\ imports \in BOOLEAN
  /\ schema \in 0..Latest
  /\ up = [u \in Upgraders |-> Off]

(* `alembic upgrade head` reads the version table.                            *)
Begun == [on |-> TRUE, from |-> schema, at |-> schema]

ContainerStarts ==
  /\ container = "stopped"
  /\ container' = "starting"
  /\ up' = [up EXCEPT !["start"] = Begun]
  /\ UNCHANGED schema

(* `docker compose exec` needs a running container.                           *)
DeployUpgrades ==
  /\ container # "stopped" /\ ~up["deploy"].on
  /\ up' = [up EXCEPT !["deploy"] = Begun]
  /\ UNCHANGED <<container, schema>>

(* Mutant: an advisory lock that each takes before it looks for the other.    *)
WaitsForAny(u) == \E v \in Upgraders \ {u} : up[v].on

(* A transaction with DDL makes whoever changes the same objects wait, and    *)
(* both begin with the revision that follows the committed one.               *)
Waits(u) == \E v \in Upgraders \ {u} : up[v].on /\ up[v].at > up[v].from

(* Mutant: CREATE TABLE IF NOT EXISTS.                                        *)
ExistsUnnoticed(u) == FALSE

(* What the next revision creates exists: another upgrader was faster.        *)
Exists(u) == up[u].at < schema

(* Mutant: an upgrade that does not know where to stop.                       *)
RevisionUnbounded(u) ==
  /\ up[u].on /\ ~Waits(u) /\ ~Exists(u)
  /\ up' = [up EXCEPT ![u].at = @ + 1]
  /\ UNCHANGED <<container, schema>>

Revision(u) ==
  /\ up[u].on /\ up[u].at < Latest /\ ~Waits(u) /\ ~Exists(u)
  /\ up' = [up EXCEPT ![u].at = @ + 1]
  /\ UNCHANGED <<container, schema>>

Upgraded(u) ==
  /\ up[u].on /\ up[u].at = Latest
  /\ schema' = Latest
  /\ up' = [up EXCEPT ![u] = Off]
  /\ container' = IF u = "start" THEN "booting" ELSE container

(* Mutant: restart: "no" and a start.sh that hangs on a failed migration.     *)
FailsForGood(u) ==
  /\ up[u].on /\ Exists(u) /\ ~Waits(u)
  /\ up' = [up EXCEPT ![u] = Off]
  /\ UNCHANGED <<container, schema>>

(* set -e: the container's own failure ends start.sh, the container, and what *)
(* was executing in it; Docker starts it again.                               *)
Stopped == container' = "stopped" /\ up' = [u \in Upgraders |-> Off]

Fails(u) ==
  /\ up[u].on /\ Exists(u) /\ ~Waits(u)
  /\ IF u = "start" THEN Stopped
     ELSE up' = [up EXCEPT ![u] = Off] /\ UNCHANGED container
  /\ UNCHANGED schema

(* gunicorn's workers load app.main.  If they cannot, the master gives up,    *)
(* and with it the container, which Docker starts again.                      *)
Boots ==
  /\ container = "booting"
  /\ IF imports THEN container' = "serving" /\ UNCHANGED up ELSE Stopped
  /\ UNCHANGED schema

ContainerDies == container # "stopped" /\ Stopped /\ UNCHANGED schema

(* Mutant: start.sh without `set -e`.                                         *)
UpgradersLoseUnnoticed ==
  /\ up' = [u \in Upgraders |-> Off]
  /\ container' = IF up["start"].on THEN "booting" ELSE container
  /\ UNCHANGED schema

(* PostgreSQL restarts: transactions are gone, and the upgraders fail.        *)
UpgradersLose ==
  /\ IF up["start"].on THEN Stopped
     ELSE up' = [u \in Upgraders |-> Off] /\ UNCHANGED container
  /\ UNCHANGED schema

UpgraderSteps(u) == Revision(u) \/ Upgraded(u) \/ Fails(u)

StartupTypeOK ==
  /\ container \in {"stopped", "starting", "booting", "serving"}
  /\ imports \in BOOLEAN
  /\ schema \in 0..Latest
  /\ up \in [Upgraders -> Process]
=============================================================================
