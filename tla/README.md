# A TLA+ model of the Mallah backend

Mallah is a FastAPI service over PostgreSQL and Redis.  At this commit its own
logic is the account module (`app/modules/auth`), served by Gunicorn with two
Uvicorn workers; the other modules are scaffolds that answer a constant.  This directory holds TLA+ modules of that logic, the TLC runs that
check them on small instances, and TLAPS proofs of the main safety properties
for every value of the constants.  Paths below are relative to the repository.

Run everything from this directory:

    tlc -workers 2 -config AccountsRace.cfg MCAccounts.tla
    tlc -workers 2 -config Gateway.cfg Gateway.tla
    tlapm AccountsProofs.tla

## Inventory

| Component | State it keeps | Operations | What is hard | What makes it correct |
|---|---|---|---|---|
| Accounts: `auth/service.py`, `models.py`, `schemas.py`, routes `api/consumer/auth.py`, `me.py` | table `users` | register, login, Firebase login, refresh, read / patch / delete me, reset request / confirm, change password | every handler reads, decides, and writes later; two requests overlap between workers and at every `await` | emails and Firebase uids belong to one account; deletion is final; no write restores what another request replaced; every request ends |
| Addresses: `auth/service.py:343-461` | table `user_addresses` | create, list, update, delete, clear defaults | "one default" is kept by two statements, not by the schema | an address is changed by its owner only; a default is switched, not lost; one default per user |
| Database sessions: `core/db.py`, `core/deps.py` | one transaction per request; the connection pool | check out, begin, flush, commit, rollback, give back | the commit is before or after the response, by FastAPI release; a query may fail at any point | an answered success is durable; every connection comes back |
| Tokens: `core/security.py`, `core/deps.py` | none: tokens are held by clients | issue, decode; hash, verify | nothing can be revoked; a login or refresh under way when the account is closed; 72-byte digests | a token names an account that exists; kinds are not confused; a closed account's tokens run out and are not renewed |
| Firebase: `auth/firebase.py` | the SDK's singleton | verify | external | claims are inputs |
| Cache: `core/cache.py` | keys in Redis, a client | get_or_set, invalidate, ping, close | load racing invalidate, Redis failing | no page is older than the TTL and a load |
| Pipeline: `main.py`, `core/middleware.py`, `core/exceptions.py`, nginx | rate-limit windows in Redis | layers around each request; the readiness probe | Redis and PostgreSQL failing between two looks; the limiter's own need of Redis | the probe tells what was so; every request is answered |
| Startup: `start.sh`, compose, `Makefile`, `migrations/` | schema version, container | migrate, serve, restart, deploy | two upgrades at once, crashes, dependencies going away, an image that cannot be loaded | nothing is served before its schema; a service that can be loaded comes up |
| Seed: `scripts/seed_data.py` | rows | check, then insert | reruns, overlapping runs, the live service | the catalog is whole and there once; every run ends |
| Configuration, logging | constants | - | - | - |
| Scaffolds (admin, analytics, cart, compare, favorites, home, ingest, notifications, search) | none | a health answer | - | - |

Components meet in the database.  A route takes a session from `get_db` and a
user id from the bearer token, calls one service function, and `get_db` commits
or rolls back.  Requests coordinate by PostgreSQL's row locks and unique indexes
alone.  They also share the worker's connection pool, and Redis, in which the
limiter counts and the cache keeps its keys.  Address handlers trust the token's
id and never read `users`.  `start.sh` migrates before it serves, `make deploy`
migrates again inside the running container, and an operator executes the seed
script there.

## Modules

| Module | What it is |
|---|---|
| `Accounts` | `users` and the ten account endpoints as concurrent transactions |
| `AccountDirectory` | what the table promises, without requests: accounts are opened, re-keyed and closed, keys are exclusive |
| `MCAccounts` | constants of `Accounts` for TLC |
| `AccountsProofs` | theorems about the state of `Accounts` |
| `WritesProofs` | what a commit may do to a row that others changed meanwhile; what holds as long as no requests overlap |
| `DirectoryProofs` | `Accounts` implements `AccountDirectory` |
| `WaitsProofs` | no lock cycle of `Accounts` is left standing, and no handler repeats a step |
| `Addresses` | `user_addresses` and the handlers that write it |
| `AddressBook` | what the endpoints promise a user, without requests: a book of addresses, the first the default, never two |
| `AddressesProofs` | theorems about `Addresses`, its refinement of `AddressBook` included |
| `MCAddresses` | symmetry for TLC |
| `Sessions` | tokens, who issues and accepts them, a clock, and what a closed account's holder can still do |
| `MCSessions`, `SessionsProofs` | lifetimes for TLC; theorems about `Sessions` |
| `RateLimit`, `Cache` | the limiter's windows, and one key of the read-through cache |
| `Gateway` | composes them with the middleware, the readiness probe, the connection pool, and Redis and PostgreSQL that fail |
| `GatewayProofs` | theorems about `Gateway` |
| `Startup`, `Seed` | start.sh and the upgrades of the schema; the seed script and the service's writes of the seeded keys |
| `Deployment` | composes them, with crashes of the container and of PostgreSQL |
| `DeploymentProofs` | theorems about `Deployment` |

### Accounts

`users` is the committed table: a primary key maps to a row or to `None`.
`req` maps a slot to the request in it: the place its handler has reached
(`pc`), the row its session holds (`row`), the columns the next UPDATE or INSERT
writes (`dirty`), whether it has locked its row (`locked`), which of its keys
are in the unique indexes (`held`), and the status it will answer (`code`).
`tokens` and `resets` are the accounts clients hold tokens for.

| Action | Code |
|---|---|
| `Register` ... `DeleteMe` | the service function up to its first `await` that can wait, its opening SELECT included |
| `FindForUpdate`, `FindForFirebase` | the second SELECT: `service.py:224`, `:162` |
| `Lock` | an UPDATE of the row gets its lock: `_touch_last_login`, or a flush |
| `Reserve`, `IntegrityError` | its next new key enters its index, the email before the uid, or collides with a committed row; the entries already made are kept while it waits |
| `DeadlockVictim` | PostgreSQL cancels one transaction of a cycle |
| `ValidationError` | `UserPublic.model_validate` fails in PATCH /me |
| `Commit` | `session.commit()`, with the flush of what is still pending (a Firebase link) |
| `SendThenCommit`, `Send` | the answer leaves |
| `Drop` | the worker dies |
| `Suspend` | an operator clears `is_active` in SQL, no endpoint does |

Four facts decide the granularity.  (1) The session does not autoflush and an
UPDATE writes only changed columns, by primary key: `Merged`.  (2) A SELECT at
READ COMMITTED sees committed rows and takes no lock.  (3) The unique
constraints cover deleted rows (migration 0001:78-79), so an index conflict is
with any committed row, and a key pending in another transaction, or leaving
with it, makes the newcomer wait: `Blockers`.  (4) `get_db` commits after the
`yield`.  FastAPI 0.106 to 0.117 runs that before the response is sent, 0.118
and later after it; `pyproject.toml` admits both.  `ReplyFirst` is the
constant that says which.

Emails are values; `<<"deleted", i>>` and `<<"phone", u>>` are the addresses the
code makes up, in the domains `.local` and `.invalid`, which the validator
behind `EmailStr` refuses, so that no client can name them.  Language, city,
gender, birth date, phone number, provider and time stamps are left out, so that
nothing below says that a deletion clears them: `soft_delete_account`
(`service.py:284-290`) clears the phone number, and leaves city, gender and
birth date on the row.

### Addresses

An address is its owner and its default flag.  A request clears the defaults of
its user's snapshot one row lock after the other (`StartClear`, `ClearRow`; a
row that changed meanwhile is locked and skipped if it no longer matches),
flushes its own row (`FlushRow`), and fails if the row is gone (`StaleData`:
SQLAlchemy raises when an UPDATE matches no row, and only warns for a DELETE).
`Patient` users' clients send one request at a time.

### Sessions

Time is a count of ticks.  `life[a][k]` is what is left of the freshest token of
kind `k` that a client of `a` holds; a token that is older can do nothing the
freshest cannot.  `closedFor` and `askedFor` are history for the properties: how
long `a` has been suspended or deleted, and how long ago a reset was asked for.

| Action | Code |
|---|---|
| `Login`, `Refresh`, `ConfirmReset`, `ChangePassword`, `DeleteMe`, `AddAddress`, `DropAddress` | the route up to its first wait: `deps.py`, the service function's SELECT, and for a refresh the signing of the pair |
| `RequestReset` | POST /auth/password-reset/request, whose token is in the log before the answer |
| `Logout` | does nothing on the server; the client throws its tokens away |
| `Lock` | `_touch_last_login` or the flush; a login signs its tokens here, *after* the wait |
| `Commit`, `Send`, `Drop` | as in `Accounts`, in both orders |
| `SetActive` | an operator's UPDATE of `is_active`, in either direction |
| `Tick` | the clock |

What `users` itself goes through is `Accounts`' subject; here an account has a
status and possibly an address.  A refused request changes nothing and is left
out.  `change_password` stands for the other writers under `/me`.  `Patience`
is how long a client waits: an answer later than that reaches nobody.  In the
compose configuration nginx decides it (`proxy_read_timeout`, nginx.conf:62);
`current-state.md:43` and `:127` describe a deployment without nginx, where it
is the client's own timeout, and the bounds hold for a client that has one.

### Gateway

A request is a record that walks through the layers: `Arrive` is the limiter,
which comes first, `Get` and `Store` are `get_or_set` around its loader, `Checkout`,
`PoolTimeout` and `Query` are the pool and what `get_db` or the probe's
`async with` does with the connection, `Ping` the probe's second check and
`Finish` the end of the answer.  "ready" is GET /health/ready; "page" is a
handler that reads through the cache with a loader that queries its session.  No
handler calls `get_or_set` or `invalidate` at this commit: "page" is what they
are written for, and with its key always empty it is a plain handler.
`RedisSwitches` and `DbSwitches` take the services down and up between any two
steps; a service that is down refuses or times out.  (A Redis that accepts the
limiter's connection and then hangs is outside the model: `main.py:93` sets a
connect timeout and no read timeout.)  `seen` is history: what was up or in
trouble at some moment of the request.  `Cache` abstracts a value to its age;
`RateLimit` is one counter per peer address and path.  The peers are the clients
themselves on the published port, and nginx alone where it is in between.

### Deployment

`up[u]` is an `alembic upgrade head`: the revision it read, and the one its
transaction has reached; all revisions run in one transaction (`env.py`).  Two
of them exist, the container's and the one of `make deploy` (Makefile:71).  DDL
makes the second wait (`Waits`) and then fail on what exists (`Exists`); if the
container's own fails, `set -e` ends it and Docker starts it again.  After its
upgrade the container is `"booting"`: gunicorn loads `app.main` (`Boots`), and
goes down if it cannot.  `imports` says whether it can, and never changes: FALSE
is this commit, whose `main.py:36` names a module that is not in the tree, and
TRUE one that has it.  A seed run
goes through its `Stages`, `Look` then `Insert`, and commits once.  One row
stands for all the seeded rows of a table, since one transaction writes them
all.  Seeds die with the container they are executed in.  The service may delete
the seeded account under a seed that has found it: the seed goes on, and what it
adds belongs to the deleted user (`Orphaned`).

## Runs

| Run | Instance | Shows |
|---|---|---|
| `accounts_race` | 3 requests, 2 ids, 2 emails, 1 uid; register, Firebase, PATCH, DELETE; reply first; symmetry; 0.98 M states | `UniqueKeys`, `ReservedKeysExclusive`, `DeletedForever`, `NewEmailUnverified`, and that no lock cycle is left standing (`NeverStuck`) |
| `accounts_all` | 2 requests, 1 id, 2 emails, 2 passwords; all endpoints and suspension; commit first; 0.26 M states | `NoStaleOverwrite`, `SuspensionSticks`, `TokenHasAccount`, `ErasureSettles`; the account is closed once (`ImplementsDirectory`) |
| `accounts_wait` | 2 requests, 2 ids, 2 emails, 1 uid; register, Firebase, PATCH; commit first; fair; 62 k states | every request ends, two address changes that wait for each other's key included; the table of two accounts refines `AccountDirectory` |
| `addresses_all` | 3 requests, a patient and an impatient user, 3 ids; 0.31 M states | `OneDefaultIfServedInTurn`, `OnlyOwnerWrites`, `DefaultLostOnlyOnPurpose`, `NeverStuck`; the patient user's rows refine `AddressBook` |
| `addresses_wait` | 2 requests of one user, 3 ids; fair; reply first; 0.1 M states | every request ends, deadlocks included |
| `sessions` | 2 requests, 1 account, lifetimes 2, 4 and 1, patience 1; fair; reply first; 0.29 M states | `AccessLapses`, `ActsWithinLifetime`, `NoRenewalOnceClosed`, `ClosedAccountGoesQuiet` |
| `gateway` | 2 requests, 1 peer, 1 connection, limit 1, TTL 2, load 1; fair; 91 k states | `NoLeak`, `ProbeIsTruthful`, `PageIsRecent`, `EveryRequestAnswered` |
| `deployment` | 3 revisions from any start, an image that loads or not, 2 seeders, 1 crash; fair; 50 k states | `ServesOnlyAtHead`, `MigratesWhatItRead`, `SeededOnce`, `WholeCatalog`, `NeverStuck`, `ComesUp`, `SeedEnds` |
| `accounts_erasure`, `accounts_duplicate`, `addresses_double`, `gateway_probe` | 2 requests | the documented claim is violated, see below |

Why the bounds are enough.  A conflict is between two requests for one row or
one key; three make a lock cycle through a row and an index, a waiter that loses
twice, and a reader between two writers.  Two ids give one account and its
rival; two emails a change of address and its target, or two accounts that change to each
other's; one uid a link and a collision.  The code treats ids and emails alike, hence the symmetry sets; users
of `Addresses` are not symmetric because one is patient.  Three addresses give
two defaults and a third to switch to.  Ids are used once per instance, which
bounds the accounts ever made; `FreshIds` names that bound.

`sessions` has the lifetimes in the order of the configuration (reset below
access below refresh), each long enough for a request to begin before and end
after the expiry, or the closing, of something.  Ages stop at `Late` and the
histories at `Horizon`, beyond the last value a property compares with.  In
`gateway` two requests and one connection make one hold and one wait, and a
second use of a path meets the limit; the ages of an entry and of a load are
bounded by `MaxAge` through the code's own TTL and the socket timeouts
(`LoadTicks`), not by a guard of the model except that `Tick` gives a load no
more than `LoadTicks`.  In `deployment` two seeders suffice for every pair of a
look and an insert; `MaxRows` lets a key without a constraint have two rows, and
`MaxFaults` one crash in any state, which leaves two upgraders and two seeds at
any two places.

`CHECK_DEADLOCK FALSE`: the service may be idle for ever once every id is used.
A request that is stuck is what `NeverStuck` and `EveryRequestEnds` look for.
`NeverStuck` is stated by `CanProceed`, the disjunction of the guards of
`Progress`, which can be proved about where ENABLED cannot; `EveryRequestEnds`,
which rests on ENABLED, checks the same waits.  `Deployment` has a `NeverStuck`
of its upgrades and seeds, in the same form.

Fairness.  `FairSpec` has strong fairness of `Progress(r)` for each slot, and
none of arrivals, crashes or the operator.  The code justifies it: a handler is
an asyncio task the loop always resumes; a lock waiter is in PostgreSQL's queue,
first come first served, so a step that is possible again and again is taken;
the deadlock detector runs after `deadlock_timeout`.  Weak fairness would not do
(a waiter's step is disabled each time another request takes the lock first) and
the queue is why strong fairness is not too much.  `Sessions` adds weak fairness
of the clock.  `Gateway` needs only weak fairness of a request's steps: one that
waits can always go on, by a connection or by the timeout of the pool; nothing is
assumed of Redis or PostgreSQL, which may stay down, nor of the windows.  In
`Deployment` Docker restarts the container (`restart: unless-stopped`, weak) and
gunicorn's load of the application ends, one way or the other (weak); the upgraders and the seeds wait for each other's locks
(strong, as above).  No operator is obliged to deploy or to seed, and the
crashes are bounded, since a container that is killed for ever never serves.

### What the repository says and the code does not do

* `accounts_erasure`: DELETE /me "Anonymizes PII fields"
  (`progress/current-state.md:153`).  The code falls short of that in two ways.
  Gender, birth date and city stay on the row (`service.py:284-290`), with no
  overlap at all; the model does not carry them.  And of the columns it clears,
  a request that loaded the row before the deletion committed writes its own
  ones afterwards, which is what the run shows of email, password, uid and name.
  The second takes a request that overlaps the deletion (`ErasureSettles`,
  `ClearedWhenAlone`).
* `accounts_duplicate`: register answers "409 on duplicate" (`:137`); the loser
  of a race answers 500, as no handler catches `IntegrityError`.  Without an
  overlap register answers 201 or 409 (`DuplicateWhenAlone`).
* `addresses_double`: "ensure single default" (`service.py:381`); two
  overlapping requests each clear what they see and both set theirs.
* `gateway_probe`: GET /health/ready "Returns 503 with details if either fails"
  (`:171`); with Redis down the limiter raises before the probe is reached, and
  the answer is a bare 500.  It is the same on every route, although
  `cache.py:88` says "The app keeps working, just slower".

Contradicted as well, without a run:

* GET /me "Returns current user profile" (`:151`): for an account made by a phone
  login the placeholder address `phone_...@phone.firebase.invalid` fails
  `EmailStr` (`schemas.py:101`), and the answer is 500 until the user sets
  an email.  It takes two calls and no overlap; `ValidationError` is the same
  failure in PATCH /me.
* The API is "exposed directly on `:8000`" (`:127`): at this commit `main.py:36`
  imports `app.modules.catalog.router`, which is not in the tree, so that the
  container migrates, fails to load the application and starts again, for ever.
  `ComesUp` is stated for an image whose imports are there; the other properties
  of `Deployment` are checked for both, and the other models take the module as
  present.
* The seed is "Idempotent — safe to run multiple times" (`seed_data.py:4`): two
  overlapping seeds can insert an address label twice, and every rerun then
  aborts in `scalar_one_or_none` (`Seed`, `rows["addresses"] = 2`; `SeededOnce`
  leaves addresses out).  A seed also adds a second default address when the
  owner has renamed the seeded one.
* "registration order matters: outermost first" (`main.py:110`): Starlette makes
  the last layer added the outermost, so that a 429 and an unhandled 500 carry
  neither CORS headers nor a request id.  The headers are not modelled.
* `tests/test_auth.py:163` expects 202 where the route answers 200.

Seen while reading, and left as it is by the models:

* The limiter counts per peer address *and path*.  In the compose configuration
  the peer is nginx, so that all clients share one window per path, from the
  first hit on; without nginx, which is how `current-state.md:43` and `:127`
  describe the live service, each client has its own.
* `make deploy` right after `up` runs two upgrades; the container's may lose and
  restart once (`Deployment`).
* `scripts/verify_seed.sh` queries tables that no revision creates.
* A reset token is only logged, and only in development (`api/consumer/auth.py:90`); it stays
  usable until it expires.  Deleting an account keeps its addresses.
* `api/ops/health.py` is imported and never mounted.  No route uses
  `get_current_admin_id`, `verify_ingest_api_key`, `get_or_set` or `invalidate`.
* `security.py:19-21` relies on a maximum of 128 characters to report passwords
  that bcrypt cuts at 72 bytes; linking a Firebase uid to an account by email
  overwrites a uid it already has.

## Proofs

### Accounts

`AccountsProofs` proves for any number of requests, ids, emails, uids and
passwords, any set of endpoints, and either value of `ReplyFirst`, from the named
assumptions of `Accounts` (null is not a value; client emails and made-up
addresses are disjoint; `Digest` is a function; requests are finite in number,
which only `WaitsProofs` uses and the connection pool justifies):

* `TypeCorrect`: `Spec => []TypeOK`
* `KeysUnique`: `Spec => []UniqueKeys`
* `ReservationsExclusive`: `Spec => []ReservedKeysExclusive`
* `TokensBacked`: `Spec => []TokenHasAccount`
* `DeletionFinal`: `Spec => DeletedForever`
* `SuspensionFinal`: `Spec => SuspensionSticks`

None is inductive alone.  `UniqueKeys` at a commit needs that the committed keys
were reserved (`ReservedKeysExclusive`), that one needs that an id under
insertion is referred to by nobody else (`FreshRows`), and that a request with
an old row knows which columns it may write (`StaleWrites`: its `deleted` and
`active` columns are dirty only in a deletion).  `TokenHasAccount` needs
`RepliesHaveAccount`; `DeletedForever` needs `DeletedInactive`.  The conjunction
is `AccountInv`.  As a flush makes one index entry after the other, it also says that
a handler which has flushed an email holds it in the index, so that at most a uid
is left for the commit (`EmailIndexed`).  Its parts about the table rest on one argument: between
`Reserve` and `Commit` of one request, any other one that wants the same key
finds it in `Blockers` and cannot pass `Claimable`.  The proof has a lemma per
action or group of actions with the same shape (arrivals, answers, `Lock`,
`Reserve`, `Commit`).

`WritesProofs`, of stale writes:

* `NoLostUpdate`: `Spec => NoStaleOverwrite`
* `NewEmailIsUnverified`: `Spec => NewEmailUnverified`

Both speak of a step, whose request loaded its row any number of commits ago.
`SoundWrites` says what its session may hold for a row that is in the table,
whatever that row has become: only columns its handler assigns, a verified flag
only as FALSE, and a new address only together with a cleared flag, for a row
that is not verified, or for a deletion.  The third part is where an overlap
could hurt: a PATCH that loaded an unverified row does not write the flag.  It
holds because no step ever sets the flag of a committed row.

Of deletion, and of what takes an overlap to go wrong:

* `DeletedRowsSettle`: `Spec => ErasureSettles`
* `WritesCommute`: `Spec => []CommitsCommute`
* `ClearedWhenAlone`: `Spec /\ []Alone => []ClearedForGood`
* `DuplicateWhenAlone`: `Spec /\ []Alone => []DuplicateAnswers409`

The first bounds the damage of `accounts_erasure`: once the account is deleted
and the requests that had loaded it have committed, no request finds the row
again (each SELECT filters on `deleted_at`), so that none ever writes to it.
`WritesCommute` says which pairs of requests can see who was first: only those
that both assign some column (`Assigned`, by endpoint), since an UPDATE writes
nothing else.

The last two are conditional, on behaviours in which at most one request is
being served at a time (`Alone`).  `ClearedForGood` and `DuplicateAnswers409` are
what `accounts_erasure` and `accounts_duplicate` violate, and with those runs the
theorems say that for *these formulas* an overlap is what it takes.
`ClearedForGood` is about four columns; the documented claim, that a deletion
anonymises the PII, is wider, and false without any overlap (see above).
`AloneInv` adds to `AccountInv` that what a request
knows is so (`Current`): its row is the table's, but for the columns it is about
to write and the `active` flag, which an operator may clear meanwhile; and the
address it registers is nobody's.  A row that is written back is then the row
that is there, and no INSERT meets a committed key.

`DirectoryProofs`, of the abstract specification:

* `DirectoryImplemented`: `Spec => ImplementsDirectory`
* `DirectoryIsExclusive`: `ImplementsDirectory => []KeysExclusive`

Each step changes at most one row, and a changed row is `Open`, `Rekey`, `Close`
or a stutter of the directory, by whether it was live and is (`RowStep`).
`Takes` of an opened or rekeyed account is `UniqueKeys` after the step; that a
closed account is never opened again is `CommitOneWay`; that an opened one was
not there is `FreshRows`.  The second theorem does not mention the code: that
no two live accounts share a key follows from the abstract specification alone.

`WaitsProofs`, of waiting:

* `NoStandingDeadlock`: `Spec => []NeverStuck`
* `ServiceIsBounded`: `Spec => StepsForward`

A request that holds a row lock or an index entry is being served (`Placed`), so
that nobody waits for a slot that is free.  If some request that is served waits
for nobody, the guard of its next step holds; for a new key this needs that a
key which is neither free nor waited for is taken, and that the collision found
first is reported (`ClaimedOrTaken`).  Otherwise the served requests all wait
for one another, and that finite set has a smallest subset which does, because
strict inclusion is well-founded on it: a cycle, one member of which PostgreSQL
cancels.  `ServiceIsBounded` ranks the places of a handler: each step of a
request brings it to one of lower rank, and no other request moves it, so that
it is over after at most seven steps of its own.  The two theorems are what
`EveryRequestEnds` rests on besides fairness: somebody can always move, and no
request moves for ever.

### Addresses

`AddressesProofs` proves for any number of requests, users and addresses, any
set of patient users, and either value of `ReplyFirst`, from the assumptions
that null is not a value and patient users are users:

* `AddressTypes`: `Spec => []TypeOK`
* `OneDefaultServedInTurn`: `Spec => []OneDefaultIfServedInTurn`
* `OwnersOnly`: `Spec => OnlyOwnerWrites`
* `SwitchKeepsDefault`: `Spec => DefaultLostOnlyOnPurpose`
* `BookImplemented`: `Spec => ImplementsBook`
* `BookHasOneDefault`: `ImplementsBook => []OneDefaultIfServedInTurn`
* `NoStandingDeadlock`: `Spec => []NeverStuck`
* `ServiceIsBounded`: `Spec => StepsForward`

The invariant `AddressInv` says of each request what its place in the handler
implies (`Stage`), that the rows it refers to are its user's or gone (`Refers`),
and that two requests share no lock and no created row (`Apart`).  The one that
carries `OneDefaultIfServedInTurn` is `Tracks`: once the clearing UPDATE of a
patient user has its snapshot, every default of that user is still to be
cleared, cleared, or the request's own row.  It survives the other requests
because those of the same user have been answered, hence committed, and those
of other users own other rows.  With the commit after the answer that step
fails, and so does the property.  `SwitchKeepsDefault` rests on `Stage` (only a
request that sets a default clears any, and an UPDATE that gets to its commit
holds the lock of its row) and `Refers` (a locked row is there).

`BookImplemented` is the strongest of them: to a user served in turn, the
handlers' three statements and the commit are one operation of `AddressBook`.
A commit is `Add`, `Switch`, `Unset`, `Remove` or a stutter by what the request
does (`CommitOwned`, `CommitInTurn`).  That `Switch` and `Add` leave the new
default alone is `Tracks`; that an address which is not made the default joins
others is `SawAnother`: what the count of `create_address` saw is still there,
as no other request of the user has committed since.  `BookHasOneDefault` says
that the promise of `service.py:380` is one of the book's, whatever implements
it.  `NoStandingDeadlock` goes as for `Accounts`; here the waits are an UPDATE of
several rows, which can take them in any order, and the flush of one.  In
`ServiceIsBounded` a step lowers the rank of the place or, while the UPDATE
locks its rows, leaves fewer of them.

### Sessions

`SessionsProofs` proves for any lifetimes and patience, any number of accounts
and requests, both environments and both commit orders:

* `TypeCorrect`: `Spec => []TypeOK`
* `AccessRunsOut`: `Spec => []AccessLapses`
* `NoLateAction`: `Spec => []ActsWithinLifetime`
* `ClosedIsTheEnd`: `Spec => NoRenewalOnceClosed`

The invariant `IInv` has two ideas.  `TokensLapse`: what is left of a token and
the time since its account was closed (or its reset asked for) together never
exceed a bound, so that each tick takes from one what it gives to the other.
`Timely`: a request that will sign a pair, or has, began while its account was
open, so that `closedFor` is at most its age.  The second is what makes a late
`Send` respect the first.  It rests on the guard of `Refresh`: with
`RefreshUnlessDeleted` in its place the run finds a session that never ends.

### Gateway

`GatewayProofs` proves for any number of requests, pool size, limit, time to
live and load time:

* `TypeCorrect`: `Spec => []TypeOK`
* `ConnectionsReturn`: `Spec => []NoLeak`
* `ProbeTrue`: `Spec => []ProbeIsTruthful`
* `PagesRecent`: `Spec => []PageIsRecent`
* `ServiceIsBounded`: `Spec => StepsForward`

`GInv` conjoins one predicate per shared thing (`EntryInv`, `PoolInv`) and one
per request, `Sound`: what is true now is already in `seen`, a passed database
check comes with its evidence, and what is about to be stored is at most
`LoadTicks` old.  The first part is what the probe's answer rests on: `Ping` looks at Redis
now, but remembers PostgreSQL.  It is stable because `Noting` adds to `seen`
exactly what a switch makes true.  `ServiceIsBounded` ranks the layers as above:
a request is over after at most five steps of its own, whatever Redis,
PostgreSQL and the others do.

### Deployment

`DeploymentProofs` proves for any number of revisions, seeders and crashes:

* `TypeCorrect`: `Spec => []TypeOK`
* `ServesAtHead`: `Spec => []ServesOnlyAtHead`
* `UpgradesAreSerial`: `Spec => []MigratesWhatItRead`
* `SeedsOnce`: `Spec => []SeededOnce`
* `CatalogIsWhole`: `Spec => []WholeCatalog`
* `NobodyIsStuck`: `Spec => []NeverStuck`
* `RunsAreBounded`: `Spec => StepsForward`

All of it holds for an image that can be loaded and for one that cannot.
`StartupInv` says that the container's upgrader runs exactly while it starts,
that a booting container has its schema,
that an upgrade which has created something still runs on the revision it read,
and that only one has (`InStep`, `Upgrades`).  `SeedInv` says of a run what its
stage implies for what it has inserted (`Orderly`) and that no two runs have
inserted the same unique key (`Distinct`).  Menus and promotions have no
constraint: their conjunct of `SeededOnce` holds because a run that inserts them
has inserted the sources before, whose key it then holds to the end.  The
deletion of the seeded account takes addresses from a run and nothing else
(`OrphanedIs`).

`NobodyIsStuck` has no cycle to break: an upgrade waits only for one that has
changed the schema, which waits for nobody, and a seed only for one that holds a
unique key that it wants itself, hence is further on.  The stages are in one
order for all, so that of the seeds under way one of the furthest can go on.
`RunsAreBounded` says that an upgrade only reaches higher revisions and a seed
later stages until they end.

### Only model-checked

Liveness, which needs fairness and ENABLED: `EveryRequestEnds` (twice),
`ClosedAccountGoesQuiet`, `EveryRequestAnswered`, `ComesUp` and `SeedEnds`.
That `CanProceed` (and `UpgraderCanProceed`,
`SeederCanProceed`) list exactly the guards of the steps is read off the
modules.  `NeverStuck` and the boundedness theorems are the part of the liveness
properties that needs neither ENABLED nor fairness; that each *single* request
ends, and not just some, is the fairness of PostgreSQL's queues and TLC's to
check.  Every other property of a passing run has a theorem.

## Plan

Done: `Accounts`, `AccountDirectory`, `Addresses`, `AddressBook`, `Sessions`,
`Gateway` (with `RateLimit`, `Cache`), `Deployment` (with `Startup`, `Seed`), and
the theorems above.  Left:

1. Abstract specifications of `Sessions` and `Deployment` and their refinement.
2. A composition of `Accounts` and `Addresses` by the foreign-key lock of an
   INSERT into `user_addresses`; `Sessions` has that lock, on one account.

## Not modelled

* Wording, logging, OpenAPI, list ordering and pagination; the correctness of
  JWT, bcrypt and the Firebase SDK; the `is_admin` claim and the ingest key,
  which no route reads.
* PostgreSQL beyond row locks, unique indexes, snapshots per statement, DDL
  locks and deadlock detection (a waiter that is not in a cycle is never
  cancelled; no lock or statement timeout is configured).  In `Addresses`, the
  foreign-key lock of an INSERT on its user's row.
* `Sessions`: refused requests; several clients with different tokens of one
  kind (the freshest stands for all).
* Gender, birth date, city and the other columns named under Accounts.
* `Gateway`: the headers the layers put on an answer; routes that touch neither cache nor probe beyond what "page" does;
  several keys; `nginx`'s own limits, which are in front of the application and
  which a client of the published port 8000 does not pass; the client singleton
  of `cache.py` and its close; GET /health, which looks at nothing.
* `Deployment`: downgrades, older images after a newer schema, more than one
  container; a lock cycle of a seed with the live service's requests.
* Configuration and logging are read once and never change; the scaffolded
  modules answer constants.
