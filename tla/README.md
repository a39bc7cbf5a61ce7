# A TLA+ model of dba-operator

The dba-operator is a Kubernetes operator that migrates the schema of MySQL
databases and rotates the credentials applications use to reach them. A
`ManagedDatabase` object names the desired schema version; each
`DatabaseMigration` object names one version, the container that produces it
and the version it starts from (`Spec.Previous`). The operator runs the missing
migrations one by one as Jobs, and gives every version its own database user and
Secret, so that the code which is incompatible with the next migration can be
shut out before the migration starts.

This directory models that program, checks it with TLC on small instances and
proves its safety properties with TLAPS for all values of the constants, under the
hypotheses listed with the proofs.

## Inventory

| Component | State it keeps | Operations | Hard because |
|---|---|---|---|
| ManagedDatabase reconciler (`controllers/manageddatabase_controller.go`) | nothing but local variables of the reconcile in progress, and maps for metrics | `ReconcileManagedDatabase`, `reconcileCredentialsForVersion`, `reconcileMigrationJob`, `handleError` | a dozen calls to two systems, reads from lagging caches, values read early and used late, crash between any two calls |
| DatabaseMigration reconciler (same file) | none | `ReconcileDatabaseMigration` removes the `blocked-by-migration` label | runs concurrently with the first and writes the same object |
| Credential Secrets (`controllers/secrets.go`) | Secrets in the cluster | list, delete if no pod uses it, create | check and delete are separate calls, the check reads a cache |
| Migration Jobs (`controllers/jobs.go`) and the migration container (`deploy/examples/migrationcontainer`) | Jobs, containers, the version in the database | create, delete, succeed, fail | the container writes the version before it exits and whatever version it finds |
| MySQL administration (`pkg/dbadmin`) | users, grants, sessions, schema version | `WriteCredentials`, `ListUsernames`, `VerifyUnusedAndDeleteCredentials`, `GetSchemaVersion`, size and constraint queries | several statements per operation, no transaction covers them |
| Error classification (`mysqladmin/errors.go`, `xerrors`, `controllers/errors.go`) | none | temporary, permanent, blocked by a migration | decides whether anything retries |
| Hints engine (`pkg/hints`) | none | `ProcessHints` and one function per operation | pure, but over live table data |
| Metrics collectors (`controllers/metrics.go`) | one collector and connection per database, the registry | replace on every reconcile, collect on every scrape | two goroutines share the connection; the registry remembers |
| Custom resource types, start-up (`api`, `main.go`) | the objects themselves | | |

The reconciler is called by controller-runtime, one worker per controller. It
reads objects through the manager's client, which answers from informer caches,
and writes to the API server; the database is read and written directly. What
must be right: never two migrations at work; versions in order; the credentials
from two migrations ago gone before a migration, those in use never; a reported
success that can be believed; and progress. The list of hazards, each at its
line, is in `PROJECT.json`.

## Modules

* `Cluster` is everything outside the operator: the object's spec and status, the
  migrations, Secrets, pods and Jobs with the caches of the last three
  (`secretsView`, `podsView`, `jobsView`), the containers and the database. Its
  actions are those of people, containers, applications and caches.
* `ManagedDatabaseController` adds the operator. `pc` names the next external call
  and there is one action per call, in the order of the code; the other variables
  are the local variables of the reconcile, under their names in the source.
  `Fail` is an early return through `handleError`. `ReconcileDatabaseMigration` is
  one action. `CallFails` and `Crash` are the faults. The properties are at the
  end of the module. The definitions whose names carry a suffix
  (`Grant_Forgotten`, ...) are seeded bugs: variants of the definition that follows,
  used to see that each property can fail.
* `MigrationInvariant` holds the inductive invariants: `ForwardInv`, `PlanInv` and
  `CredentialsInv`.
* `Chains` is the order `Spec.Previous` puts the migrations in.
* `MigrationLoop` is the abstract specification: the README's "Migration Loop"
  with nothing but the version, the migration at work and the users. It has no
  reconciles, caches, Jobs or failures. `MigrationRefinement` maps the detailed
  specification to it; `running` is the set of containers that have not yet recorded
  their version.
* `BlockedDatabases` is the life of the `blocked-by-migration` label: both controllers
  with their work queues, the caches of both kinds of objects, resource versions, the
  walk from the desired version that may miss a migration anywhere on its way, and the
  two writes of `handleError`.
* `SharedServer` is the MySQL server: accounts with passwords and grants, other
  programs' accounts, several ManagedDatabases with their Secrets and the cache these are
  listed from, restores with and without the accounts, and the methods of `MySQLDbAdmin`
  statement by statement.
* `HintsEngine` is `ProcessHints` with the queries it makes, over tables with rows.
* `MetricsCollectors` is the life of the collectors and their connections, with the
  Prometheus registry and its scrapes.
* `MCManagedDatabase`, `MCBlockedDatabases`, `MCSharedServer`, `MCHintsEngine` and
  `MCMetricsCollectors` give the constants their values for TLC.
* `MigrationSafety_proofs`, `MigrationRefinement_proofs`, `CredentialSafety_proofs`,
  `BlockedDatabases_proofs`, `SharedServer_proofs`, `HintsEngine_proofs` and
  `MetricsCollectors_proofs` hold the theorems.

The modules meet at these points: what `HintsEngine` computes is one of the three
outcomes of `ProcessHints` in `ManagedDatabaseController` and of `States` in
`BlockedDatabases`; `BlockedDatabases` refines `HandleError` and
`ReconcileDatabaseMigration`; `SharedServer` refines the credentials part of the
reconcile, from `ListUsernames` to `WriteCredentialsSecret`; `MetricsCollectors`
refines `Begin`.

| Code | Model |
|---|---|
| 102-169 read the object, open connections | `Begin` |
| 171-195 version, walk from the desired version | `GetSchemaVersion`, `WalkBack` |
| 197-224 migration context | `LoadActiveVersion`, `DesiredVersionNames` |
| 415-433, `secrets.go` | `ListSecrets`, `CheckSecretUnused`, `DeleteSecret` |
| 435-458 | `ListUsernames` |
| 460-468, `VerifyUnusedAndDeleteCredentials` | `CountSessions`, `DropUser`, `UsersRemoved` |
| 470-510, `WriteCredentials`, `writeCredentialsSecret` | `CreateUser`, `Grant`, `WriteCredentialsSecret`, `UsersAdded` |
| 226-249 hints | `SkipHints`, `ProcessHints` |
| 291-369 | `ListJobs`, `FoundNeededJob`, `DeleteOldJob`, `CreateJob` |
| 255-261, 591-622 | `UpdateStatus`, `HandleError`, `ReportErrors` |

In `ManagedDatabaseController`: a migration, its version, user, Secret and Job share one name.
A cache jumps to the current state when it catches up. An update of the object
conflicts when the object was written by someone else since the reconcile read
it (`copyStale`); the operator's own earlier write is taken to be in the cache.
Labels other than `blocked-by-migration` are left out.
Deleting a Job that runs leaves its container running or not (the delete names
no propagation policy). A person deletes a failed Job only when its version is
not recorded in the database.

The other modules, with lines of `manageddatabase_controller.go` unless named:

| Code | Model |
|---|---|
| 102-136 Get and normalise | `BlockedDatabases!ReconcileManagedDatabase` |
| 148-204 version, walk from the desired version | `GetSchemaVersion`, `WalkBack`, `WalkStops`, `NoPath`, `LoadActiveVersion` |
| 222-254 hints and the end of the reconcile | `ProcessHints`, `WorkFails`, `Decide`, `BlockingLabel` |
| 591-622 `handleError` | `UpdateLabel`, `UpdateStatus`, `WriteRefused`, `Return` |
| 512-539 `ReconcileDatabaseMigration` | `ListWaiting`, `ListFails`, `RemoveLabel`, `RemoveLabelRefused` |
| 541-563 event sources | `DeliverDatabase`, `DeliverMigration` |
| `admin.go` 58-112 `indirectSubstitute` | `SharedServer!IndirectSubstitute` |
| `admin.go` 115-175 | `CreateUser`, `Grant`, `ListUsernames`, `CountSessions`, `DropUser` |
| 386-510, `secrets.go` | `Begin`, `ListSecretsForDatabase`, `DeleteSecretIfUnused`, `WriteCredentialsSecret`, `Finish` |
| `hints.go` 61-96 `ProcessHints` | `HintsEngine!LoadEstimates`, `ProcessHint` |
| `hints.go` 98-169 processors | `AddColumnErrors`, `CreateIndexErrors`, `AlterColumnErrors` |
| `admin.go` 192-224, 274-378 | `GetTableSizeEstimates`, `NotNullWillFail`, `UniqueWillFail` |
| 106-169, `connection.go` | `MetricsCollectors!GetGone`, `Get`, `OpenConnection`, `Rest` |
| 272-289 `reconcileMetricsCollectors` | `Unregister`, `Close`, `Register`, `RegisterRefused` |
| `metrics.go` 79-229 | `Descs`, `Collected`; external: `Clashes`, `Gather`, `Collect` |

In `BlockedDatabases` a resource version is a flag, the copy is or is not the
current version; a write that changes nothing makes no event; the answer to a write
overwrites the copy's errors only if the stored object has some, since a missing
field leaves the Go value alone. The events of Jobs and Secrets and the resync are
left out: they can only wake more, so what is woken without them is woken. In
`SharedServer` Secrets are written to the API server and listed in a cache (`secretsView`)
that catches up at any later time; pods that use a Secret are an arbitrary answer. An
account statement commits by itself, so it may take effect and be reported as failed, and
the server refuses one that does not fit the accounts it finds. A restore brings back the
schemas of the last backup, or those and the system tables with the users, in the middle of
a reconcile or between two, but not while a migration is at work. `since` in the worker is
no state of the code: it records how many restores there had been when the reconcile began,
for the properties. In `HintsEngine` a
placeholder in backticks and the bare `NOT NULL` are read as the code and its tests
mean them; MySQL refuses such statements, which is `ProcessHintFails`. A table has at
most one index that matters, over all modelled columns. `TABLE_ROWS`, which
`pkg/dbadmin/dbadmin.go:32` calls an estimate, is any number for a table that exists,
whatever rows it has. In `MetricsCollectors` the
registry is that of client_golang 0.9 (`go.mod`): the label names and help text a
metric was first registered with are remembered for ever, a collector that describes
nothing cannot be unregistered (`unchecked`) and is collected by every scrape from then on,
and a scrape that meets a series twice fails.

## Runs

| Run | Constants | Shows |
|---|---|---|
| `faults` | three versions in a row, faults | the safety properties, `ForwardInv` and `PlanInv`, 517 thousand states |
| `applications` | three versions, pods and sessions of the first | `SuccessMeansCredentials` and `CredentialsInv` without faults, and `Converges`, 562 thousand states |
| `edits` | two versions, the second loaded late; desired version, read-only flag, hints and container failures free | `ReadOnlyRespected`, and `PlanInv` without `ForwardOnly`; no user is ever removed here, 909 thousand states |
| `sessions` | as `applications` | violated: a user is dropped while a session is open |
| `lost_secret` | two versions, faults | violated: success reported without usable credentials |
| `blocking` | a chain of two migrations, either of which may be missing; any 2 of: edits of objects or schema version, a fault, a failing list, a restart | the label protocol, safety with `BlockedInv`, and liveness, 664 thousand states |
| `hints_label` | two migrations | violated: corrected hints go unnoticed |
| `passwords` | one database, three migrations, a stranger, 1 failure, 1 restore, 3 passwords | `SecretsStayOpen`, `AdminKept`, `WorkerInv`, 1.5 million states |
| `shared_server` | two databases | violated: one database's reconcile drops the other's active user |
| `hints` | one table and perhaps a namesake in another schema, up to two hints and three rows, estimates from none to three, threshold two | what a passed hint means, `HintsInv`, 1.8 million states |
| `collectors` | two databases, one edit, three connections | the registry, the controller's map and the connections agree, `MetricsInv`, 257 thousand states |
| `publishing` | one database, two edits, one restart, declarations that keep each other's series among them | `DeclaredIsPublished`, 84 thousand states |

A violated run states what a comment or the repository's documentation says;
`PROJECT.json` quotes it under "findings".

* `SingleMigration`: no two containers at work.
* `OldCredentialsRetired`: while a container works, the only user is that of the
  version it starts from.
* `VersionFollowsChain`: the version moves from `Previous[m]` to `m`.
* `LiveCredentialsKept`: a step never drops the user of the database's version, nor
  that of the version before it when the desired version is reached.
* `SecretGoneBeforeUser`: users go after the Secrets the reconcile listed. A Secret
  the cache did not show is the exception, and it is a real one.
* `SuccessMeansCredentials`: a success is reported only with user, grant and Secret
  of every wanted version in place. True without faults if the desired version only
  moves forward; `lost_secret` refutes it with faults, and it fails without
  `ForwardOnly` (below).
* `ReadOnlyRespected`: a reconcile of a read-only copy changes no user and creates
  no Job.
* `Converges`: the database reaches the desired version, stays there, with its
  credentials and a status without errors, if from some time on pods use only the
  database's version or the desired one.
* `ImplementsMigrationLoop`: every step of the reconciler, its caches and its faults
  is a step of `MigrationLoop` or invisible in it.
* `NobodyForgotten`: when all is quiet, a database whose last reconcile did not find a
  migration carries the label of exactly that one, and it is still missing. It may be the
  desired one, any ancestor the walk came to, or that of the active version.
  `BlockedIsWoken`: the database is reconciled again once that migration is there. Both
  until a list fails.
* `QuietStatusHonest`: when all is quiet, the status has errors exactly if the last
  reconcile failed (which error it is may be wrong, see below).
* `SpecificationKept`: updates from old copies never undo an edit of the spec.
* `SecretsStayOpen`: a Secret opens its database when it is published, unless the server
  was restored during that reconcile, and goes on to do so. The steps that take the user
  from under a published Secret are named: a restore of the accounts, `DROP USER` by a
  reconcile of another database on the server, and `DROP USER` by a reconcile whose list
  of Secrets, from the cache, had not shown this one. There is no fourth, whatever fails
  or crashes in between.
* `AdminKept`: the operator's own user may fit the pattern `'dba_%'` and is yet never
  dropped, since the query that counts its sessions runs in one of them. (It then
  blocks every reconcile.)
* `PassedHintsSucceed`: a hint that is passed would not fail, on the rows of that
  moment, for a missing default or for repeated values; `LargeTablesSpared`: an
  approved migration changes no table that the server reported as large when it was asked,
  unless a table of the same name in another schema, reported as small, hides it. The
  number of rows itself is outside this property: a large table that the server reports
  as small is changed.
* `ScrapesFindOpenConnections`: a scrape that starts at any moment of a replacement finds,
  registered or unchecked, only collectors with an open connection, except for those that
  ask the database nothing; these the registry cannot remove, and a database without
  metrics adds a closed one at every reconcile. A scrape that began earlier may meet a
  closed connection, which fails its queries and not the scrape;
  `ConnectionsAccounted`: between reconciles every open connection belongs to the
  collector of a database, or to one the registry refused (a leak, bounded by the
  number of failing reconciles only); `ScrapeSucceeds`: no series is sent twice.
* `DeclaredIsPublished`: what a database declares is published, also if it keeps series of
  the declaration before, unless the registry refuses it next to the other databases'
  collectors or there is no connection to be had.

Bounds. Three versions are the fewest for which credentials "from 2-migrations
ago" exist; the desired version may jump over one. Applications of the oldest
version suffice, since only its user is ever to be dropped while the others are
wanted. `MaxOrphans` bounds orphaned containers of one migration. The number of
reconciles, crashes and failures is not bounded there. The other modules bound edits,
faults, restarts and passwords by constants (`Max...`): each scenario the properties
speak of needs at most two of them, and a third repeats it. Names too long
for a label (`LongNames`) are left to the proofs. Two migrations in a row are enough for
the walk: the one it misses is the desired one, an ancestor or the active version's,
before or after the version is moved. One table and one column
are enough for the hints, which are looked at one by one; two hints show that one
does not disturb the next; three rows pass the threshold of two. Two databases show
what collectors and users of different databases do to each other.

Fairness. `Converges` assumes weak fairness of the worker's steps (one goroutine
that is never blocked by another), including the start of a reconcile, which the
resync period of the informers guarantees whatever the last result was; of the
caches; of containers, which in this run do not fail; and of sessions ending.
Pods need no fairness, the property is conditional on them. `BlockedIsWoken` assumes
weak fairness of the two workers, of every request in the queue and of the informers;
no resync. `DeclaredIsPublished` assumes weak fairness of the worker, strong fairness of
`Get(d)`, because the work queue is first-in first-out and other databases keep coming,
weak fairness of `Event(d)`, the resync, and strong fairness of `OpenMetricsAdmin` for
each database: a server that is tried again and again is reached in the end. The last is an assumption
about the environment.

Where the properties stop. The models contain the following behaviours of the code,
and the properties are stated around them:

* a Secret the cache does not yet show stays published when its user is dropped (line 416),
  hence the exceptions in `SecretGoneBeforeUser` and `SecretsStayOpen`;
* a restore of the server with its accounts may leave a Secret with a password no user has
  (line 488): the user is created anew, the Secret exists and cannot be created, so that
  reconcile fails, and the one after it finds the user and reports success. The
  `passwords` run reaches this; `SecretsStayOpen` names the restore as the step that closes
  the Secret, and no property says that it is opened again;
* a collector without metrics stays in the registry for ever, its connection closed by
  the next reconcile (line 275), hence the exception in `ScrapesFindOpenConnections`;
* a pod that starts, or reaches the cache, after `CheckSecretUnused` references a Secret
  that is then deleted (`secrets.go:45`);
* the label may stay on a database that was reconciled with success, because only its
  copy in memory loses it (line 133); nobody waits because of it (`NobodyForgotten`);
* the answer to the first write of `handleError` replaces the new errors by stored ones
  (line 611), so that the status may show an older error;
* a list that fails in `ReconcileDatabaseMigration` is logged and not tried again (line
  525), hence `used.lists` in `NobodyForgotten` and `BlockedIsWoken`;
* `LIKE 'dba_%'` lists users of other programs whose names begin with "dba" and some
  other character, and they are dropped when they have no session (`admin.go:143`);
* `GetTableSizeEstimates` finds namesakes in other schemas (`admin.go:205`), hence the
  exception in `LargeTablesSpared`, and `TABLE_ROWS` is itself an estimate, hence a property
  about what the server reported; the query for NULLs asks for the opposite
  (`admin.go:309`; MySQL refuses it for its missing `IS`), hence no property about NULLs;
* the registry refuses a metric whose labels or help text were edited, for ever (line
  283), hence `Clashes` in `DeclaredIsPublished`; two queries for one metric would send
  one series twice (`metrics.go:141`), so the runs declare one query per metric.

What forward-only means. `ForwardOnly` says people move the desired version only to
a descendant of the present one. Without it, a migration that was started and
is no longer wanted has its Job deleted and its container possibly left running.
On two branches from one version TLC then finds two containers at work, a version
that is overwritten, and the user of the version in place dropped.

A single chain does not help once it has three versions. A reconcile at v2 for the desired
v3 plans to drop the user of v1, the desired version is edited back to v2, and the user
that is now the previous version's is dropped: `LiveCredentialsKept` fails. If a session
keeps that user instead, its Secret is gone all the same: the next reconcile wants the
version again, finds its user, writes no Secret and reports success, without a single
failing call. TLC finds both with the constants of `applications` and `ForwardOnly = FALSE`.
And moving the desired version back and forth leaves an orphan
of v2 that rewrites the version after v3 is recorded, so even that the user of the
version in place is kept fails. What holds without `ForwardOnly` is `PlanInv`,
`SecretGoneBeforeUser` and `ReadOnlyRespected`: TLAPS proves them without that hypothesis.

## Proofs

TLAPS checks every theorem for all values of the constants, under the assumptions
named in the modules (types of the constants) and the hypotheses in this table. Every
inductive invariant is also an invariant of a run.

| Theorem | States | Hypotheses |
|---|---|---|
| `MigrationSafety_proofs` | | `AcyclicAssumption`: no migration is its own ancestor |
| `TypeCorrect` | `TypeOK` | |
| `ReconcileInvariant` | `ForwardInv` | `ForwardOnly` |
| `AtMostOneMigration` | `SingleMigration` | `ForwardOnly` |
| `CredentialsRetired` | `OldCredentialsRetired` | `ForwardOnly` |
| `VersionChain` | `VersionFollowsChain` | `ForwardOnly` |
| `LiveCredentials` | `LiveCredentialsKept` | `ForwardOnly` |
| `MigrationRefinement_proofs` | | |
| `RefinesMigrationLoop` | `ImplementsMigrationLoop` | `ForwardOnly` |
| `CredentialSafety_proofs` | | |
| `PlanInvariant` | `PlanInv` | |
| `SecretsGoFirst` | `SecretGoneBeforeUser` | |
| `ReadOnlyKept` | `ReadOnlyRespected` | |
| `CredentialsInvariant` | `CredentialsInv` | `ForwardOnly`, no faults |
| `SuccessIsUsable` | `SuccessMeansCredentials` | `ForwardOnly`, no faults |
| `BlockedDatabases_proofs` | | |
| `BlockedTypes`, `BlockedInvariant` | `BlockedTypeOK`, `BlockedInv` | |
| `SpecificationSafe` | `SpecificationKept` | |
| `StatusHonest` | `QuietStatusHonest` | |
| `NobodyLeftBehind` | `NobodyForgotten` | |
| `SharedServer_proofs` | | |
| `ServerTypes` | `ServerTypeOK`, `WorkerInv` | |
| `AdminStays` | `AdminKept` | |
| `SecretsOpen` | `SecretsStayOpen` | |
| `HintsEngine_proofs` | | |
| `HintsInvariant` | `HintsTypeOK`, `HintsInv` | |
| `ApprovedSpareLargeTables` | `LargeTablesSpared` | |
| `PassedSucceed` | `PassedHintsSucceed` | |
| `MetricsCollectors_proofs` | | |
| `CollectorsInvariant`, `MetricsInvariant` | `MetricsTypeOK`, `MetricsInv` | |
| `RegistryIsOpen` | `ScrapesFindOpenConnections` | |
| `NoConnectionLost` | `ConnectionsAccounted` | |
| `ScrapesSucceed` | `ScrapeSucceeds` | `DistinctMetrics` |

The hypotheses are needed, not convenient. Without `ForwardOnly` the properties fail, on
two branches and on a single chain of three (above). With faults `lost_secret` refutes
`SuccessMeansCredentials`. Two queries for one metric send a series twice. The operator
enforces none of the three.

Migrations. None of the properties is inductive: each depends on decisions that
a reconcile takes on a version it read some calls ago. `ForwardInv` bounds how wrong
that version can be. A container at work is on the chain of the desired version and
starts from the database's version (`MigratingInv`). Before the version is read, the
copy of the desired version is not older than that container (`ReadInv`). During the
walk the container's migration is still ahead of the walk, or the walk has just
found it (`WalkInv`, `Ahead`); so at the end it is the migration to run
(`ContextInv`), by acyclicity. From then on the version read is the database's, or
the database has since moved to the migration to run, whose Job is then still
recorded, and no user but that of the version read exists. So a Job that does not
exist is created only on the version it starts from, an old Job's container is never
at work when the Job is deleted, and the users left when the Jobs are handled are
the wanted ones (`UsersInv`). Chains are sets, defined as least closed sets, so no
induction over them is needed: `ChainStep` says that a turn of the walk leaves behind
only the migration it loaded. `TypeCorrect` needs `TargetNamed`: a write follows a check
that named its target, or the empty version could enter the set of granted users.

Refinement. The initial states map to that of `MigrationLoop`; a container's start, the
record of its version and an account statement map to the loop's steps, with the loop's
guards supplied by `ForwardInv` (`CreateJob` finds no container at work and only the
user of the version it starts from; `DroppedIsNotLive` is what `DropUser` may drop);
every other action leaves the loop's variables alone.

Credentials. `PlanInv` needs neither `ForwardOnly` nor the absence of faults: it relates the
reconciler's local sets to each other and to the users. `SuccessMeansCredentials` says more,
that a user which exists has its grant and its Secret, and a reconcile does not look for
those of a user it finds. `CredentialsInv` therefore follows every user: it is published,
or being created by this reconcile, or retired, that is, wanted by no later reconcile
(`UsersAccounted`). The difficulty is a reconcile that works from an old version or an
old desired version and would call a retired user wanted; `ReadPublished`,
`WalkPublished` and `WantedPublished` exclude it, phase by phase.

Waiting databases. `NobodyForgotten` speaks of quiet states only and says nothing about
how they are reached. `BlockedInv` holds at every step: the status and the label match how
far `handleError` has come (`StatusInv`, `LabelInv`), and if a database waits for a migration,
whichever the walk missed, then either the arrival of that migration is still to be
noticed - in a queue, in a cache, in the list at work - or the database comes back by
itself (`NoticeInv`). Chains need not be acyclic here.

Accounts. `WorkerInv` says which of the things a worker listed stay true. The Secrets it
listed and does not want are gone once it drops users, so `DROP USER` takes the user from
under a Secret only if the list had not shown it or the Secret is another database's. Until
a restore, a user to be added is absent, so that `CREATE USER` meets no account with another
password and the Secret is written with the password the account has. After one, none of
this holds: the statements that no longer fit are refused, and the Secret this reconcile
writes is the one the property excepts. The number of databases is arbitrary.

Hints. `HintsInv` relates the estimates to what the server reported, and the errors so
far to the hints so far. The unique check is safe for a reason of its own
(`RepeatsAreFound`): repeated values need two rows, and the names the query asks the index
for contain the empty ones, so that no index ever excuses them.

Collectors. `CollectorsInv` gives every open connection one owner, a remembered collector, the
worker or a refused one, and states what the registry holds in the middle of a
replacement, and that the unchecked collectors describe nothing, from which follows that
they ask nothing; `ScrapeInv` keeps the collectors of the registry and of a scrape under way
apart, although the registry changes meanwhile. What a collector sends is injective by
`CollectedOnce`: tables are walked as a set, and metrics are distinct.

Only model-checked: `Converges`, `BlockedIsWoken` and `DeclaredIsPublished`. They are liveness
under fairness, which is out of the prover's reach. The properties that runs refute have no
theorem, except `SuccessMeansCredentials` under its hypotheses.

## Not modelled, and the plan

Worth proving next: which part of `LiveCredentialsKept` is left when the desired version may
move back but no Job is deleted while it runs; that a refused collector is the only way to
lose a connection.

Not modelled:

* two operators at once, possible while leader election is off (`main.go:55`): no
  document says what should hold;
* a cycle in `Previous`, on which the walk does not end: chains are assumed acyclic;
* a `MigrationEngine` other than alembic, which leaves the engine nil;
* which MySQL error numbers are temporary: an error may be either;
* the parsing of the DSN, flags and wiring in `main.go`, the operator's own counters,
  the values of metrics, the contents of pod templates, the wording of errors;
* generated code: deep copies and the fakes of the tests.
