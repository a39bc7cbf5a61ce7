---------------------- MODULE ManagedDatabaseController ----------------------
(***************************************************************************)
(* The operator's reconciler of one ManagedDatabase                        *)
(* (controllers/manageddatabase_controller.go), composed with Cluster. The *)
(* ManagedDatabase controller runs one worker, so one reconcile is in      *)
(* progress at a time; the cluster, the database, the migration containers *)
(* and ReconcileDatabaseMigration move between any two of its calls. Every *)
(* call that reads or writes outside the process is a step of its own, and *)
(* pc names the call that comes next.                                      *)
(***************************************************************************)
EXTENDS Cluster

CONSTANTS
    HintsEnabled,   \* Spec.HintsEngine is set and enabled
    Faults          \* calls may fail and the operator may crash

ASSUME ControllerAssumption ==
    /\ HintsEnabled \in BOOLEAN
    /\ Faults \in BOOLEAN

VARIABLES
    pc,
    dbReadOnly,        \* Spec.ReadOnly of the copy of the object this reconcile read
    currentDbVersion,
    needVersion,
    nextVersion,       \* the migration to run, NoVersion for nil
    secretNames,       \* versions whose credentials are wanted (dbUsernames too)
    existingSecretSet,
    secretsToRemove,
    dbUsersToRemove,
    dbUsersToAdd,
    target,            \* the secret or user a check was made on and a write follows
    jobsForDatabase,   \* Jobs of the list not handled yet, as the cache showed them
    neededJobsRunning,
    err,               \* the kind of error handed to handleError
    causingMigration   \* the migration a migrationError names, NoVersion otherwise

localVars == <<dbReadOnly, currentDbVersion, needVersion, nextVersion, secretNames,
               existingSecretSet, secretsToRemove, dbUsersToRemove, dbUsersToAdd, target,
               jobsForDatabase, neededJobsRunning>>
errorVars == <<err, causingMigration>>
controllerVars == <<pc, localVars, errorVars>>
vars == <<clusterVars, controllerVars>>

Steps == {"idle", "getVersion", "walk", "listSecrets", "removeSecrets", "deleteSecret",
          "removeUsers", "dropUser", "addUsers", "grant", "writeSecret",
          "hints", "listJobs", "jobs", "updateStatus", "error"}

ControllerTypeOK ==
    /\ pc \in Steps
    /\ dbReadOnly \in BOOLEAN
    /\ currentDbVersion \in Versions
    /\ needVersion \in Versions
    /\ nextVersion \in Versions
    /\ secretNames \in SUBSET Migrations
    /\ existingSecretSet \in SUBSET Migrations
    /\ secretsToRemove \in SUBSET Migrations
    /\ dbUsersToRemove \in SUBSET Migrations
    /\ dbUsersToAdd \in SUBSET Migrations
    /\ target \in Versions
    /\ jobsForDatabase \in [Migrations -> JobViews]
    /\ neededJobsRunning \in SUBSET Migrations
    /\ err \in ErrorKinds
    /\ causingMigration \in Versions \cup {DatabaseName}

(***************************************************************************)
(* Every variable keeps its type; in particular every set of versions the  *)
(* reconciler builds (credentials wanted, to add, to remove, Jobs needed)  *)
(* holds names of migrations and never the empty version.                  *)
(***************************************************************************)
TypeOK == ClusterTypeOK /\ ControllerTypeOK

\* No reconcile is in progress: its local variables are gone.
LocalsInit ==
    /\ dbReadOnly = FALSE
    /\ currentDbVersion = NoVersion
    /\ needVersion = NoVersion
    /\ nextVersion = NoVersion
    /\ secretNames = {}
    /\ existingSecretSet = {}
    /\ secretsToRemove = {}
    /\ dbUsersToRemove = {}
    /\ dbUsersToAdd = {}
    /\ target = NoVersion
    /\ jobsForDatabase = NoJobs
    /\ neededJobsRunning = {}

LocalsReset ==
    /\ dbReadOnly' = FALSE
    /\ currentDbVersion' = NoVersion
    /\ needVersion' = NoVersion
    /\ nextVersion' = NoVersion
    /\ secretNames' = {}
    /\ existingSecretSet' = {}
    /\ secretsToRemove' = {}
    /\ dbUsersToRemove' = {}
    /\ dbUsersToAdd' = {}
    /\ target' = NoVersion
    /\ jobsForDatabase' = NoJobs
    /\ neededJobsRunning' = {}

Init ==
    /\ ClusterInit
    /\ pc = "idle"
    /\ LocalsInit
    /\ err = "none"
    /\ causingMigration = NoVersion

GoTo(step) == pc' = step /\ UNCHANGED errorVars

\* The reconcile returns.
Return ==
    /\ pc' = "idle"
    /\ err' = "none"
    /\ causingMigration' = NoVersion
    /\ LocalsReset

\* The reconcile gives up with an error, which handleError reports next.
Fail(kind, migration) ==
    /\ pc' = "error"
    /\ err' = kind
    /\ causingMigration' = migration
    /\ LocalsReset

Permanent == Fail("permanent", NoVersion)
Temporary == Fail("temporary", NoVersion)

-----------------------------------------------------------------------------
(***************************************************************************)
(* ReconcileManagedDatabase up to the credentials.                         *)
(***************************************************************************)

(***************************************************************************)
(* The object is read from the cache and normalised in memory, and two     *)
(* admin connections are opened. An event, a requeue or the periodic       *)
(* resync starts it, so it may start at any time.                          *)
(***************************************************************************)
Begin ==
    /\ pc = "idle"
    /\ dbReadOnly' = readOnly
    /\ needVersion' = desired
    /\ copyStale' = FALSE
    /\ GoTo("getVersion")
    /\ UNCHANGED <<desired, readOnly, statusErrors, blockedBy, migs, secretVars, podVars,
                   jobVars, serverVars, currentDbVersion, nextVersion, secretNames,
                   existingSecretSet, secretsToRemove, dbUsersToRemove, dbUsersToAdd,
                   target, jobsForDatabase, neededJobsRunning>>

GetSchemaVersion ==
    /\ pc = "getVersion"
    /\ currentDbVersion' = version
    /\ GoTo("walk")
    /\ UNCHANGED <<clusterVars, dbReadOnly, needVersion, nextVersion, secretNames,
                   existingSecretSet, secretsToRemove, dbUsersToRemove, dbUsersToAdd,
                   target, jobsForDatabase, neededJobsRunning>>

\* One turn of the loop from the desired version back to the current one.
WalkBack ==
    /\ pc = "walk"
    /\ needVersion # currentDbVersion
    /\ \/ /\ needVersion = NoVersion
          /\ Permanent
       \/ /\ needVersion \in Migrations \ migs
          /\ Fail("permanent", needVersion)
       \/ /\ needVersion \in migs
          /\ nextVersion' = needVersion
          /\ needVersion' = Previous[needVersion]
          /\ UNCHANGED <<pc, errorVars, dbReadOnly, currentDbVersion, secretNames,
                         existingSecretSet, secretsToRemove, dbUsersToRemove,
                         dbUsersToAdd, target, jobsForDatabase, neededJobsRunning>>
    /\ UNCHANGED clusterVars

\* Seeded bugs: the check for an empty Previous is missing; the previous version
\* is kept although a migration follows; the previous version is never kept; the
\* version before the previous one is kept too.
DesiredVersionNames_PreviousUnchecked(active, next) ==
    IF active = NoVersion THEN {}
    ELSE {active} \cup (IF next = NoVersion THEN {Previous[active]} ELSE {})
DesiredVersionNames_KeepPrevious(active, next) ==
    IF active = NoVersion THEN {} ELSE {active, Previous[active]} \ {NoVersion}
DesiredVersionNames_ActiveOnly(active, next) ==
    IF active = NoVersion THEN {} ELSE {active}
DesiredVersionNames_TwoBack(active, next) ==
    IF active = NoVersion \/ next # NoVersion THEN {active} \ {NoVersion}
    ELSE {v \in Chain(active) :
             v = active \/ v = Previous[active]
             \/ (Previous[active] # NoVersion /\ v = Previous[Previous[active]])}

(***************************************************************************)
(* The versions whose credentials must exist: the active one's, and the    *)
(* previous one's unless a migration is about to be attempted.             *)
(***************************************************************************)
DesiredVersionNames(active, next) ==
    IF active = NoVersion THEN {}
    ELSE {active} \cup (IF next = NoVersion THEN {Previous[active]} \ {NoVersion} ELSE {})

\* The loop is over: load the active version's migration, if there is one.
LoadActiveVersion ==
    /\ pc = "walk"
    /\ needVersion = currentDbVersion
    /\ \/ /\ currentDbVersion \in Migrations \ migs
          /\ Fail("permanent", currentDbVersion)
       \/ /\ currentDbVersion \in migs \cup {NoVersion}
          /\ secretNames' = DesiredVersionNames(currentDbVersion, nextVersion)
          /\ needVersion' = NoVersion
          /\ GoTo("listSecrets")
          /\ UNCHANGED <<dbReadOnly, currentDbVersion, nextVersion, existingSecretSet,
                         secretsToRemove, dbUsersToRemove, dbUsersToAdd, target,
                         jobsForDatabase, neededJobsRunning>>
    /\ UNCHANGED clusterVars

-----------------------------------------------------------------------------
(***************************************************************************)
(* reconcileCredentialsForVersion.                                         *)
(***************************************************************************)
\* Seeded bug: the previous version's Secret is kept although a migration follows.
ListSecrets_KeepPrevious ==
    /\ pc = "listSecrets"
    /\ existingSecretSet' = secretsView
    /\ secretsToRemove' = secretsView \ DesiredVersionNames(currentDbVersion, NoVersion)
    /\ GoTo("removeSecrets")
    /\ UNCHANGED <<clusterVars, dbReadOnly, currentDbVersion, needVersion, nextVersion,
                   secretNames, dbUsersToRemove, dbUsersToAdd, target, jobsForDatabase,
                   neededJobsRunning>>

ListSecrets ==
    /\ pc = "listSecrets"
    /\ existingSecretSet' = secretsView
    /\ secretsToRemove' = secretsView \ secretNames
    /\ GoTo("removeSecrets")
    /\ UNCHANGED <<clusterVars, dbReadOnly, currentDbVersion, needVersion, nextVersion,
                   secretNames, dbUsersToRemove, dbUsersToAdd, target, jobsForDatabase,
                   neededJobsRunning>>

\* deleteSecretIfUnused up to the delete: both reads are from the cache.
CheckSecretUnused(s) ==
    /\ pc = "removeSecrets"
    /\ s \in secretsToRemove
    /\ \/ /\ s \in podsView \/ s \notin secretsView
          /\ Permanent
       \/ /\ s \notin podsView /\ s \in secretsView
          /\ target' = s
          /\ GoTo("deleteSecret")
          /\ UNCHANGED <<dbReadOnly, currentDbVersion, needVersion, nextVersion,
                         secretNames, existingSecretSet, secretsToRemove,
                         dbUsersToRemove, dbUsersToAdd, jobsForDatabase,
                         neededJobsRunning>>
    /\ UNCHANGED clusterVars

DeleteSecret ==
    /\ pc = "deleteSecret"
    /\ \/ /\ target \notin secrets
          /\ Permanent
          /\ UNCHANGED secrets
       \/ /\ target \in secrets
          /\ secrets' = secrets \ {target}
          /\ secretsToRemove' = secretsToRemove \ {target}
          /\ target' = NoVersion
          /\ GoTo("removeSecrets")
          /\ UNCHANGED <<dbReadOnly, currentDbVersion, needVersion, nextVersion,
                         secretNames, existingSecretSet, dbUsersToRemove, dbUsersToAdd,
                         jobsForDatabase, neededJobsRunning>>
    /\ UNCHANGED <<secretsView, objectVars, migs, podVars, jobVars, serverVars>>

\* Seeded bug: the read-only check is missing.
ListUsernames_IgnoreReadOnly ==
    /\ pc = "removeSecrets"
    /\ secretsToRemove = {}
    /\ dbUsersToRemove' = users \ secretNames
    /\ dbUsersToAdd' = secretNames \ users
    /\ GoTo("removeUsers")
    /\ UNCHANGED <<clusterVars, dbReadOnly, currentDbVersion, needVersion, nextVersion,
                   secretNames, existingSecretSet, secretsToRemove, target, jobsForDatabase,
                   neededJobsRunning>>

\* ListUsernames, the three differences and the read-only check.
ListUsernames ==
    /\ pc = "removeSecrets"
    /\ secretsToRemove = {}
    /\ \/ /\ dbReadOnly
          /\ users # secretNames \/ secretNames \ existingSecretSet # {}
          /\ Permanent
       \/ /\ dbReadOnly
          /\ users = secretNames /\ secretNames \subseteq existingSecretSet
          /\ existingSecretSet' = {}
          /\ GoTo("hints")
          /\ UNCHANGED <<dbReadOnly, currentDbVersion, needVersion, nextVersion,
                         secretNames, secretsToRemove, dbUsersToRemove, dbUsersToAdd,
                         target, jobsForDatabase, neededJobsRunning>>
       \/ /\ ~dbReadOnly
          /\ dbUsersToRemove' = users \ secretNames
          /\ dbUsersToAdd' = secretNames \ users
          /\ GoTo("removeUsers")
          /\ UNCHANGED <<dbReadOnly, currentDbVersion, needVersion, nextVersion,
                         secretNames, existingSecretSet, secretsToRemove, target,
                         jobsForDatabase, neededJobsRunning>>
    /\ UNCHANGED clusterVars

\* VerifyUnusedAndDeleteCredentials, the query of the process list.
CountSessions(u) ==
    /\ pc = "removeUsers"
    /\ u \in dbUsersToRemove
    /\ \/ /\ u \in sessions
          /\ Temporary
       \/ /\ u \notin sessions
          /\ target' = u
          /\ GoTo("dropUser")
          /\ UNCHANGED <<dbReadOnly, currentDbVersion, needVersion, nextVersion,
                         secretNames, existingSecretSet, secretsToRemove,
                         dbUsersToRemove, dbUsersToAdd, jobsForDatabase,
                         neededJobsRunning>>
    /\ UNCHANGED clusterVars

\* VerifyUnusedAndDeleteCredentials, DROP USER.
DropUser ==
    /\ pc = "dropUser"
    /\ users' = users \ {target}
    /\ granted' = granted \ {target}
    /\ dbUsersToRemove' = dbUsersToRemove \ {target}
    /\ target' = NoVersion
    /\ GoTo("removeUsers")
    /\ UNCHANGED <<version, sessions, objectVars, migs, secretVars, podVars, jobVars,
                   dbReadOnly, currentDbVersion, needVersion, nextVersion, secretNames,
                   existingSecretSet, secretsToRemove, dbUsersToAdd, jobsForDatabase,
                   neededJobsRunning>>

\* Seeded bug: users are added before the old ones are gone.
UsersRemoved_Early ==
    /\ pc = "removeUsers"
    /\ GoTo("addUsers")
    /\ UNCHANGED <<clusterVars, localVars>>

UsersRemoved ==
    /\ pc = "removeUsers"
    /\ dbUsersToRemove = {}
    /\ GoTo("addUsers")
    /\ UNCHANGED <<clusterVars, localVars>>

\* WriteCredentials, CREATE USER.
CreateUser(u) ==
    /\ pc = "addUsers"
    /\ u \in dbUsersToAdd
    /\ users' = users \cup {u}
    /\ target' = u
    /\ GoTo("grant")
    /\ UNCHANGED <<version, granted, sessions, objectVars, migs, secretVars, podVars,
                   jobVars, dbReadOnly, currentDbVersion, needVersion, nextVersion,
                   secretNames, existingSecretSet, secretsToRemove, dbUsersToRemove,
                   dbUsersToAdd, jobsForDatabase, neededJobsRunning>>

\* Seeded bug: the GRANT is forgotten.
Grant_Forgotten ==
    /\ pc = "grant"
    /\ GoTo("writeSecret")
    /\ UNCHANGED <<clusterVars, localVars>>

\* WriteCredentials, GRANT.
Grant ==
    /\ pc = "grant"
    /\ granted' = granted \cup {target}
    /\ GoTo("writeSecret")
    /\ UNCHANGED <<version, users, sessions, objectVars, migs, secretVars, podVars, jobVars,
                   localVars>>

WriteCredentialsSecret ==
    /\ pc = "writeSecret"
    /\ \/ /\ target \in secrets
          /\ Permanent
          /\ UNCHANGED secrets
       \/ /\ target \notin secrets
          /\ secrets' = secrets \cup {target}
          /\ dbUsersToAdd' = dbUsersToAdd \ {target}
          /\ target' = NoVersion
          /\ GoTo("addUsers")
          /\ UNCHANGED <<dbReadOnly, currentDbVersion, needVersion, nextVersion,
                         secretNames, existingSecretSet, secretsToRemove,
                         dbUsersToRemove, jobsForDatabase, neededJobsRunning>>
    /\ UNCHANGED <<secretsView, objectVars, migs, podVars, jobVars, serverVars>>

\* Secrets that are wanted but whose user exists already are left missing.
UsersAdded ==
    /\ pc = "addUsers"
    /\ dbUsersToAdd = {}
    /\ existingSecretSet' = {}
    /\ GoTo("hints")
    /\ UNCHANGED <<clusterVars, dbReadOnly, currentDbVersion, needVersion, nextVersion,
                   secretNames, secretsToRemove, dbUsersToRemove, dbUsersToAdd, target,
                   jobsForDatabase, neededJobsRunning>>

-----------------------------------------------------------------------------
\* The object's status is written; a stale copy conflicts and nothing is written.
ReportErrors(kind) ==
    /\ statusErrors' = IF copyStale THEN statusErrors ELSE kind
    /\ Return
    /\ UNCHANGED <<desired, readOnly, blockedBy, copyStale, migs, secretVars, podVars,
                   jobVars, serverVars>>

\* The hints engine does not run.
SkipHints ==
    /\ pc = "hints"
    /\ nextVersion = NoVersion \/ ~HintsEnabled
    /\ GoTo("listJobs")
    /\ UNCHANGED <<clusterVars, localVars>>

(***************************************************************************)
(* ProcessHints against the live tables: the migration fits, would fail    *)
(* (its errors go to the status and the reconcile ends), or its hints are  *)
(* invalid (the error names the ManagedDatabase where it should name the   *)
(* migration).                                                             *)
(***************************************************************************)
ProcessHints ==
    /\ pc = "hints"
    /\ nextVersion # NoVersion /\ HintsEnabled
    /\ \/ GoTo("listJobs") /\ UNCHANGED <<clusterVars, localVars>>
       \/ ReportErrors("permanent")
       \/ Fail("permanent", DatabaseName) /\ UNCHANGED clusterVars

-----------------------------------------------------------------------------
(***************************************************************************)
(* reconcileMigrationJob.                                                  *)
(***************************************************************************)
\* Seeded bug: the desired version's migration is run, not the next one's.
ListJobs_Desired ==
    /\ pc = "listJobs"
    /\ jobsForDatabase' = jobsView
    /\ neededJobsRunning' = IF nextVersion = NoVersion THEN {} ELSE {desired}
    /\ GoTo("jobs")
    /\ UNCHANGED <<clusterVars, dbReadOnly, currentDbVersion, needVersion, nextVersion,
                   secretNames, existingSecretSet, secretsToRemove, dbUsersToRemove,
                   dbUsersToAdd, target>>

ListJobs ==
    /\ pc = "listJobs"
    /\ jobsForDatabase' = jobsView
    /\ neededJobsRunning' = {nextVersion} \ {NoVersion}
    /\ GoTo("jobs")
    /\ UNCHANGED <<clusterVars, dbReadOnly, currentDbVersion, needVersion, nextVersion,
                   secretNames, existingSecretSet, secretsToRemove, dbUsersToRemove,
                   dbUsersToAdd, target>>

\* Seeded bug: Jobs are matched with the desired version.
JobIsNeeded_Desired(m) == m \in neededJobsRunning /\ m = desired

\* A Job of the list is that of a migration that is needed and not found yet.
JobIsNeeded(m) == m \in neededJobsRunning

\* The list holds the Job of the migration to run.
FoundNeededJob(m) ==
    /\ pc = "jobs"
    /\ JobIsNeeded(m)
    /\ jobsForDatabase[m] # "none"
    /\ \/ /\ jobsForDatabase[m] = "failed"
          /\ Permanent
       \/ /\ jobsForDatabase[m] = "live"
          /\ neededJobsRunning' = neededJobsRunning \ {m}
          /\ jobsForDatabase' = [jobsForDatabase EXCEPT ![m] = "none"]
          /\ UNCHANGED <<pc, errorVars, dbReadOnly, currentDbVersion, needVersion,
                         nextVersion, secretNames, existingSecretSet, secretsToRemove,
                         dbUsersToRemove, dbUsersToAdd, target>>
    /\ UNCHANGED clusterVars

(***************************************************************************)
(* Any other Job is deleted. The delete names no propagation policy, so a  *)
(* container still at work may be stopped or may be left running.          *)
(***************************************************************************)
DeleteOldJob(m) ==
    /\ pc = "jobs"
    /\ ~JobIsNeeded(m)
    /\ jobsForDatabase[m] # "none"
    /\ \/ /\ jobs[m] = "none"
          /\ Permanent
          /\ UNCHANGED <<jobs, orphans>>
       \/ /\ jobs[m] # "none"
          /\ jobs' = [jobs EXCEPT ![m] = "none"]
          /\ \/ UNCHANGED orphans
             \/ /\ jobs[m] = "migrating"
                /\ orphans[m] < MaxOrphans
                /\ orphans' = [orphans EXCEPT ![m] = @ + 1]
          /\ jobsForDatabase' = [jobsForDatabase EXCEPT ![m] = "none"]
          /\ UNCHANGED <<pc, errorVars, dbReadOnly, currentDbVersion, needVersion,
                         nextVersion, secretNames, existingSecretSet, secretsToRemove,
                         dbUsersToRemove, dbUsersToAdd, target, neededJobsRunning>>
    /\ UNCHANGED <<jobsView, objectVars, migs, secretVars, podVars, serverVars>>

\* The list is done: create the Job if it was not found, unless read-only.
CreateJob ==
    /\ pc = "jobs"
    /\ jobsForDatabase = NoJobs
    /\ \/ /\ neededJobsRunning = {}
          /\ GoTo("updateStatus")
          /\ UNCHANGED <<jobs, localVars>>
       \/ /\ neededJobsRunning # {} /\ dbReadOnly
          /\ Permanent
          /\ UNCHANGED jobs
       \/ /\ ~dbReadOnly
          /\ \E m \in neededJobsRunning :
                \/ /\ jobs[m] # "none"
                   /\ Permanent
                   /\ UNCHANGED jobs
                \/ /\ jobs[m] = "none"
                   /\ jobs' = [jobs EXCEPT ![m] = "migrating"]
                   /\ GoTo("updateStatus")
                   /\ UNCHANGED localVars
    /\ UNCHANGED <<jobsView, orphans, objectVars, migs, secretVars, podVars, serverVars>>

\* Seeded bug: the errors of the last reconcile are not cleared.
UpdateStatus_KeepErrors ==
    /\ pc = "updateStatus"
    /\ ReportErrors(statusErrors)

\* The reconcile succeeded: the status carries no errors.
UpdateStatus ==
    /\ pc = "updateStatus"
    /\ ReportErrors("none")

(***************************************************************************)
(* handleError. A migrationError also labels the object, with an update of *)
(* the whole object whose answer overwrites the errors in memory with the  *)
(* ones stored before, if there are any.                                   *)
(***************************************************************************)
HandleError ==
    /\ pc = "error"
    /\ \/ /\ causingMigration = NoVersion \/ copyStale
          /\ ReportErrors(err)
       \/ /\ causingMigration # NoVersion /\ ~copyStale
          /\ blockedBy' = causingMigration
          /\ statusErrors' = IF statusErrors = "none" THEN err ELSE statusErrors
          /\ Return
          /\ UNCHANGED <<desired, readOnly, copyStale, migs, secretVars, podVars, jobVars,
                         serverVars>>

-----------------------------------------------------------------------------
(***************************************************************************)
(* Faults. A SQL statement fails with an error that is temporary or not, a *)
(* write to the API server with one that is not; a failed status update    *)
(* ends the reconcile. The operator crashes, and comes back with nothing   *)
(* in memory and newly listed caches.                                      *)
(***************************************************************************)
CallFails ==
    /\ Faults
    /\ \/ /\ \/ pc \in {"getVersion", "dropUser", "grant"}
             \/ pc = "removeSecrets" /\ secretsToRemove = {}
             \/ pc = "removeUsers" /\ dbUsersToRemove # {}
             \/ pc = "addUsers" /\ dbUsersToAdd # {}
          /\ Temporary \/ Permanent
       \/ /\ pc = "hints" /\ nextVersion # NoVersion /\ HintsEnabled
          /\ Temporary
       \/ /\ pc \in {"deleteSecret", "writeSecret", "jobs"}
          /\ Permanent
       \/ /\ pc \in {"updateStatus", "error"}
          /\ Return
    /\ UNCHANGED clusterVars

Crash ==
    /\ Faults
    /\ pc # "idle"
    /\ Return
    /\ secretsView' = secrets
    /\ podsView' = pods
    /\ jobsView' = JobsSeen
    /\ UNCHANGED <<objectVars, migs, secrets, pods, jobs, orphans, serverVars>>

(***************************************************************************)
(* ReconcileDatabaseMigration, the other controller: when a                *)
(* DatabaseMigration appears or changes, the databases labelled as blocked *)
(* by it lose the label, an update that requeues them.                     *)
(***************************************************************************)
ReconcileDatabaseMigration(m) ==
    /\ m \in migs
    /\ blockedBy = m
    /\ blockedBy' = NoVersion
    /\ copyStale' = TRUE
    /\ UNCHANGED <<desired, readOnly, statusErrors, migs, secretVars, podVars, jobVars,
                   serverVars, controllerVars>>

Reconcile ==
    \/ Begin \/ GetSchemaVersion \/ WalkBack \/ LoadActiveVersion
    \/ ListSecrets \/ DeleteSecret \/ ListUsernames \/ DropUser \/ UsersRemoved
    \/ Grant \/ WriteCredentialsSecret \/ UsersAdded
    \/ SkipHints \/ ProcessHints
    \/ ListJobs \/ CreateJob
    \/ UpdateStatus \/ HandleError
    \/ \E m \in Migrations :
          \/ CheckSecretUnused(m) \/ CountSessions(m) \/ CreateUser(m)
          \/ FoundNeededJob(m) \/ DeleteOldJob(m)

Next ==
    \/ Reconcile
    \/ CallFails \/ Crash
    \/ \E m \in Migrations : ReconcileDatabaseMigration(m)
    \/ ClusterNext /\ UNCHANGED controllerVars

Spec == Init /\ [][Next]_vars

(***************************************************************************)
(* The worker takes its steps and starts another reconcile sooner or later *)
(* (a requeue, an event or the resync); caches catch up; containers finish *)
(* when they can; sessions end. Nothing is assumed of the people, of pods  *)
(* or of failures.                                                         *)
(***************************************************************************)
Fairness ==
    /\ WF_vars(Reconcile)
    /\ WF_vars(SyncSecrets /\ UNCHANGED controllerVars)
    /\ WF_vars(SyncPods /\ UNCHANGED controllerVars)
    /\ WF_vars(SyncJobs /\ UNCHANGED controllerVars)
    /\ \A m \in Migrations :
          /\ WF_vars(ContainerWritesVersion(m) /\ UNCHANGED controllerVars)
          /\ WF_vars(ContainerExits(m, "succeeded") /\ UNCHANGED controllerVars)
          /\ WF_vars(Disconnect(m) /\ UNCHANGED controllerVars)

FairSpec == Spec /\ Fairness

-----------------------------------------------------------------------------
(***************************************************************************)
(* What makes the operator correct.                                        *)
(***************************************************************************)
AtWork(m) == jobs[m] = "migrating" \/ orphans[m] > 0

(***************************************************************************)
(* At most one migration container is at work on the database, though the  *)
(* reconciler decides to create a Job on a version it read many calls ago  *)
(* and on a cached list of Jobs (reconcileMigrationJob).                   *)
(***************************************************************************)
SingleMigration ==
    \A m, n \in Migrations :
        AtWork(m) /\ AtWork(n) => m = n /\ (jobs[m] = "migrating" => orphans[m] = 0)

(***************************************************************************)
(* A migration runs only while no credentials are left that are older than *)
(* the version it starts from: "Verify that credentials from 2-migrations  *)
(* ago are unused", "Drop credentials from 2-migrations ago", "Run         *)
(* database migration" (README, Migration Loop). Newer ones do not exist   *)
(* yet.                                                                    *)
(***************************************************************************)
OldCredentialsRetired ==
    \A m \in Migrations : AtWork(m) => users \subseteq {Previous[m]}

(***************************************************************************)
(* The schema version moves along Previous, one migration at a time: no    *)
(* container is ever run against a version other than the one it migrates  *)
(* from (ReconcileManagedDatabase, the walk from the desired version).     *)
(***************************************************************************)
VersionFollowsChain ==
    [][version' # version => version = Previous[version']]_vars

(***************************************************************************)
(* No step drops the user of the version the database is at, nor, when     *)
(* that version is the desired one, the user of the version before it,     *)
(* though the reconciler may work from a version that is out of date       *)
(* (reconcileCredentialsForVersion).                                       *)
(***************************************************************************)
LiveCredentialsKept ==
    [][\A u \in users \ users' :
          /\ u # version
          /\ version = desired /\ version # NoVersion => u # Previous[version]]_vars

(***************************************************************************)
(* A user is dropped only when the Secret that publishes it is gone, if    *)
(* the reconcile's own list of Secrets showed it: the Secrets are removed  *)
(* before the users (reconcileCredentialsForVersion).                      *)
(***************************************************************************)
SecretGoneBeforeUser ==
    [][\A u \in users \ users' : u \in existingSecretSet => u \notin secrets]_vars

(***************************************************************************)
(* A reconcile that read Spec.ReadOnly as true changes no user and starts  *)
(* no migration, whatever it finds and whenever the flag is set or cleared *)
(* around it (the two read-only checks).                                   *)
(***************************************************************************)
ReadOnlyRespected ==
    [][dbReadOnly =>
          /\ users' = users /\ granted' = granted
          /\ \A m \in Migrations : jobs[m] = "none" => jobs'[m] = "none"]_vars

(***************************************************************************)
(* A reconcile that reports success leaves the wanted credentials          *)
(* available: the user exists, holds the GRANT and has its Secret ("The    *)
(* credentials for the currently active version must be available").       *)
(***************************************************************************)
SuccessMeansCredentials ==
    pc = "updateStatus" => secretNames \subseteq users \cap granted \cap secrets

(***************************************************************************)
(* "Ensure there are no existing connections using the credentials about   *)
(* to be dropped" (README) and the contract of                             *)
(* VerifyUnusedAndDeleteCredentials: no session of a user is open when the *)
(* user is dropped.                                                        *)
(***************************************************************************)
DroppedUserHasNoSession ==
    [][\A u \in users \ users' : u \notin sessions]_vars

(***************************************************************************)
(* "Run through all required migration loops until version matches         *)
(* desired" (README): if applications stay on the database's own version   *)
(* or the desired one from some time on, the database reaches the desired  *)
(* version and stays there, its credentials are available, and the status  *)
(* ends up without errors (ReconcileManagedDatabase as a loop).            *)
(***************************************************************************)
Converges ==
    <>[](pods \subseteq {version, desired})
        => <>[](/\ version = desired
                /\ DesiredVersionNames(version, NoVersion)
                       \subseteq users \cap granted \cap secrets
                /\ statusErrors = "none")
=============================================================================
