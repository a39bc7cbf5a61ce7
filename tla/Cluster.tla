------------------------------- MODULE Cluster -------------------------------
(***************************************************************************)
(* Everything the dba-operator's ManagedDatabase reconciler acts on and    *)
(* does not own: one ManagedDatabase object, the DatabaseMigration         *)
(* objects, the credential Secrets and migration Jobs the reconciler       *)
(* created, the application pods, and the MySQL server with its schema     *)
(* version, users, grants and sessions.                                    *)
(*                                                                         *)
(* A migration and the schema version it produces share one name, and so   *)
(* do the Secret, the database user and the Job made for it (the code adds *)
(* the database's name or the prefix "dba_"), so all of them are named by  *)
(* the migration.                                                          *)
(*                                                                         *)
(* The reconciler writes through the API server but reads Secrets, Pods    *)
(* and Jobs from informer caches (the manager's client), which lag: the    *)
(* *View variables are those caches. The ManagedDatabase spec and the      *)
(* DatabaseMigrations are read by the reconciler alone, so one variable    *)
(* holds what its cache shows.                                             *)
(***************************************************************************)
EXTENDS Naturals, Chains

CONSTANTS
    DatabaseName,   \* the name of the ManagedDatabase
    Applied,        \* migrations loaded in the cluster from the start
    Apps,           \* versions for which application pods exist
    ForwardOnly,    \* the desired version is only ever moved to a descendant
    ReadOnlyEdits,  \* the values that edits give to Spec.ReadOnly
    ContainersFail, \* migration containers may exit non-zero
    MaxOrphans      \* bound: containers of one migration that outlive their Job

ASSUME ClusterAssumption ==
    /\ NoVersion \notin Migrations
    /\ DatabaseName \notin Versions
    /\ Previous \in [Migrations -> Versions]
    /\ Applied \subseteq Migrations
    /\ Apps \subseteq Migrations
    /\ ForwardOnly \in BOOLEAN
    /\ ReadOnlyEdits \subseteq BOOLEAN
    /\ ContainersFail \in BOOLEAN
    /\ MaxOrphans \in Nat

(***************************************************************************)
(* Chains end: no migration is its own ancestor. Nothing in the code       *)
(* checks this.                                                            *)
(***************************************************************************)
ASSUME AcyclicAssumption ==
    \A m \in Migrations : m \notin Chain(Previous[m])

VARIABLES
    desired,        \* ManagedDatabase.Spec.DesiredSchemaVersion
    readOnly,       \* ManagedDatabase.Spec.ReadOnly
    statusErrors,   \* ManagedDatabase.Status.Errors: "none" or the kind reported
    blockedBy,      \* the blocked-by-migration label, NoVersion if absent
    copyStale,      \* the object was written since the reconciler read it
    migs,           \* DatabaseMigrations that exist
    secrets,        \* Secrets with this database's label
    secretsView,
    pods,           \* versions whose Secret some pod references
    podsView,
    jobs,           \* [migration -> state of its Job and container]
    jobsView,       \* [migration -> what the Job cache shows]
    orphans,        \* [migration -> running containers whose Job was deleted]
    version,        \* what the migration engine's version query returns
    users,          \* database users with the operator's prefix
    granted,        \* those that hold the GRANT
    sessions        \* those with an entry in the process list

objectVars == <<desired, readOnly, statusErrors, blockedBy, copyStale>>
secretVars == <<secrets, secretsView>>
podVars == <<pods, podsView>>
jobVars == <<jobs, jobsView, orphans>>
serverVars == <<version, users, granted, sessions>>
clusterVars ==
    <<objectVars, migs, secretVars, podVars, jobVars, serverVars>>

(***************************************************************************)
(* A Job's container is at work ("migrating"), has written the schema      *)
(* version and not yet exited ("written"), or has exited. The Job's status *)
(* in the cache tells only whether the Job failed.                         *)
(***************************************************************************)
JobStates == {"none", "migrating", "written", "succeeded", "failed"}
JobViews == {"none", "live", "failed"}
ErrorKinds == {"none", "temporary", "permanent"}
NoJobs == [m \in Migrations |-> "none"]
ViewOf(state) == IF state \in {"none", "failed"} THEN state ELSE "live"
JobsSeen == [m \in Migrations |-> ViewOf(jobs[m])]

ClusterTypeOK ==
    /\ desired \in Versions
    /\ readOnly \in BOOLEAN
    /\ statusErrors \in ErrorKinds
    /\ blockedBy \in Versions \cup {DatabaseName}
    /\ copyStale \in BOOLEAN
    /\ migs \in SUBSET Migrations
    /\ secrets \in SUBSET Migrations
    /\ secretsView \in SUBSET Migrations
    /\ pods \in SUBSET Migrations
    /\ podsView \in SUBSET Migrations
    /\ jobs \in [Migrations -> JobStates]
    /\ jobsView \in [Migrations -> JobViews]
    /\ orphans \in [Migrations -> 0..MaxOrphans]
    /\ version \in Versions
    /\ users \in SUBSET Migrations
    /\ granted \in SUBSET Migrations
    /\ sessions \in SUBSET Migrations

\* A fresh ManagedDatabase on an empty database.
ClusterInit ==
    /\ desired = NoVersion
    /\ readOnly = FALSE
    /\ statusErrors = "none"
    /\ blockedBy = NoVersion
    /\ copyStale = FALSE
    /\ migs = Applied
    /\ secrets = {} /\ secretsView = {}
    /\ pods = {} /\ podsView = {}
    /\ jobs = NoJobs
    /\ jobsView = NoJobs
    /\ orphans = [m \in Migrations |-> 0]
    /\ version = NoVersion
    /\ users = {} /\ granted = {} /\ sessions = {}

-----------------------------------------------------------------------------
(***************************************************************************)
(* The people: they edit the ManagedDatabase, load DatabaseMigrations and  *)
(* delete a failed Job to have a migration that is not recorded run again. *)
(***************************************************************************)
EditDesiredVersion(d) ==
    /\ d # desired
    /\ ForwardOnly /\ desired # NoVersion => desired \in Chain(d)
    /\ desired' = d
    /\ copyStale' = TRUE
    /\ UNCHANGED <<readOnly, statusErrors, blockedBy, migs, secretVars, podVars,
                   jobVars, serverVars>>

EditReadOnly(r) ==
    /\ r # readOnly
    /\ readOnly' = r
    /\ copyStale' = TRUE
    /\ UNCHANGED <<desired, statusErrors, blockedBy, migs, secretVars, podVars,
                   jobVars, serverVars>>

ApplyMigration(m) ==
    /\ m \notin migs
    /\ migs' = migs \cup {m}
    /\ UNCHANGED <<objectVars, secretVars, podVars, jobVars, serverVars>>

DeleteFailedJob(m) ==
    /\ jobs[m] = "failed"
    /\ version # m
    /\ jobs' = [jobs EXCEPT ![m] = "none"]
    /\ UNCHANGED <<jobsView, orphans, objectVars, migs, secretVars, podVars, serverVars>>

-----------------------------------------------------------------------------
(***************************************************************************)
(* The migration containers. A container writes its version whatever the   *)
(* database holds, and does so before it exits; pushing the final metrics  *)
(* after the write may still fail it. The Job has RestartPolicy Never and  *)
(* a back-off limit of zero: one container per Job.                        *)
(***************************************************************************)
ContainerWritesVersion(m) ==
    /\ jobs[m] = "migrating"
    /\ jobs' = [jobs EXCEPT ![m] = "written"]
    /\ version' = m
    /\ UNCHANGED <<jobsView, orphans, users, granted, sessions, objectVars, migs,
                   secretVars, podVars>>

ContainerExits(m, state) ==
    /\ \/ state = "succeeded" /\ jobs[m] = "written"
       \/ state = "failed" /\ ContainersFail /\ jobs[m] \in {"migrating", "written"}
    /\ jobs' = [jobs EXCEPT ![m] = state]
    /\ UNCHANGED <<jobsView, orphans, objectVars, migs, secretVars, podVars, serverVars>>

OrphanWritesVersion(m) ==
    /\ orphans[m] > 0
    /\ orphans' = [orphans EXCEPT ![m] = @ - 1]
    /\ version' = m
    /\ UNCHANGED <<jobs, jobsView, users, granted, sessions, objectVars, migs,
                   secretVars, podVars>>

OrphanFails(m) ==
    /\ ContainersFail
    /\ orphans[m] > 0
    /\ orphans' = [orphans EXCEPT ![m] = @ - 1]
    /\ UNCHANGED <<jobs, jobsView, objectVars, migs, secretVars, podVars, serverVars>>

-----------------------------------------------------------------------------
(***************************************************************************)
(* The applications. A pod can start only while the Secret it mounts       *)
(* exists, and a session needs the user; connections left in the server's  *)
(* process list may outlive the pod.                                       *)
(***************************************************************************)
PodStarts(a) ==
    /\ a \notin pods
    /\ a \in secrets
    /\ pods' = pods \cup {a}
    /\ UNCHANGED <<podsView, objectVars, migs, secretVars, jobVars, serverVars>>

PodStops(a) ==
    /\ a \in pods
    /\ pods' = pods \ {a}
    /\ UNCHANGED <<podsView, objectVars, migs, secretVars, jobVars, serverVars>>

Connect(a) ==
    /\ a \in pods \ sessions
    /\ a \in users
    /\ sessions' = sessions \cup {a}
    /\ UNCHANGED <<version, users, granted, objectVars, migs, secretVars, podVars, jobVars>>

Disconnect(a) ==
    /\ a \in sessions
    /\ sessions' = sessions \ {a}
    /\ UNCHANGED <<version, users, granted, objectVars, migs, secretVars, podVars, jobVars>>

-----------------------------------------------------------------------------
\* The informer caches catch up, one kind of object at a time.
SyncSecrets ==
    /\ secretsView # secrets
    /\ secretsView' = secrets
    /\ UNCHANGED <<secrets, objectVars, migs, podVars, jobVars, serverVars>>

SyncPods ==
    /\ podsView # pods
    /\ podsView' = pods
    /\ UNCHANGED <<pods, objectVars, migs, secretVars, jobVars, serverVars>>

SyncJobs ==
    /\ jobsView # JobsSeen
    /\ jobsView' = JobsSeen
    /\ UNCHANGED <<jobs, orphans, objectVars, migs, secretVars, podVars, serverVars>>

ClusterNext ==
    \/ \E m \in Migrations :
          \/ EditDesiredVersion(m)
          \/ ApplyMigration(m)
          \/ DeleteFailedJob(m)
          \/ ContainerWritesVersion(m)
          \/ \E state \in {"succeeded", "failed"} : ContainerExits(m, state)
          \/ OrphanWritesVersion(m)
          \/ OrphanFails(m)
    \/ \E r \in ReadOnlyEdits : EditReadOnly(r)
    \/ \E a \in Apps : PodStarts(a) \/ PodStops(a) \/ Connect(a) \/ Disconnect(a)
    \/ SyncSecrets \/ SyncPods \/ SyncJobs
=============================================================================
