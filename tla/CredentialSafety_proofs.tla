----------------------- MODULE CredentialSafety_proofs -----------------------
(***************************************************************************)
(* Proofs about the credentials of ManagedDatabaseController. What a       *)
(* reconcile plans for Secrets and users is proved for every edit of the   *)
(* object and under faults; that success means usable credentials, for a   *)
(* desired version that only moves forward and calls that do not fail.     *)
(***************************************************************************)
EXTENDS MigrationSafety_proofs

-----------------------------------------------------------------------------
(***************************************************************************)
(* The plan of a reconcile.                                                *)
(***************************************************************************)

LEMMA InitPlanInv == Init => PlanInv
BY DEF Init, LocalsInit, PlanInv, SecretsInv, UsersInv, ReadOnlyInv, Removing, Adding,
       AfterUsers

\* A reconcile that ended plans nothing.
LEMMA PlanEnds ==
    ASSUME pc' \in {"idle", "error"}, LocalsReset
    PROVE  PlanInv'
BY DEF LocalsReset, PlanInv, SecretsInv, UsersInv, ReadOnlyInv, Removing, Adding, AfterUsers

\* The plan is about no other variables than these.
LEMMA PlanKept ==
    ASSUME PlanInv, UNCHANGED <<users, secrets, controllerVars>>
    PROVE  PlanInv'
BY DEF PlanInv, SecretsInv, UsersInv, ReadOnlyInv, controllerVars, localVars

\* Steps of the reconciler keep the plan.
LEMMA ReconcilePlanInv ==
    ASSUME TypeOK, PlanInv, Reconcile
    PROVE  PlanInv'
<1> ClusterTypeOK /\ ControllerTypeOK
  BY DEF TypeOK
<1> USE DEF PlanInv, SecretsInv, UsersInv, ReadOnlyInv, Removing, Adding, AfterUsers, GoTo
<1>1. CASE pc' \in {"idle", "error"} /\ LocalsReset
  BY <1>1, PlanEnds
<1>2. CASE ~(pc' \in {"idle", "error"} /\ LocalsReset)
  <2> USE <1>2 DEF Permanent, Temporary, Fail, Return, ReportErrors
  <2>1. CASE Begin \/ GetSchemaVersion \/ WalkBack \/ LoadActiveVersion
    BY <2>1 DEF Begin, GetSchemaVersion, WalkBack, LoadActiveVersion, errorVars
  <2>2. CASE ListSecrets \/ \E s \in Migrations : CheckSecretUnused(s)
    BY <2>2 DEF ListSecrets, CheckSecretUnused, clusterVars, secretVars, serverVars
  <2>3. CASE DeleteSecret
    BY <2>3 DEF DeleteSecret, serverVars
  <2>4. CASE ListUsernames
    BY <2>4 DEF ListUsernames, clusterVars, secretVars, serverVars
  <2>5. CASE UsersRemoved \/ \E u \in Migrations : CountSessions(u)
    BY <2>5 DEF UsersRemoved, CountSessions, clusterVars, secretVars, serverVars, localVars
  <2>6. CASE DropUser
    BY <2>6 DEF DropUser, secretVars
  <2>7. CASE \E u \in Migrations : CreateUser(u)
    BY <2>7 DEF CreateUser, secretVars
  <2>8. CASE Grant \/ UsersAdded
    BY <2>8 DEF Grant, UsersAdded, clusterVars, secretVars, serverVars, localVars
  <2>9. CASE WriteCredentialsSecret
    BY <2>9 DEF WriteCredentialsSecret, serverVars
  <2>10. CASE SkipHints \/ ProcessHints \/ ListJobs \/ UpdateStatus \/ HandleError
    BY <2>10
       DEF SkipHints, ProcessHints, ListJobs, UpdateStatus, HandleError, clusterVars,
           secretVars, serverVars, localVars
  <2>11. CASE CreateJob \/ \E m \in Migrations : FoundNeededJob(m) \/ DeleteOldJob(m)
    BY <2>11
       DEF CreateJob, FoundNeededJob, DeleteOldJob, clusterVars, secretVars, serverVars,
           localVars
  <2> QED
    BY <2>1, <2>2, <2>3, <2>4, <2>5, <2>6, <2>7, <2>8, <2>9, <2>10,
       <2>11 DEF Reconcile
<1> QED
  BY <1>1, <1>2

\* Every step keeps the plan, under faults and every edit.
LEMMA NextPlanInv ==
    ASSUME TypeOK, PlanInv, [Next]_vars
    PROVE  PlanInv'
<1>1. CASE Reconcile
  BY <1>1, ReconcilePlanInv
<1>2. CASE CallFails \/ Crash
  BY <1>2, PlanEnds DEF CallFails, Crash, Permanent, Temporary, Fail, Return
<1>3. CASE \E m \in Migrations : ReconcileDatabaseMigration(m)
  BY <1>3, PlanKept DEF ReconcileDatabaseMigration, secretVars, serverVars
<1>4. CASE ClusterNext /\ UNCHANGED controllerVars
  <2>1. UNCHANGED <<users, secrets>>
    BY <1>4
       DEF ClusterNext, EditDesiredVersion, ApplyMigration, DeleteFailedJob,
           ContainerWritesVersion, ContainerExits, OrphanWritesVersion, OrphanFails,
           EditReadOnly, PodStarts, PodStops, Connect, Disconnect, SyncSecrets, SyncPods,
           SyncJobs, secretVars, serverVars
  <2> QED
    BY <1>4, <2>1, PlanKept
<1>5. CASE UNCHANGED vars
  BY <1>5, PlanKept DEF vars, clusterVars, secretVars, serverVars
<1> QED
  BY <1>1, <1>2, <1>3, <1>4, <1>5 DEF Next

(***************************************************************************)
(* Whatever the edits and the faults, what a reconcile still plans to      *)
(* remove or add covers what is still wrong with Secrets and users.        *)
(***************************************************************************)
THEOREM PlanInvariant == Spec => [](TypeOK /\ PlanInv)
<1>1. TypeOK /\ PlanInv /\ [Next]_vars => PlanInv'
  BY NextPlanInv
<1> QED
  BY <1>1, InitPlanInv, TypeCorrect, PTL DEF Spec

(***************************************************************************)
(* A user is dropped only after its Secret, unless the reconcile's cached  *)
(* list of Secrets did not show that Secret yet: wherever the desired      *)
(* version goes.                                                           *)
(***************************************************************************)
THEOREM SecretsGoFirst == Spec => SecretGoneBeforeUser
<1>1. ASSUME TypeOK, PlanInv, [Next]_vars, NEW u \in users \ users',
             u \in existingSecretSet
      PROVE  u \notin secrets
  BY <1>1, UserRemoved DEF DropUser, PlanInv, UsersInv, SecretsInv, Removing
<1>2. TypeOK /\ PlanInv /\ [Next]_vars
        => [\A u \in users \ users' : u \in existingSecretSet => u \notin secrets]_vars
  BY <1>1
<1> QED
  BY <1>2, PlanInvariant, PTL DEF Spec, SecretGoneBeforeUser

\* Outside of the credentials' steps and CREATE JOB nothing adds a user, grant or Job.
LEMMA WritesOnlyWhenPlanned ==
    ASSUME TypeOK, [Next]_vars, pc \notin Removing \cup Adding
    PROVE  UNCHANGED <<users, granted>>
<1> USE DEF clusterVars, serverVars, Removing, Adding
<1>1. CASE Reconcile
  BY <1>1
     DEF Reconcile, Begin, GetSchemaVersion, WalkBack, LoadActiveVersion, ListSecrets,
         DeleteSecret, ListUsernames, DropUser, UsersRemoved, Grant, WriteCredentialsSecret,
         UsersAdded, SkipHints, ProcessHints, ListJobs, CreateJob, UpdateStatus, HandleError,
         CheckSecretUnused, CountSessions, CreateUser, FoundNeededJob, DeleteOldJob,
         ReportErrors
<1>2. CASE CallFails \/ Crash \/ \E m \in Migrations : ReconcileDatabaseMigration(m)
  BY <1>2 DEF CallFails, Crash, ReconcileDatabaseMigration
<1>3. CASE ClusterNext
  BY <1>3
     DEF ClusterNext, EditDesiredVersion, ApplyMigration, DeleteFailedJob,
         ContainerWritesVersion, ContainerExits, OrphanWritesVersion, OrphanFails,
         EditReadOnly, PodStarts, PodStops, Connect, Disconnect, SyncSecrets, SyncPods,
         SyncJobs
<1> QED
  BY <1>1, <1>2, <1>3 DEF Next, vars

\* Only CREATE JOB makes a Job, and not in a read-only reconcile.
LEMMA JobsOnlyWhenWritable ==
    ASSUME TypeOK, [Next]_vars, dbReadOnly, NEW m \in Migrations, jobs[m] = "none"
    PROVE  jobs'[m] = "none"
<1> USE DEF clusterVars, jobVars
<1>1. CASE Reconcile
  <2>1. CASE UNCHANGED jobs
    BY <2>1
  <2>2. CASE \E n \in Migrations : DeleteOldJob(n)
    BY <2>2 DEF DeleteOldJob, TypeOK, ClusterTypeOK
  <2> QED
    BY <1>1, <2>1, <2>2
       DEF Reconcile, Begin, GetSchemaVersion, WalkBack, LoadActiveVersion, ListSecrets,
           DeleteSecret, ListUsernames, DropUser, UsersRemoved, Grant,
           WriteCredentialsSecret, UsersAdded, SkipHints, ProcessHints, ListJobs, CreateJob,
           UpdateStatus, HandleError, CheckSecretUnused, CountSessions, CreateUser,
           FoundNeededJob, ReportErrors
<1>2. CASE CallFails \/ Crash \/ \E n \in Migrations : ReconcileDatabaseMigration(n)
  BY <1>2 DEF CallFails, Crash, ReconcileDatabaseMigration
<1>3. CASE ClusterNext
  <2>1. ASSUME NEW n \in Migrations,
               \/ DeleteFailedJob(n) \/ ContainerWritesVersion(n)
               \/ \E state \in {"succeeded", "failed"} : ContainerExits(n, state)
        PROVE  jobs'[m] = "none"
    BY <2>1
       DEF DeleteFailedJob, ContainerWritesVersion, ContainerExits, TypeOK, ClusterTypeOK
  <2> QED
    BY <1>3, <2>1
       DEF ClusterNext, EditDesiredVersion, ApplyMigration, OrphanWritesVersion, OrphanFails,
           EditReadOnly, PodStarts, PodStops, Connect, Disconnect, SyncSecrets, SyncPods,
           SyncJobs
<1> QED
  BY <1>1, <1>2, <1>3 DEF Next, vars

(***************************************************************************)
(* A reconcile that read the database as read-only changes no user and     *)
(* starts no migration, under faults and wherever the object's desired     *)
(* version and read-only flag go meanwhile.                                *)
(***************************************************************************)
THEOREM ReadOnlyKept == Spec => ReadOnlyRespected
<1>1. TypeOK /\ PlanInv /\ [Next]_vars
        => [dbReadOnly =>
               /\ users' = users /\ granted' = granted
               /\ \A m \in Migrations : jobs[m] = "none" => jobs'[m] = "none"]_vars
  BY WritesOnlyWhenPlanned, JobsOnlyWhenWritable DEF PlanInv, ReadOnlyInv
<1> QED
  BY <1>1, PlanInvariant, PTL DEF Spec, ReadOnlyRespected

-----------------------------------------------------------------------------
(***************************************************************************)
(* Success means usable credentials.                                       *)
(***************************************************************************)

\* Two versions on each other's chain are one.
LEMMA ChainAntisymmetric ==
    ASSUME NEW x \in Migrations, NEW y \in Migrations, x \in Chain(y), y \in Chain(x)
    PROVE  x = y
<1> SUFFICES ASSUME x # y PROVE FALSE
  OBVIOUS
<1>1. x \in Chain(Previous[y])
  BY ChainStep
<1> QED
  BY <1>1, ChainTransitive, AcyclicAssumption

\* The chain of a version is that of the one before it and the version itself.
LEMMA ChainGrows ==
    ASSUME NEW m \in Migrations
    PROVE  Chain(Previous[m]) \subseteq Chain(m)
<1>1. CASE Previous[m] = NoVersion
  BY <1>1, ChainEmpty
<1>2. CASE Previous[m] # NoVersion
  BY <1>2, ChainSelf, ChainClosed, ChainTransitive
<1> QED
  BY <1>1, <1>2

LEMMA InitCredentialsInv == Init => CredentialsInv
BY DEF Init, ClusterInit, CredentialsInv, UsersOnChain, UsersAccounted, ReadPublished,
       WalkPublished, WantedPublished, AfterWalk, Removing, Adding, AfterUsers

\* A user that is not wanted stays so when the version or the desired version moves.
LEMMA RetiredStays ==
    ASSUME TypeOK, NEW u \in Chain(version), Retired(u),
           \/ version' = version
           \/ version' \in Migrations /\ Previous[version'] = version,
           \/ desired' = desired
           \/ /\ version' = version
              /\ desired' \in Migrations /\ desired' # desired
              /\ desired # NoVersion => desired \in Chain(desired')
    PROVE  Retired(u)'
<1>1. CASE version' = version /\ desired' = desired
  BY <1>1 DEF Retired
<1>2. CASE version' \in Migrations /\ Previous[version'] = version
  <2>1. u # version'
    BY <1>2, AcyclicAssumption
  <2> QED
    BY <1>2, <2>1 DEF Retired
<1>3. CASE version' = version /\ desired' # desired
  <2> SUFFICES ASSUME u = Previous[version]
               PROVE  version \in Chain(desired') \ {desired'}
    BY <1>3 DEF Retired
  <2>1. version \in Chain(desired) \ {desired} /\ version \in Migrations
    BY DEF Retired, Chain
  <2>2. desired # NoVersion /\ desired \in Migrations
    BY <2>1, ChainEmpty DEF TypeOK, ClusterTypeOK, Versions
  <2>3. desired \in Chain(desired') /\ desired' \in Migrations
    BY <1>3, <2>2
  <2>4. version \in Chain(desired')
    BY <2>1, <2>3, ChainTransitive
  <2>5. version # desired'
    BY <2>1, <2>2, <2>3, ChainAntisymmetric
  <2> QED
    BY <2>4, <2>5
<1> QED
  BY <1>1, <1>2, <1>3

\* When a reconcile ends, only the account of the users is left.
LEMMA CredentialsEnd ==
    ASSUME CredentialsInv, pc' \in {"idle", "error"},
           UNCHANGED <<users, granted, secrets, version, desired>>,
           \A u \in users : InCreation(u) => Published(u)
    PROVE  CredentialsInv'
BY DEF CredentialsInv, UsersOnChain, UsersAccounted, ReadPublished, WalkPublished,
       WantedPublished, Published, InCreation, Retired, AfterWalk, Removing, Adding,
       AfterUsers

\* People and containers move the desired version and the version forward.
LEMMA ClusterKeepsCredentials ==
    ASSUME ForwardOnly, TypeOK, ForwardInv, CredentialsInv, ClusterNext,
           UNCHANGED controllerVars
    PROVE  CredentialsInv'
<1> USE DEF CredentialsInv, controllerVars, localVars
<1>1. UNCHANGED <<users, secrets, granted>>
  BY DEF ClusterNext, EditDesiredVersion, ApplyMigration, DeleteFailedJob,
         ContainerWritesVersion, ContainerExits, OrphanWritesVersion, OrphanFails,
         EditReadOnly, PodStarts, PodStops, Connect, Disconnect, SyncSecrets, SyncPods,
         SyncJobs, secretVars, serverVars
<1>2. /\ \/ version' = version
         \/ version' \in Migrations /\ Previous[version'] = version
      /\ \/ desired' = desired
         \/ /\ version' = version
            /\ desired' \in Migrations /\ desired' # desired
            /\ desired # NoVersion => desired \in Chain(desired')
  <2>1. ASSUME NEW m \in Migrations, OrphanWritesVersion(m) \/ OrphanFails(m) PROVE FALSE
    BY <2>1 DEF OrphanWritesVersion, OrphanFails, ForwardInv, NoOrphans
  <2>2. ASSUME NEW m \in Migrations, ContainerWritesVersion(m)
        PROVE  version' \in Migrations /\ Previous[version'] = version /\ desired' = desired
    BY <2>2 DEF ContainerWritesVersion, ForwardInv, MigratingInv, Migrating, objectVars
  <2> QED
    BY <2>1, <2>2
       DEF ClusterNext, EditDesiredVersion, ApplyMigration, DeleteFailedJob, ContainerExits,
           EditReadOnly, PodStarts, PodStops, Connect, Disconnect, SyncSecrets, SyncPods,
           SyncJobs, objectVars, serverVars
<1>3. UsersOnChain'
  BY <1>1, <1>2, ChainGrows DEF UsersOnChain
<1>4. UsersAccounted'
  BY <1>1, <1>2, RetiredStays
     DEF UsersOnChain, UsersAccounted, Published, InCreation
<1>5. ReadPublished'
  BY <1>1, <1>2, AcyclicAssumption DEF UsersOnChain, ReadPublished, Published
<1>6. WalkPublished' /\ WantedPublished'
  BY <1>1 DEF WalkPublished, WantedPublished, Published, InCreation
<1> QED
  BY <1>3, <1>4, <1>5, <1>6

\* Up to the credentials: the versions that will be wanted are followed from the read on.
LEMMA WalkKeepsCredentials ==
    ASSUME TypeOK, ForwardInv, CredentialsInv,
           Begin \/ GetSchemaVersion \/ WalkBack \/ LoadActiveVersion
    PROVE  CredentialsInv'
<1> ClusterTypeOK /\ ControllerTypeOK
  BY DEF TypeOK
<1> USE DEF CredentialsInv
<1>1. /\ UNCHANGED <<users, granted, secrets, version, desired>>
      /\ \A u : ~InCreation(u)
  BY DEF Begin, GetSchemaVersion, WalkBack, LoadActiveVersion, clusterVars, objectVars,
         secretVars, serverVars, InCreation
<1>2. CASE pc' \in {"idle", "error"}
  BY <1>1, <1>2, CredentialsEnd
<1>3. CASE pc' \notin {"idle", "error"}
  <2>1. pc' \notin {"grant", "writeSecret"}
    BY <1>3
       DEF Begin, GetSchemaVersion, WalkBack, LoadActiveVersion, GoTo, Permanent, Fail
  <2>2. UsersOnChain' /\ UsersAccounted'
    BY <1>1, <2>1 DEF UsersOnChain, UsersAccounted, Published, InCreation, Retired
  <2>3. CASE Begin
    <3>1. ReadPublished'
      BY <1>1, <2>3 DEF Begin, UsersAccounted, Published, Retired, ReadPublished, GoTo
    <3> QED
      BY <2>2, <2>3, <3>1
         DEF Begin, GoTo, WalkPublished, WantedPublished, AfterWalk, Removing, Adding,
             AfterUsers
  <2>4. CASE GetSchemaVersion
    <3>1. WalkPublished'
      BY <1>1, <2>4 DEF GetSchemaVersion, ReadPublished, Published, WalkPublished, GoTo
    <3> QED
      BY <2>2, <2>4, <3>1
         DEF GetSchemaVersion, GoTo, ReadPublished, WantedPublished, AfterWalk, Removing,
             Adding, AfterUsers
  <2>5. CASE WalkBack
    <3>1. /\ pc = "walk" /\ pc' = "walk" /\ UNCHANGED currentDbVersion
          /\ nextVersion' \in Migrations
      BY <1>3, <2>5 DEF WalkBack, Permanent, Fail, ClusterTypeOK
    <3>2. nextVersion' # NoVersion
      BY <3>1, ClusterAssumption
    <3>3. WalkPublished'
      BY <1>1, <3>1, <3>2 DEF WalkPublished, Published
    <3> QED
      BY <2>2, <3>1, <3>3
         DEF ReadPublished, WantedPublished, AfterWalk, Removing, Adding, AfterUsers
  <2>6. CASE LoadActiveVersion
    <3>1. /\ pc = "walk" /\ needVersion = currentDbVersion /\ pc' = "listSecrets"
          /\ secretNames' = DesiredVersionNames(currentDbVersion, nextVersion)
      BY <1>3, <2>6 DEF LoadActiveVersion, GoTo, Fail
    <3>2. WantedPublished'
      BY <1>1, <3>1 DEF WalkPublished, WantedPublished, Published, DesiredVersionNames
    <3> QED
      BY <2>2, <3>1, <3>2 DEF ReadPublished, WalkPublished
  <2> QED
    BY <2>3, <2>4, <2>5, <2>6
<1> QED
  BY <1>2, <1>3

\* Steps of the reconcile after the walk that write neither users nor Secrets.
LEMMA CredentialsCarried ==
    ASSUME CredentialsInv, pc \in AfterWalk, pc' \in AfterWalk,
           pc \notin {"grant", "writeSecret"}, pc' \notin {"grant", "writeSecret"},
           UNCHANGED <<users, granted, secrets, version, desired, secretNames>>
    PROVE  CredentialsInv'
<1>1. \A u : ~InCreation(u) /\ ~InCreation(u)'
  BY DEF InCreation
<1> QED
  BY <1>1
     DEF CredentialsInv, UsersOnChain, UsersAccounted, ReadPublished, WalkPublished,
         WantedPublished, Published, Retired, AfterWalk, Removing, Adding, AfterUsers

LEMMA ChecksKeepCredentials ==
    ASSUME CredentialsInv,
           \/ ListSecrets \/ ListUsernames \/ UsersRemoved \/ UsersAdded
           \/ SkipHints \/ ProcessHints \/ ListJobs \/ CreateJob \/ UpdateStatus \/ HandleError
           \/ \E m \in Migrations : \/ CheckSecretUnused(m) \/ CountSessions(m)
                                    \/ FoundNeededJob(m) \/ DeleteOldJob(m)
    PROVE  CredentialsInv'
<1>1. UNCHANGED <<users, granted, secrets, version, desired>>
  BY DEF ListSecrets, ListUsernames, UsersRemoved, UsersAdded, SkipHints, ProcessHints,
         ListJobs, CreateJob, UpdateStatus, HandleError, CheckSecretUnused, CountSessions,
         FoundNeededJob, DeleteOldJob, ReportErrors, clusterVars, objectVars, secretVars,
         serverVars
<1>2. pc \notin {"grant", "writeSecret"}
  BY DEF ListSecrets, ListUsernames, UsersRemoved, UsersAdded, SkipHints, ProcessHints,
         ListJobs, CreateJob, UpdateStatus, HandleError, CheckSecretUnused, CountSessions,
         FoundNeededJob, DeleteOldJob
<1>3. CASE pc' \in {"idle", "error"}
  BY <1>1, <1>2, <1>3, CredentialsEnd DEF InCreation
<1>4. CASE pc' \notin {"idle", "error"}
  <2>1. /\ pc \in AfterWalk /\ pc' \in AfterWalk /\ pc' \notin {"grant", "writeSecret"}
        /\ UNCHANGED secretNames
    BY <1>4
       DEF ListSecrets, ListUsernames, UsersRemoved, UsersAdded, SkipHints, ProcessHints,
           ListJobs, CreateJob, UpdateStatus, HandleError, CheckSecretUnused, CountSessions,
           FoundNeededJob, DeleteOldJob, ReportErrors, Permanent, Temporary, Fail, Return,
           GoTo, localVars, AfterWalk, Removing, Adding, AfterUsers
  <2> QED
    BY <1>1, <1>2, <2>1, CredentialsCarried
<1> QED
  BY <1>3, <1>4

(***************************************************************************)
(* The Secret that is deleted is wanted neither now nor later: had its     *)
(* user been created for the database's version, or for the one before it  *)
(* at rest, the reconcile would have wanted it.                            *)
(***************************************************************************)
LEMMA DeleteSecretKeepsCredentials ==
    ASSUME TypeOK, ForwardInv, PlanInv, CredentialsInv, DeleteSecret
    PROVE  CredentialsInv'
<1> ClusterTypeOK /\ ControllerTypeOK
  BY DEF TypeOK
<1>1. /\ pc = "deleteSecret" /\ pc \in AfterWalk
      /\ UNCHANGED <<users, granted, version, desired>>
      /\ \A u : ~InCreation(u)
  BY DEF DeleteSecret, objectVars, serverVars, AfterWalk, InCreation
<1>2. CASE UNCHANGED secrets /\ Permanent
  BY <1>1, <1>2, CredentialsEnd DEF Permanent, Fail
<1>3. CASE ~(UNCHANGED secrets /\ Permanent)
  <2>1. /\ secrets' = secrets \ {target} /\ pc' = "removeSecrets"
        /\ UNCHANGED secretNames
    BY <1>3 DEF DeleteSecret, GoTo
  <2>2. target \notin secretNames
    BY <1>1 DEF PlanInv
  <2>3. ASSUME target \in users PROVE Retired(target)
    <3>1. /\ secretNames = DesiredVersionNames(currentDbVersion, nextVersion)
          /\ target # NoVersion
      BY <1>1, <2>3, ClusterAssumption DEF ForwardInv, ContextInv, ClusterTypeOK
    <3>2. target # currentDbVersion
      BY <2>2, <3>1 DEF DesiredVersionNames
    <3>3. version = currentDbVersion
      BY <1>1, <2>3, <3>2 DEF ForwardInv, ContextInv
    <3>4. ASSUME target = Previous[version] PROVE version \in Chain(desired) \ {desired}
      <4>1. version \in Migrations /\ version # NoVersion
        BY <2>3, ChainEmpty, ClusterAssumption
           DEF CredentialsInv, UsersOnChain, ClusterTypeOK, Versions
      <4>2. nextVersion # NoVersion
        BY <2>2, <3>1, <3>3, <3>4, <4>1 DEF DesiredVersionNames
      <4>3. /\ nextVersion \in Chain(desired) /\ Previous[nextVersion] = version
            /\ nextVersion \in Migrations
        BY <1>1, <3>3, <4>2 DEF ForwardInv, ContextInv, ControllerTypeOK, Versions
      <4> QED
        BY <4>1, <4>3, ChainClosed, AcyclicAssumption
    <3> QED
      BY <3>2, <3>3, <3>4 DEF Retired
  <2>4. UsersAccounted'
    BY <1>1, <2>1, <2>3
       DEF CredentialsInv, UsersAccounted, Published, Retired
  <2>5. WantedPublished'
    BY <1>1, <2>1, <2>2 DEF CredentialsInv, WantedPublished, Published
  <2> QED
    BY <1>1, <2>1, <2>4, <2>5 DEF CredentialsInv, UsersOnChain, ReadPublished, WalkPublished
<1> QED
  BY <1>2, <1>3

\* DROP USER takes the user with its grant, and CREATE USER starts one that is wanted.
LEMMA UsersKeepCredentials ==
    ASSUME TypeOK, ForwardInv, PlanInv, CredentialsInv,
           DropUser \/ \E u \in Migrations : CreateUser(u)
    PROVE  CredentialsInv'
<1> ClusterTypeOK /\ ControllerTypeOK
  BY DEF TypeOK
<1> USE DEF CredentialsInv
<1>1. CASE DropUser
  <2>1. /\ pc = "dropUser" /\ pc' = "removeUsers"
        /\ users' = users \ {target} /\ granted' = granted \ {target}
        /\ UNCHANGED <<secrets, version, desired, secretNames>>
    BY <1>1 DEF DropUser, GoTo, objectVars, secretVars
  <2>2. \A u : ~InCreation(u)
    BY <2>1 DEF InCreation
  <2>3. \A u \in users' : Published(u) => Published(u)'
    BY <2>1 DEF Published
  <2>4. UsersOnChain' /\ UsersAccounted'
    BY <2>1, <2>2, <2>3 DEF UsersOnChain, UsersAccounted, Retired
  <2>5. WantedPublished'
    BY <2>1, <2>2, <2>3 DEF WantedPublished, AfterWalk, Removing
  <2> QED
    BY <2>1, <2>4, <2>5 DEF ReadPublished, WalkPublished
<1>2. ASSUME NEW u \in Migrations, CreateUser(u) PROVE CredentialsInv'
  <2>1. /\ pc = "addUsers" /\ pc \in AfterWalk /\ pc' = "grant" /\ target' = u
        /\ u \in dbUsersToAdd /\ users' = users \cup {u}
        /\ UNCHANGED <<granted, secrets, version, desired, secretNames>>
    BY <1>2 DEF CreateUser, GoTo, objectVars, secretVars, AfterWalk, Adding
  <2>2. InCreation(u)' /\ \A x : ~InCreation(x)
    BY <2>1 DEF InCreation
  <2>3. u \in Chain(version)
    <3>1. u \in DesiredVersionNames(currentDbVersion, nextVersion)
      BY <2>1 DEF ForwardInv, UsersInv, ContextInv, Adding
    <3>2. currentDbVersion \in Migrations
      BY <3>1 DEF DesiredVersionNames, ControllerTypeOK, Versions
    <3>3. u \in Chain(currentDbVersion)
      BY <3>1, <3>2, ChainSelf, ChainClosed, ClusterAssumption DEF DesiredVersionNames
    <3>4. Chain(currentDbVersion) \subseteq Chain(version)
      BY <2>1, ChainGrows DEF ForwardInv, ContextInv, ControllerTypeOK, Versions
    <3> QED
      BY <3>3, <3>4
  <2>4. UsersOnChain' /\ UsersAccounted'
    BY <2>1, <2>2, <2>3 DEF UsersOnChain, UsersAccounted, Published, Retired
  <2>5. WantedPublished'
    BY <2>1, <2>2 DEF WantedPublished, Published
  <2> QED
    BY <2>1, <2>4, <2>5 DEF ReadPublished, WalkPublished
<1> QED
  BY <1>1, <1>2

\* GRANT and the Secret complete the user that was created.
LEMMA CreationKeepsCredentials ==
    ASSUME CredentialsInv, PlanInv, Grant \/ WriteCredentialsSecret
    PROVE  CredentialsInv'
<1> USE DEF CredentialsInv
<1>1. CASE Grant
  <2>1. /\ pc = "grant" /\ pc' = "writeSecret" /\ granted' = granted \cup {target}
        /\ UNCHANGED <<users, secrets, version, desired, secretNames, target>>
    BY <1>1 DEF Grant, GoTo, objectVars, secretVars, localVars
  <2>2. \A u : InCreation(u) => InCreation(u)'
    BY <2>1 DEF InCreation
  <2>3. UsersOnChain' /\ UsersAccounted' /\ WantedPublished'
    BY <2>1, <2>2
       DEF UsersOnChain, UsersAccounted, WantedPublished, Published, Retired, AfterWalk, Adding
  <2> QED
    BY <2>1, <2>3 DEF ReadPublished, WalkPublished
<1>2. CASE WriteCredentialsSecret
  <2>1. /\ pc = "writeSecret" /\ secrets' = secrets \cup {target}
        /\ UNCHANGED <<users, granted, version, desired>>
    BY <1>2 DEF WriteCredentialsSecret, objectVars, serverVars
  <2>2. \A u : InCreation(u) => Published(u)'
    BY <2>1 DEF InCreation, Published
  <2>3. CASE UNCHANGED secrets /\ Permanent
    BY <2>1, <2>2, <2>3, CredentialsEnd DEF Permanent, Fail, Published
  <2>4. CASE ~(UNCHANGED secrets /\ Permanent)
    <3>1. pc' = "addUsers" /\ UNCHANGED secretNames
      BY <1>2, <2>4 DEF WriteCredentialsSecret, GoTo
    <3>2. UsersOnChain' /\ UsersAccounted' /\ WantedPublished'
      BY <2>1, <2>2, <3>1
         DEF UsersOnChain, UsersAccounted, WantedPublished, Published, Retired, AfterWalk,
             Adding
    <3> QED
      BY <3>1, <3>2 DEF ReadPublished, WalkPublished
  <2> QED
    BY <2>3, <2>4
<1> QED
  BY <1>1, <1>2

\* Every step keeps the credentials' invariant if no call fails.
LEMMA NextCredentialsInv ==
    ASSUME ForwardOnly, ~Faults, TypeOK, ForwardInv, PlanInv, CredentialsInv, [Next]_vars
    PROVE  CredentialsInv'
<1>1. CASE Reconcile
  BY <1>1, WalkKeepsCredentials, ChecksKeepCredentials, DeleteSecretKeepsCredentials,
     UsersKeepCredentials, CreationKeepsCredentials DEF Reconcile
<1>2. CASE CallFails \/ Crash
  BY <1>2 DEF CallFails, Crash
<1>3. CASE ClusterNext /\ UNCHANGED controllerVars
  BY <1>3, ClusterKeepsCredentials
<1>4. CASE UNCHANGED <<users, granted, secrets, version, desired, controllerVars>>
  BY <1>4
     DEF CredentialsInv, UsersOnChain, UsersAccounted, ReadPublished, WalkPublished,
         WantedPublished, Published, InCreation, Retired, controllerVars, localVars
<1>5. CASE \/ UNCHANGED vars
           \/ \E m \in Migrations : ReconcileDatabaseMigration(m)
  BY <1>4, <1>5
     DEF ReconcileDatabaseMigration, vars, clusterVars, objectVars, secretVars, serverVars
<1> QED
  BY <1>1, <1>2, <1>3, <1>5 DEF Next

(***************************************************************************)
(* When no call fails and the desired version only moves forward, a user   *)
(* whose Secret or grant is missing is one no reconcile will want again.   *)
(***************************************************************************)
THEOREM CredentialsInvariant ==
    ASSUME ForwardOnly, ~Faults
    PROVE  Spec => []CredentialsInv
<1>1. TypeOK /\ ForwardInv /\ PlanInv /\ CredentialsInv /\ [Next]_vars => CredentialsInv'
  BY NextCredentialsInv
<1> QED
  BY <1>1, InitCredentialsInv, ReconcileInvariant, PlanInvariant, PTL DEF Spec

(***************************************************************************)
(* When no call fails and the desired version only moves forward, a        *)
(* reconcile about to report success leaves every wanted user in place,    *)
(* with its grant and its Secret.                                          *)
(***************************************************************************)
THEOREM SuccessIsUsable ==
    ASSUME ForwardOnly, ~Faults
    PROVE  Spec => []SuccessMeansCredentials
<1>1. PlanInv /\ CredentialsInv => SuccessMeansCredentials
  BY DEF PlanInv, CredentialsInv, WantedPublished, SuccessMeansCredentials, Published,
         InCreation, AfterWalk, AfterUsers
<1> QED
  BY <1>1, CredentialsInvariant, PlanInvariant, PTL
=============================================================================
