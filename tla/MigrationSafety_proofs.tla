------------------------ MODULE MigrationSafety_proofs ------------------------
(***************************************************************************)
(* Proofs about ManagedDatabaseController, for every set of migrations,    *)
(* every acyclic Previous, every set of applications and every combination *)
(* of the other constants.                                                 *)
(***************************************************************************)
EXTENDS MigrationInvariant, TLAPS

-----------------------------------------------------------------------------
(***************************************************************************)
(* Type correctness.                                                       *)
(***************************************************************************)

\* A step that leaves the cluster alone keeps the types of its variables.
LEMMA ClusterUnchangedTyped ==
    ClusterTypeOK /\ UNCHANGED clusterVars => ClusterTypeOK'
BY DEF ClusterTypeOK, clusterVars, objectVars, secretVars, podVars, jobVars, serverVars

\* A step that leaves the reconciler alone keeps the types of its variables.
LEMMA ControllerUnchangedTyped ==
    ControllerTypeOK /\ UNCHANGED controllerVars => ControllerTypeOK'
BY DEF ControllerTypeOK, controllerVars, localVars, errorVars

\* The cleared local variables of a reconcile that ended are well typed.
LEMMA ResetTyped ==
    ASSUME LocalsReset, pc' \in Steps, err' \in ErrorKinds,
           causingMigration' \in Versions \cup {DatabaseName}
    PROVE  ControllerTypeOK'
BY DEF ControllerTypeOK, LocalsReset, Versions, NoJobs, JobViews

\* Giving up with an error keeps the reconciler's types.
LEMMA FailTyped ==
    ASSUME NEW kind \in ErrorKinds, NEW m \in Versions \cup {DatabaseName}, Fail(kind, m)
    PROVE  ControllerTypeOK'
<1>1. pc' \in Steps /\ err' \in ErrorKinds /\ causingMigration' \in Versions \cup {DatabaseName}
  BY DEF Fail, Steps
<1>2. LocalsReset
  BY DEF Fail
<1> QED
  BY <1>1, <1>2, ResetTyped

LEMMA PermanentTyped == Permanent => ControllerTypeOK'
BY FailTyped DEF Permanent, ErrorKinds, Versions

LEMMA TemporaryTyped == Temporary => ControllerTypeOK'
BY FailTyped DEF Temporary, ErrorKinds, Versions

\* Returning keeps the reconciler's types.
LEMMA ReturnTyped == Return => ControllerTypeOK'
<1> SUFFICES ASSUME Return PROVE ControllerTypeOK'
  OBVIOUS
<1>1. pc' \in Steps /\ err' \in ErrorKinds /\ causingMigration' \in Versions \cup {DatabaseName}
  BY DEF Return, Steps, ErrorKinds, Versions
<1>2. LocalsReset
  BY DEF Return
<1> QED
  BY <1>1, <1>2, ResetTyped

\* The initial state is well typed.
LEMMA InitTyped == Init => TypeOK
<1> SUFFICES ASSUME Init PROVE TypeOK
  OBVIOUS
<1>1. NoJobs \in [Migrations -> JobStates] /\ NoJobs \in [Migrations -> JobViews]
  BY DEF NoJobs, JobStates, JobViews
<1>2. orphans \in [Migrations -> 0..MaxOrphans]
  BY ClusterAssumption DEF Init, ClusterInit
<1>3. ClusterTypeOK
  BY <1>1, <1>2, ClusterAssumption
     DEF Init, ClusterInit, ClusterTypeOK, Versions, ErrorKinds
<1>4. ControllerTypeOK
  BY <1>1 DEF Init, LocalsInit, ControllerTypeOK, Versions, ErrorKinds, Steps
<1> QED
  BY <1>3, <1>4 DEF TypeOK

\* Steps of the cluster keep the types of its variables.
LEMMA ClusterNextTyped == ClusterTypeOK /\ ClusterNext => ClusterTypeOK'
<1> SUFFICES ASSUME ClusterTypeOK, ClusterNext PROVE ClusterTypeOK'
  OBVIOUS
<1> USE ClusterAssumption DEF objectVars, secretVars, podVars, jobVars, serverVars
<1>1. ASSUME NEW m \in Migrations, EditDesiredVersion(m) PROVE ClusterTypeOK'
  BY <1>1 DEF ClusterTypeOK, EditDesiredVersion, Versions
<1>2. ASSUME NEW m \in Migrations, ApplyMigration(m) PROVE ClusterTypeOK'
  BY <1>2 DEF ClusterTypeOK, ApplyMigration
<1>3. ASSUME NEW m \in Migrations, DeleteFailedJob(m) PROVE ClusterTypeOK'
  BY <1>3 DEF ClusterTypeOK, DeleteFailedJob, JobStates
<1>4. ASSUME NEW m \in Migrations, ContainerWritesVersion(m) PROVE ClusterTypeOK'
  BY <1>4 DEF ClusterTypeOK, ContainerWritesVersion, JobStates, Versions
<1>5. ASSUME NEW m \in Migrations, NEW state \in {"succeeded", "failed"},
             ContainerExits(m, state)
      PROVE  ClusterTypeOK'
  BY <1>5 DEF ClusterTypeOK, ContainerExits, JobStates
<1>6. ASSUME NEW m \in Migrations, OrphanWritesVersion(m) PROVE ClusterTypeOK'
  BY <1>6 DEF ClusterTypeOK, OrphanWritesVersion, Versions
<1>7. ASSUME NEW m \in Migrations, OrphanFails(m) PROVE ClusterTypeOK'
  BY <1>7 DEF ClusterTypeOK, OrphanFails
<1>8. ASSUME NEW r \in ReadOnlyEdits, EditReadOnly(r) PROVE ClusterTypeOK'
  BY <1>8 DEF ClusterTypeOK, EditReadOnly
<1>9. ASSUME NEW a \in Apps, PodStarts(a) \/ PodStops(a) \/ Connect(a) \/ Disconnect(a)
      PROVE  ClusterTypeOK'
  BY <1>9 DEF ClusterTypeOK, PodStarts, PodStops, Connect, Disconnect
<1>10. ASSUME SyncSecrets \/ SyncPods PROVE ClusterTypeOK'
  BY <1>10 DEF ClusterTypeOK, SyncSecrets, SyncPods
<1>11. ASSUME SyncJobs PROVE ClusterTypeOK'
  BY <1>11 DEF ClusterTypeOK, SyncJobs, JobsSeen, ViewOf, JobStates, JobViews
<1> QED
  BY <1>1, <1>2, <1>3, <1>4, <1>5, <1>6, <1>7, <1>8, <1>9, <1>10, <1>11 DEF ClusterNext

\* The set of credentials wanted never holds the empty version.
LEMMA DesiredVersionNamesTyped ==
    ASSUME NEW active \in Versions, NEW next \in Versions
    PROVE  DesiredVersionNames(active, next) \in SUBSET Migrations
BY ClusterAssumption DEF DesiredVersionNames, Versions

\* Steps of the reconciler keep every type.
LEMMA ReconcileTyped == TypeOK /\ TargetNamed /\ Reconcile => TypeOK'
<1> SUFFICES ASSUME TypeOK, TargetNamed, Reconcile PROVE TypeOK'
  OBVIOUS
<1> ClusterTypeOK /\ ControllerTypeOK
  BY DEF TypeOK
<1> USE DEF GoTo, Steps, localVars, errorVars
<1>1. CASE Begin
  <2>1. ClusterTypeOK'
    BY <1>1 DEF Begin, ClusterTypeOK, secretVars, podVars, jobVars, serverVars
  <2>2. ControllerTypeOK'
    BY <1>1 DEF Begin, ClusterTypeOK, ControllerTypeOK
  <2> QED
    BY <2>1, <2>2 DEF TypeOK
<1>2. CASE GetSchemaVersion
  <2>1. ClusterTypeOK'
    BY <1>2, ClusterUnchangedTyped DEF GetSchemaVersion
  <2>2. ControllerTypeOK'
    BY <1>2 DEF GetSchemaVersion, ClusterTypeOK, ControllerTypeOK
  <2> QED
    BY <2>1, <2>2 DEF TypeOK
<1>3. CASE WalkBack
  <2>1. ClusterTypeOK'
    BY <1>3, ClusterUnchangedTyped DEF WalkBack
  <2>2. CASE Permanent \/ Fail("permanent", needVersion)
    BY <2>1, <2>2, PermanentTyped, FailTyped DEF TypeOK, ControllerTypeOK, ErrorKinds
  <2>3. CASE ~(Permanent \/ Fail("permanent", needVersion))
    BY <1>3, <2>1, <2>3, ClusterAssumption
       DEF WalkBack, TypeOK, ClusterTypeOK, ControllerTypeOK, Versions
  <2> QED
    BY <2>2, <2>3
<1>4. CASE LoadActiveVersion
  <2>1. ClusterTypeOK'
    BY <1>4, ClusterUnchangedTyped DEF LoadActiveVersion
  <2>2. CASE Fail("permanent", currentDbVersion)
    BY <2>1, <2>2, FailTyped DEF TypeOK, ControllerTypeOK, ErrorKinds
  <2>3. CASE ~Fail("permanent", currentDbVersion)
    <3>1. secretNames' \in SUBSET Migrations
      BY <1>4, <2>3, DesiredVersionNamesTyped DEF LoadActiveVersion, ControllerTypeOK
    <3>2. ControllerTypeOK'
      BY <1>4, <2>3, <3>1 DEF LoadActiveVersion, ControllerTypeOK, Versions
    <3> QED
      BY <2>1, <3>2 DEF TypeOK
  <2> QED
    BY <2>2, <2>3
<1>5. CASE ListSecrets
  <2>1. ClusterTypeOK'
    BY <1>5, ClusterUnchangedTyped DEF ListSecrets
  <2>2. ControllerTypeOK'
    BY <1>5 DEF ListSecrets, ClusterTypeOK, ControllerTypeOK
  <2> QED
    BY <2>1, <2>2 DEF TypeOK
<1>6. ASSUME NEW s \in Migrations, CheckSecretUnused(s) PROVE TypeOK'
  <2>1. ClusterTypeOK'
    BY <1>6, ClusterUnchangedTyped DEF CheckSecretUnused
  <2>2. CASE Permanent
    BY <2>1, <2>2, PermanentTyped DEF TypeOK
  <2>3. CASE ~Permanent
    BY <1>6, <2>1, <2>3 DEF CheckSecretUnused, TypeOK, ControllerTypeOK, Versions
  <2> QED
    BY <2>2, <2>3
<1>7. CASE DeleteSecret
  <2>1. ClusterTypeOK'
    BY <1>7 DEF DeleteSecret, ClusterTypeOK, objectVars, podVars, jobVars, serverVars
  <2>2. CASE Permanent
    BY <2>1, <2>2, PermanentTyped DEF TypeOK
  <2>3. CASE ~Permanent
    BY <1>7, <2>1, <2>3 DEF DeleteSecret, TypeOK, ControllerTypeOK, Versions
  <2> QED
    BY <2>2, <2>3
<1>8. CASE ListUsernames
  <2>1. ClusterTypeOK'
    BY <1>8, ClusterUnchangedTyped DEF ListUsernames
  <2>2. CASE Permanent
    BY <2>1, <2>2, PermanentTyped DEF TypeOK
  <2>3. CASE ~Permanent
    BY <1>8, <2>1, <2>3 DEF ListUsernames, TypeOK, ClusterTypeOK, ControllerTypeOK
  <2> QED
    BY <2>2, <2>3
<1>9. ASSUME NEW u \in Migrations, CountSessions(u) PROVE TypeOK'
  <2>1. ClusterTypeOK'
    BY <1>9, ClusterUnchangedTyped DEF CountSessions
  <2>2. CASE Temporary
    BY <2>1, <2>2, TemporaryTyped DEF TypeOK
  <2>3. CASE ~Temporary
    BY <1>9, <2>1, <2>3 DEF CountSessions, TypeOK, ControllerTypeOK, Versions
  <2> QED
    BY <2>2, <2>3
<1>10. CASE DropUser
  <2>1. ClusterTypeOK'
    BY <1>10 DEF DropUser, ClusterTypeOK, objectVars, secretVars, podVars, jobVars
  <2>2. ControllerTypeOK'
    BY <1>10 DEF DropUser, ControllerTypeOK, Versions
  <2> QED
    BY <2>1, <2>2 DEF TypeOK
<1>11. CASE UsersRemoved \/ UsersAdded \/ SkipHints
  <2>1. ClusterTypeOK'
    BY <1>11, ClusterUnchangedTyped DEF UsersRemoved, UsersAdded, SkipHints
  <2>2. ControllerTypeOK'
    BY <1>11 DEF UsersRemoved, UsersAdded, SkipHints, ControllerTypeOK
  <2> QED
    BY <2>1, <2>2 DEF TypeOK
<1>12. ASSUME NEW u \in Migrations, CreateUser(u) PROVE TypeOK'
  <2>1. ClusterTypeOK'
    BY <1>12 DEF CreateUser, ClusterTypeOK, objectVars, secretVars, podVars, jobVars
  <2>2. ControllerTypeOK'
    BY <1>12 DEF CreateUser, ControllerTypeOK, Versions
  <2> QED
    BY <2>1, <2>2 DEF TypeOK
<1>13. CASE Grant
  <2>1. ClusterTypeOK'
    BY <1>13
       DEF Grant, TargetNamed, ClusterTypeOK, objectVars, secretVars, podVars, jobVars
  <2>2. ControllerTypeOK'
    BY <1>13 DEF Grant, ControllerTypeOK
  <2> QED
    BY <2>1, <2>2 DEF TypeOK
<1>14. CASE WriteCredentialsSecret
  <2>1. ClusterTypeOK'
    BY <1>14
       DEF WriteCredentialsSecret, TargetNamed, ClusterTypeOK, objectVars, podVars, jobVars,
           serverVars
  <2>2. CASE Permanent
    BY <2>1, <2>2, PermanentTyped DEF TypeOK
  <2>3. CASE ~Permanent
    BY <1>14, <2>1, <2>3 DEF WriteCredentialsSecret, TypeOK, ControllerTypeOK, Versions
  <2> QED
    BY <2>2, <2>3
<1>15. ASSUME NEW kind \in ErrorKinds, ReportErrors(kind) PROVE TypeOK'
  <2>1. ClusterTypeOK'
    BY <1>15 DEF ReportErrors, ClusterTypeOK, secretVars, podVars, jobVars, serverVars
  <2> QED
    BY <1>15, <2>1, ReturnTyped DEF ReportErrors, TypeOK
<1>16. CASE ProcessHints
  <2>1. CASE GoTo("listJobs") /\ UNCHANGED <<clusterVars, localVars>>
    BY <2>1, ClusterUnchangedTyped DEF TypeOK, ControllerTypeOK
  <2>2. CASE ReportErrors("permanent")
    BY <2>2, <1>15 DEF ErrorKinds
  <2>3. CASE Fail("permanent", DatabaseName) /\ UNCHANGED clusterVars
    BY <2>3, ClusterUnchangedTyped, FailTyped DEF TypeOK, ErrorKinds
  <2> QED
    BY <1>16, <2>1, <2>2, <2>3 DEF ProcessHints
<1>17. CASE ListJobs
  <2>1. ClusterTypeOK'
    BY <1>17, ClusterUnchangedTyped DEF ListJobs
  <2>2. ControllerTypeOK'
    BY <1>17 DEF ListJobs, ClusterTypeOK, ControllerTypeOK, Versions
  <2> QED
    BY <2>1, <2>2 DEF TypeOK
<1>18. ASSUME NEW m \in Migrations, FoundNeededJob(m) PROVE TypeOK'
  <2>1. ClusterTypeOK'
    BY <1>18, ClusterUnchangedTyped DEF FoundNeededJob
  <2>2. CASE Permanent
    BY <2>1, <2>2, PermanentTyped DEF TypeOK
  <2>3. CASE ~Permanent
    BY <1>18, <2>1, <2>3 DEF FoundNeededJob, TypeOK, ControllerTypeOK, JobViews
  <2> QED
    BY <2>2, <2>3
<1>19. ASSUME NEW m \in Migrations, DeleteOldJob(m) PROVE TypeOK'
  <2>1. jobs' \in [Migrations -> JobStates]
    BY <1>19 DEF DeleteOldJob, ClusterTypeOK, JobStates
  <2>2. orphans' \in [Migrations -> 0..MaxOrphans]
    BY <1>19, ClusterAssumption DEF DeleteOldJob, ClusterTypeOK
  <2>3. ClusterTypeOK'
    BY <1>19, <2>1, <2>2
       DEF DeleteOldJob, ClusterTypeOK, objectVars, secretVars, podVars, serverVars
  <2>4. CASE Permanent
    BY <2>3, <2>4, PermanentTyped DEF TypeOK
  <2>5. CASE ~Permanent
    BY <1>19, <2>3, <2>5 DEF DeleteOldJob, TypeOK, ControllerTypeOK, JobViews
  <2> QED
    BY <2>4, <2>5
<1>20. CASE CreateJob
  <2>1. jobs' \in [Migrations -> JobStates]
    BY <1>20 DEF CreateJob, ClusterTypeOK, ControllerTypeOK, JobStates
  <2>2. ClusterTypeOK'
    BY <1>20, <2>1
       DEF CreateJob, ClusterTypeOK, objectVars, secretVars, podVars, serverVars
  <2>3. CASE Permanent
    BY <2>2, <2>3, PermanentTyped DEF TypeOK
  <2>4. CASE ~Permanent
    BY <1>20, <2>2, <2>4 DEF CreateJob, TypeOK, ControllerTypeOK
  <2> QED
    BY <2>3, <2>4
<1>21. CASE UpdateStatus
  BY <1>21, <1>15 DEF UpdateStatus, ErrorKinds
<1>22. CASE HandleError
  <2>1. CASE ReportErrors(err)
    BY <2>1, <1>15 DEF ControllerTypeOK
  <2>2. CASE ~ReportErrors(err)
    <3>1. ClusterTypeOK'
      BY <1>22, <2>2
         DEF HandleError, ClusterTypeOK, ControllerTypeOK, secretVars, podVars, jobVars,
             serverVars
    <3> QED
      BY <1>22, <2>2, <3>1, ReturnTyped DEF HandleError, TypeOK
  <2> QED
    BY <2>1, <2>2
<1> QED
  BY <1>1, <1>2, <1>3, <1>4, <1>5, <1>6, <1>7, <1>8, <1>9, <1>10, <1>11, <1>12, <1>13,
     <1>14, <1>16, <1>17, <1>18, <1>19, <1>20, <1>21, <1>22
     DEF Reconcile

\* Every step keeps every type.
LEMMA NextTyped == TypeOK /\ TargetNamed /\ [Next]_vars => TypeOK'
<1> SUFFICES ASSUME TypeOK, TargetNamed, [Next]_vars PROVE TypeOK'
  OBVIOUS
<1> ClusterTypeOK /\ ControllerTypeOK
  BY DEF TypeOK
<1>1. CASE Reconcile
  BY <1>1, ReconcileTyped
<1>2. CASE CallFails
  BY <1>2, ClusterUnchangedTyped, TemporaryTyped, PermanentTyped, ReturnTyped
     DEF CallFails, TypeOK
<1>3. CASE Crash
  <2>1. ClusterTypeOK'
    BY <1>3
       DEF Crash, ClusterTypeOK, objectVars, serverVars, JobsSeen, ViewOf, JobStates,
           JobViews
  <2> QED
    BY <1>3, <2>1, ReturnTyped DEF Crash, TypeOK
<1>4. ASSUME NEW m \in Migrations, ReconcileDatabaseMigration(m) PROVE TypeOK'
  <2>1. ClusterTypeOK'
    BY <1>4
       DEF ReconcileDatabaseMigration, ClusterTypeOK, secretVars, podVars, jobVars,
           serverVars, Versions
  <2> QED
    BY <1>4, <2>1, ControllerUnchangedTyped DEF ReconcileDatabaseMigration, TypeOK
<1>5. CASE ClusterNext /\ UNCHANGED controllerVars
  BY <1>5, ClusterNextTyped, ControllerUnchangedTyped DEF TypeOK
<1>6. CASE UNCHANGED vars
  BY <1>6, ClusterUnchangedTyped, ControllerUnchangedTyped DEF TypeOK, vars
<1> QED
  BY <1>1, <1>2, <1>3, <1>4, <1>5, <1>6 DEF Next

\* Every step that leads to a write has named its target.
LEMMA NextTargetNamed == TypeOK /\ TargetNamed /\ [Next]_vars => TargetNamed'
<1> SUFFICES ASSUME TypeOK, TargetNamed, [Next]_vars PROVE TargetNamed'
  OBVIOUS
<1> USE DEF TargetNamed
<1>1. CASE UNCHANGED controllerVars
  BY <1>1 DEF controllerVars, localVars
<1>2. CASE Begin \/ GetSchemaVersion \/ ListSecrets \/ DropUser \/ UsersRemoved \/ Grant
           \/ UsersAdded \/ SkipHints \/ ListJobs \/ UpdateStatus
  BY <1>2
     DEF Begin, GetSchemaVersion, ListSecrets, DropUser, UsersRemoved, Grant, UsersAdded,
         SkipHints, ListJobs, UpdateStatus, ReportErrors, Return, GoTo, localVars
<1>3. CASE WalkBack \/ LoadActiveVersion \/ DeleteSecret \/ ListUsernames
           \/ WriteCredentialsSecret \/ ProcessHints \/ CreateJob \/ HandleError
  BY <1>3
     DEF WalkBack, LoadActiveVersion, DeleteSecret, ListUsernames, WriteCredentialsSecret,
         ProcessHints, CreateJob, HandleError, ReportErrors, Return, Permanent, Fail, GoTo,
         localVars
<1>4. ASSUME NEW m \in Migrations,
             \/ CheckSecretUnused(m) \/ CountSessions(m) \/ CreateUser(m)
             \/ FoundNeededJob(m) \/ DeleteOldJob(m)
      PROVE  TargetNamed'
  BY <1>4
     DEF CheckSecretUnused, CountSessions, CreateUser, FoundNeededJob, DeleteOldJob,
         Permanent, Temporary, Fail, GoTo
<1>5. CASE CallFails \/ Crash
  BY <1>5 DEF CallFails, Crash, Permanent, Temporary, Fail, Return
<1> QED
  BY <1>1, <1>2, <1>3, <1>4, <1>5
     DEF Next, Reconcile, ReconcileDatabaseMigration, vars

(***************************************************************************)
(* Type correctness: every reachable state has well-typed variables, so no *)
(* step of a reconcile ever puts the empty version into a set of users,    *)
(* Secrets or Jobs it acts on.                                             *)
(***************************************************************************)
THEOREM TypeCorrect == Spec => []TypeOK
<1>1. Init => TypeOK /\ TargetNamed
  BY InitTyped DEF Init, TargetNamed
<1>2. TypeOK /\ TargetNamed /\ [Next]_vars => (TypeOK /\ TargetNamed)'
  BY NextTyped, NextTargetNamed
<1> QED
  BY <1>1, <1>2, PTL DEF Spec

-----------------------------------------------------------------------------
(***************************************************************************)
(* The chain of a version: what the walk from the desired version back to  *)
(* the current one passes.                                                 *)
(***************************************************************************)

\* A migration is on its own chain.
LEMMA ChainSelf == \A d \in Migrations : d \in Chain(d)
BY DEF Chain

\* The chain of the empty version is empty.
LEMMA ChainEmpty == Chain(NoVersion) = {}
BY ClusterAssumption DEF Chain

\* A chain goes on until the empty version.
LEMMA ChainClosed ==
    ASSUME NEW d, NEW m \in Chain(d), Previous[m] # NoVersion
    PROVE  Previous[m] \in Chain(d)
BY ClusterAssumption DEF Chain, Closed, Versions

\* Chains nest.
LEMMA ChainTransitive ==
    ASSUME NEW x, NEW y \in Chain(x), NEW z \in Chain(y)
    PROVE  z \in Chain(x)
BY DEF Chain

\* One turn of the walk leaves behind only the migration it loaded.
LEMMA ChainStep ==
    ASSUME NEW n \in Migrations, NEW m \in Chain(n), m # n
    PROVE  m \in Chain(Previous[n])
<1>1. m \in Migrations /\ \A S \in SUBSET Migrations : n \in S /\ Closed(S) => m \in S
  BY DEF Chain
<1>2. Previous[n] \in Migrations
  <2>1. CASE Previous[n] = NoVersion
    <3>1. {n} \in SUBSET Migrations /\ n \in {n} /\ Closed({n})
      BY <2>1 DEF Closed
    <3> QED
      BY <1>1, <3>1
  <2> QED
    BY <2>1, ClusterAssumption DEF Versions
<1>3. ASSUME NEW S \in SUBSET Migrations, Previous[n] \in S, Closed(S) PROVE m \in S
  <2>1. S \cup {n} \in SUBSET Migrations /\ n \in S \cup {n}
    OBVIOUS
  <2>2. Closed(S \cup {n})
    BY <1>3 DEF Closed
  <2>3. m \in S \cup {n}
    BY <1>1, <2>1, <2>2
  <2> QED
    BY <2>3
<1> QED
  BY <1>1, <1>2, <1>3 DEF Chain

-----------------------------------------------------------------------------
(***************************************************************************)
(* The inductive invariant.                                                *)
(***************************************************************************)

LEMMA InitForwardInv == Init => ForwardInv
BY DEF Init, ClusterInit, NoJobs, ForwardInv, NoOrphans, MigratingInv, Migrating, ReadInv,
       WalkInv, ContextInv, SecretsInv, UsersInv, JobsInv, AfterWalk, Removing, Adding,
       AfterUsers, IdleInv, LocalsInit

\* The part about the cluster is kept by a step that leaves its variables alone.
LEMMA MigratingKept ==
    NoOrphans /\ MigratingInv /\ UNCHANGED <<orphans, jobs, version, desired, users>>
        => NoOrphans' /\ MigratingInv'
BY DEF NoOrphans, MigratingInv, Migrating

\* When a reconcile ends or fails, only the part about the cluster is left.
LEMMA ReconcileEnds ==
    ASSUME NoOrphans', MigratingInv', pc' \in {"idle", "error"}, LocalsReset
    PROVE  ForwardInv'
BY DEF ForwardInv, IdleInv, LocalsReset, ReadInv, WalkInv, ContextInv, SecretsInv, UsersInv, JobsInv, AfterWalk,
       Removing, Adding, AfterUsers

\* The invariant is about no other variables than these.
LEMMA ForwardInvKept ==
    ASSUME ForwardInv,
           UNCHANGED <<orphans, jobs, version, desired, users, secrets, controllerVars>>
    PROVE  ForwardInv'
<1> USE DEF ForwardInv, controllerVars, localVars
<1>1. NoOrphans' /\ MigratingInv'
  BY MigratingKept
<1>2. ReadInv'
  BY DEF ReadInv, Migrating
<1>3. WalkInv'
  BY DEF WalkInv, Migrating, Recorded, Ahead
<1>4. ContextInv'
  BY DEF ContextInv, Migrating, Recorded
<1>5. IdleInv' /\ SecretsInv' /\ UsersInv' /\ JobsInv'
  BY DEF IdleInv, SecretsInv, UsersInv, JobsInv
<1> QED
  BY <1>1, <1>2, <1>3, <1>4, <1>5

\* The migration context is kept by a step that leaves what it relates alone.
LEMMA ContextKept ==
    ASSUME ContextInv, pc \in AfterWalk,
           UNCHANGED <<currentDbVersion, nextVersion, secretNames, desired, version, jobs,
                       users>>
    PROVE  ContextInv'
BY DEF ContextInv, Migrating, Recorded

\* Steps of the reconcile up to the credentials.
LEMMA WalkKeepsInv ==
    ASSUME TypeOK, ForwardInv,
           Begin \/ GetSchemaVersion \/ WalkBack \/ LoadActiveVersion
    PROVE  ForwardInv'
<1> ClusterTypeOK /\ ControllerTypeOK
  BY DEF TypeOK
<1> UNCHANGED <<orphans, jobs, version, desired, users, secrets>>
  BY DEF Begin, GetSchemaVersion, WalkBack, LoadActiveVersion, clusterVars, objectVars,
         secretVars, jobVars, serverVars
<1>1. NoOrphans' /\ MigratingInv'
  BY MigratingKept DEF ForwardInv
<1>2. CASE Begin
  <2>1. pc' = "getVersion" /\ needVersion' = desired
    BY <1>2 DEF Begin, GoTo
  <2>2. nextVersion' = NoVersion
    BY <1>2 DEF Begin, ForwardInv, IdleInv
  <2>3. ReadInv'
    BY <2>1, <2>2, ChainSelf
       DEF ReadInv, ForwardInv, MigratingInv, Migrating, ClusterTypeOK, Versions
  <2> QED
    BY <1>1, <2>1, <2>3
       DEF ForwardInv, IdleInv, WalkInv, ContextInv, SecretsInv, UsersInv, JobsInv, AfterWalk,
           Removing, Adding, AfterUsers
<1>3. CASE GetSchemaVersion
  <2>1. /\ pc = "getVersion" /\ pc' = "walk"
        /\ currentDbVersion' = version
        /\ UNCHANGED <<needVersion, nextVersion>>
    BY <1>3 DEF GetSchemaVersion, GoTo
  <2>2. WalkInv'
    BY <2>1 DEF WalkInv, Ahead, ForwardInv, ReadInv, MigratingInv, Migrating
  <2> QED
    BY <1>1, <2>1, <2>2
       DEF ForwardInv, IdleInv, ReadInv, ContextInv, SecretsInv, UsersInv, JobsInv, AfterWalk,
           Removing, Adding, AfterUsers
<1>4. CASE WalkBack
  <2>1. CASE Permanent \/ Fail("permanent", needVersion)
    BY <1>1, <2>1, ReconcileEnds DEF Permanent, Fail
  <2>2. CASE ~(Permanent \/ Fail("permanent", needVersion))
    <3>1. /\ pc = "walk" /\ pc' = "walk"
          /\ needVersion \in Migrations /\ needVersion # currentDbVersion
          /\ needVersion' = Previous[needVersion] /\ nextVersion' = needVersion
          /\ currentDbVersion' = currentDbVersion
      BY <1>4, <2>2 DEF WalkBack, ClusterTypeOK
    <3>2. ASSUME NEW m \in Migrations, Previous[m] = currentDbVersion, Ahead(m)
          PROVE  Ahead(m)'
      BY <3>1, <3>2, ChainStep DEF Ahead
    <3>3. needVersion \in Chain(desired)
      BY <3>1, ClusterAssumption DEF ForwardInv, WalkInv
    <3>4. needVersion' \in Chain(desired) \cup {NoVersion}
      BY <3>1, <3>3, ChainClosed
    <3>5. WalkInv'
      BY <3>1, <3>2, <3>3, <3>4 DEF ForwardInv, WalkInv, Migrating, Recorded
    <3> QED
      BY <1>1, <3>1, <3>5
         DEF ForwardInv, IdleInv, ReadInv, ContextInv, SecretsInv, UsersInv, JobsInv, AfterWalk,
             Removing, Adding, AfterUsers
  <2> QED
    BY <2>1, <2>2
<1>5. CASE LoadActiveVersion
  <2>1. CASE Fail("permanent", currentDbVersion)
    BY <1>1, <2>1, ReconcileEnds DEF Fail
  <2>2. CASE ~Fail("permanent", currentDbVersion)
    <3>1. /\ pc = "walk" /\ pc' = "listSecrets" /\ needVersion = currentDbVersion
          /\ secretNames' = DesiredVersionNames(currentDbVersion, nextVersion)
          /\ UNCHANGED <<currentDbVersion, nextVersion>>
      BY <1>5, <2>2 DEF LoadActiveVersion, GoTo
    <3>2. ASSUME NEW m \in Migrations, Previous[m] = currentDbVersion, Ahead(m)
          PROVE  m = nextVersion
      BY <3>1, <3>2, AcyclicAssumption DEF Ahead
    <3>3. ContextInv'
      BY <3>1, <3>2, ClusterAssumption
         DEF ForwardInv, WalkInv, ContextInv, Migrating, Recorded
    <3> QED
      BY <1>1, <3>1, <3>3
         DEF ForwardInv, IdleInv, ReadInv, WalkInv, SecretsInv, UsersInv, JobsInv, Removing, Adding,
             AfterUsers
  <2> QED
    BY <2>1, <2>2
<1> QED
  BY <1>2, <1>3, <1>4, <1>5

\* When a migration is to be run, only the active version's credentials are wanted.
LEMMA WantedWhenMigrating ==
    ASSUME NEW active, NEW next, next # NoVersion
    PROVE  /\ DesiredVersionNames(active, next) \subseteq {active}
           /\ active # NoVersion => active \in DesiredVersionNames(active, next)
BY DEF DesiredVersionNames

\* Steps on the Secrets.
LEMMA SecretStepsKeepInv ==
    ASSUME TypeOK, ForwardInv,
           \/ ListSecrets \/ DeleteSecret \/ ListUsernames
           \/ \E s \in Migrations : CheckSecretUnused(s)
    PROVE  ForwardInv'
<1> ClusterTypeOK /\ ControllerTypeOK
  BY DEF TypeOK
<1> UNCHANGED <<orphans, jobs, version, desired, users>>
  BY DEF ListSecrets, DeleteSecret, ListUsernames, CheckSecretUnused, clusterVars, objectVars,
         jobVars, serverVars
<1>1. NoOrphans' /\ MigratingInv'
  BY MigratingKept DEF ForwardInv
<1>2. CASE Permanent
  BY <1>1, <1>2, ReconcileEnds DEF Permanent, Fail
<1>3. CASE ~Permanent
  <2>1. pc \in AfterWalk /\ UNCHANGED <<currentDbVersion, nextVersion, secretNames>>
    BY <1>3
       DEF ListSecrets, DeleteSecret, ListUsernames, CheckSecretUnused, AfterWalk
  <2>2. ContextInv'
    BY <2>1, ContextKept DEF ForwardInv
  <2>3. pc' \in {"removeSecrets", "deleteSecret", "hints", "removeUsers"}
    BY <1>3 DEF ListSecrets, DeleteSecret, ListUsernames, CheckSecretUnused, GoTo
  <2>4. SecretsInv'
    BY <1>3
       DEF ListSecrets, DeleteSecret, ListUsernames, CheckSecretUnused, GoTo, SecretsInv,
           ForwardInv, Removing, clusterVars, secretVars
  <2>5. UsersInv'
    BY <1>3
       DEF ListSecrets, DeleteSecret, ListUsernames, CheckSecretUnused, GoTo, UsersInv,
           Removing, Adding, AfterUsers
  <2> QED
    BY <1>1, <2>2, <2>3, <2>4, <2>5 DEF ForwardInv, IdleInv, ReadInv, WalkInv, JobsInv
<1> QED
  BY <1>2, <1>3

\* Steps on the users that leave the users as they are, and on their Secrets.
LEMMA UserChecksKeepInv ==
    ASSUME TypeOK, ForwardInv,
           \/ UsersRemoved \/ Grant \/ WriteCredentialsSecret \/ UsersAdded
           \/ \E u \in Migrations : CountSessions(u)
    PROVE  ForwardInv'
<1> ClusterTypeOK /\ ControllerTypeOK
  BY DEF TypeOK
<1> UNCHANGED <<orphans, jobs, version, desired, users>>
  BY DEF UsersRemoved, Grant, WriteCredentialsSecret, UsersAdded, CountSessions, clusterVars,
         objectVars, jobVars, serverVars
<1>1. NoOrphans' /\ MigratingInv'
  BY MigratingKept DEF ForwardInv
<1>2. CASE Permanent \/ Temporary
  BY <1>1, <1>2, ReconcileEnds DEF Permanent, Temporary, Fail
<1>3. CASE ~(Permanent \/ Temporary)
  <2>1. pc \in AfterWalk /\ UNCHANGED <<currentDbVersion, nextVersion, secretNames>>
    BY <1>3
       DEF UsersRemoved, Grant, WriteCredentialsSecret, UsersAdded, CountSessions, AfterWalk,
           Removing, Adding, localVars
  <2>2. ContextInv'
    BY <2>1, ContextKept DEF ForwardInv
  <2>3. pc' \in {"dropUser", "hints"} \cup Adding
    BY <1>3
       DEF UsersRemoved, Grant, WriteCredentialsSecret, UsersAdded, CountSessions, GoTo,
           Adding
  <2>4. SecretsInv'
    BY <1>3, <2>3
       DEF UsersRemoved, Grant, WriteCredentialsSecret, UsersAdded, CountSessions, GoTo,
           SecretsInv, ForwardInv, Removing, Adding, clusterVars, secretVars
  <2>5. UsersInv'
    BY <1>3, <2>3
       DEF UsersRemoved, Grant, WriteCredentialsSecret, UsersAdded, CountSessions, GoTo,
           UsersInv, ForwardInv, Removing, Adding, AfterUsers, localVars
  <2> QED
    BY <1>1, <2>2, <2>3, <2>4, <2>5
       DEF ForwardInv, IdleInv, ReadInv, WalkInv, JobsInv, Adding
<1> QED
  BY <1>2, <1>3

\* DROP USER and CREATE USER.
LEMMA UserWritesKeepInv ==
    ASSUME TypeOK, ForwardInv,
           DropUser \/ \E u \in Migrations : CreateUser(u)
    PROVE  ForwardInv'
<1> ClusterTypeOK /\ ControllerTypeOK
  BY DEF TypeOK
<1> USE DEF ForwardInv
<1>1. /\ UNCHANGED <<orphans, jobs, version, desired, secrets>>
      /\ UNCHANGED <<currentDbVersion, nextVersion, secretNames, existingSecretSet>>
  BY DEF DropUser, CreateUser, objectVars, secretVars, jobVars
<1>2. /\ pc \in {"dropUser", "addUsers"}
      /\ pc' \in {"removeUsers", "grant"}
  BY DEF DropUser, CreateUser, GoTo
<1>3. users' \subseteq users \cup secretNames
  BY DEF DropUser, CreateUser, UsersInv, Adding
<1>4. ContextInv'
  <2>1. version # currentDbVersion => users' \subseteq {currentDbVersion}
    BY <1>2, <1>3, WantedWhenMigrating DEF ContextInv, AfterWalk, Removing, Adding
  <2> QED
    BY <1>1, <1>2, <2>1
       DEF ContextInv, Migrating, Recorded, AfterWalk, Removing, Adding
<1>5. MigratingInv'
  <2> SUFFICES ASSUME NEW m \in Migrations, Migrating(m) PROVE users' \subseteq {Previous[m]}
    BY <1>1 DEF MigratingInv, Migrating
  <2>1. m = nextVersion /\ Previous[m] = currentDbVersion
    BY <1>2, ClusterAssumption DEF ContextInv, AfterWalk, Removing, Adding
  <2>2. secretNames \subseteq {Previous[m]}
    BY <1>2, <2>1, ClusterAssumption, WantedWhenMigrating
       DEF ContextInv, AfterWalk, Removing, Adding
  <2> QED
    BY <1>3, <2>2 DEF MigratingInv
<1>6. NoOrphans' /\ SecretsInv'
  BY <1>1 DEF DropUser, CreateUser, GoTo, NoOrphans, SecretsInv, Removing
<1>7. UsersInv'
  BY <1>1 DEF DropUser, CreateUser, GoTo, UsersInv, Removing, Adding, AfterUsers
<1> QED
  BY <1>2, <1>4, <1>5, <1>6, <1>7 DEF IdleInv, ReadInv, WalkInv, JobsInv

\* Steps after the users are in place that change no Job.
LEMMA HintsKeepInv ==
    ASSUME TypeOK, ForwardInv,
           \/ SkipHints \/ ProcessHints \/ ListJobs \/ UpdateStatus \/ HandleError
           \/ \E m \in Migrations : FoundNeededJob(m)
    PROVE  ForwardInv'
<1> ClusterTypeOK /\ ControllerTypeOK
  BY DEF TypeOK
<1> UNCHANGED <<orphans, jobs, version, desired, users, secrets>>
  BY DEF SkipHints, ProcessHints, ListJobs, UpdateStatus, HandleError, FoundNeededJob,
         ReportErrors, clusterVars, objectVars, secretVars, jobVars, serverVars
<1>1. NoOrphans' /\ MigratingInv'
  BY MigratingKept DEF ForwardInv
<1>2. CASE pc' \in {"idle", "error"} /\ LocalsReset
  BY <1>1, <1>2, ReconcileEnds
<1>3. CASE ~(pc' \in {"idle", "error"} /\ LocalsReset)
  <2>1. SkipHints \/ ProcessHints \/ ListJobs \/ \E m \in Migrations : FoundNeededJob(m)
    BY <1>3 DEF UpdateStatus, HandleError, ReportErrors, Return
  <2>2. /\ pc \in AfterUsers /\ pc' \in {"listJobs", "jobs"}
        /\ UNCHANGED <<currentDbVersion, nextVersion, secretNames>>
    BY <1>3, <2>1
       DEF SkipHints, ProcessHints, ListJobs, FoundNeededJob, ReportErrors, Return, Permanent,
           Fail, GoTo, AfterUsers, localVars
  <2>3. ContextInv'
    BY <2>2, ContextKept DEF ForwardInv, AfterWalk
  <2>4. UsersInv' /\ SecretsInv'
    BY <2>2 DEF ForwardInv, UsersInv, SecretsInv, Removing, Adding, AfterUsers
  <2>5. JobsInv'
    BY <1>3, <2>1, <2>2
       DEF SkipHints, ProcessHints, ListJobs, FoundNeededJob, JobIsNeeded, ReportErrors,
           Return, Permanent, Fail, GoTo, JobsInv, ForwardInv, ControllerTypeOK, localVars
  <2> QED
    BY <1>1, <2>2, <2>3, <2>4, <2>5 DEF ForwardInv, IdleInv, ReadInv, WalkInv
<1> QED
  BY <1>2, <1>3

\* An old Job's container is never at work when the Job is deleted.
LEMMA DeleteOldJobKeepsInv ==
    ASSUME TypeOK, ForwardInv, NEW m \in Migrations, DeleteOldJob(m)
    PROVE  ForwardInv'
<1> ClusterTypeOK /\ ControllerTypeOK
  BY DEF TypeOK
<1> USE DEF ForwardInv
<1>1. /\ pc = "jobs" /\ m \notin neededJobsRunning /\ jobsForDatabase[m] # "none"
      /\ UNCHANGED <<version, desired, users>>
  BY DEF DeleteOldJob, JobIsNeeded, objectVars, serverVars
<1>2. m # nextVersion
  BY <1>1, ClusterAssumption DEF JobsInv
<1>3. ~Migrating(m) /\ (version # currentDbVersion => version # m)
  BY <1>1, <1>2 DEF ContextInv, AfterWalk, AfterUsers
<1>4. CASE jobs[m] = "none"
  <2>1. Permanent /\ UNCHANGED <<jobs, orphans>>
    BY <1>4 DEF DeleteOldJob
  <2> QED
    BY <1>1, <2>1, MigratingKept, ReconcileEnds DEF Permanent, Fail
<1>5. CASE jobs[m] # "none"
  <2>1. /\ jobs' = [jobs EXCEPT ![m] = "none"]
        /\ orphans' = orphans
        /\ jobsForDatabase' = [jobsForDatabase EXCEPT ![m] = "none"]
        /\ UNCHANGED <<pc, currentDbVersion, nextVersion, secretNames, neededJobsRunning>>
    BY <1>3, <1>5 DEF DeleteOldJob, Migrating
  <2>2. \A n \in Migrations : n # m => jobs'[n] = jobs[n]
    BY <2>1 DEF ClusterTypeOK
  <2>3. jobs'[m] = "none"
    BY <2>1 DEF ClusterTypeOK
  <2>4. NoOrphans' /\ MigratingInv'
    BY <1>1, <2>1, <2>2, <2>3 DEF NoOrphans, MigratingInv, Migrating
  <2>5. ContextInv'
    BY <1>1, <1>3, <2>1, <2>2, <2>3, ClusterAssumption
       DEF ContextInv, Migrating, Recorded, AfterWalk, AfterUsers, ClusterTypeOK, Versions
  <2>6. JobsInv'
    BY <1>1, <1>2, <2>1 DEF JobsInv, ControllerTypeOK
  <2>7. UsersInv' /\ SecretsInv'
    BY <1>1, <2>1 DEF UsersInv, SecretsInv, Removing, Adding, AfterUsers
  <2> QED
    BY <1>1, <2>1, <2>4, <2>5, <2>6, <2>7 DEF IdleInv, ReadInv, WalkInv
<1> QED
  BY <1>4, <1>5

(***************************************************************************)
(* The Job is created on the version it migrates from: had the version     *)
(* been written since it was read, the Job would still exist.              *)
(***************************************************************************)
LEMMA CreateJobKeepsInv ==
    ASSUME TypeOK, ForwardInv, CreateJob
    PROVE  ForwardInv'
<1> ClusterTypeOK /\ ControllerTypeOK
  BY DEF TypeOK
<1> USE DEF ForwardInv
<1>1. pc = "jobs" /\ UNCHANGED <<orphans, version, desired, users>>
  BY DEF CreateJob, objectVars, serverVars
<1>2. CASE Permanent /\ UNCHANGED jobs
  BY <1>1, <1>2, MigratingKept, ReconcileEnds DEF Permanent, Fail
<1>3. CASE GoTo("updateStatus") /\ UNCHANGED <<jobs, localVars>>
  <2>1. NoOrphans' /\ MigratingInv'
    BY <1>1, <1>3, MigratingKept
  <2>2. ContextInv'
    BY <1>1, <1>3, ContextKept DEF AfterWalk, AfterUsers, localVars
  <2>3. UsersInv' /\ SecretsInv'
    BY <1>1, <1>3 DEF UsersInv, SecretsInv, Removing, Adding, AfterUsers, GoTo, localVars
  <2> QED
    BY <1>3, <2>1, <2>2, <2>3 DEF GoTo, IdleInv, ReadInv, WalkInv, JobsInv
<1>4. ASSUME NEW m \in neededJobsRunning, jobs[m] = "none",
             jobs' = [jobs EXCEPT ![m] = "migrating"],
             GoTo("updateStatus"), UNCHANGED localVars
      PROVE  ForwardInv'
  <2>1. m \in Migrations /\ m = nextVersion /\ nextVersion # NoVersion
    BY <1>1, ClusterAssumption DEF JobsInv, ControllerTypeOK
  <2>2. version = currentDbVersion
    BY <1>1, <1>4, <2>1 DEF ContextInv, Recorded, AfterWalk, AfterUsers
  <2>3. /\ version = Previous[m] /\ m \in Chain(desired)
        /\ \A n \in Migrations : ~Migrating(n)
    <3>1. \A n \in Migrations : Migrating(n) => n = m
      BY <1>1, <2>1 DEF ContextInv, AfterWalk, AfterUsers
    <3>2. ~Migrating(m)
      BY <1>4 DEF Migrating
    <3> QED
      BY <1>1, <2>1, <2>2, <3>1, <3>2 DEF ContextInv, AfterWalk, AfterUsers
  <2>4. users \subseteq {Previous[m]}
    BY <1>1, <2>1, <2>2, <2>3, WantedWhenMigrating
       DEF ContextInv, UsersInv, AfterWalk, AfterUsers
  <2>5. \A n \in Migrations : Migrating(n)' => n = m
    BY <1>4, <2>1, <2>3 DEF Migrating, ClusterTypeOK
  <2>6. NoOrphans' /\ MigratingInv'
    BY <1>1, <2>1, <2>3, <2>4, <2>5 DEF NoOrphans, MigratingInv
  <2>7. ContextInv'
    BY <1>1, <1>4, <2>1, <2>2, <2>5
       DEF ContextInv, AfterWalk, AfterUsers, localVars
  <2>8. UsersInv' /\ SecretsInv'
    BY <1>1, <1>4 DEF UsersInv, SecretsInv, Removing, Adding, AfterUsers, GoTo, localVars
  <2> QED
    BY <1>4, <2>6, <2>7, <2>8 DEF GoTo, IdleInv, ReadInv, WalkInv, JobsInv
<1> QED
  BY <1>2, <1>3, <1>4 DEF CreateJob, localVars

-----------------------------------------------------------------------------
\* Moving the desired version forward keeps every chain the reconciler relies on.
LEMMA EditDesiredVersionKeepsInv ==
    ASSUME ForwardOnly, TypeOK, ForwardInv, UNCHANGED controllerVars,
           NEW d \in Migrations, EditDesiredVersion(d)
    PROVE  ForwardInv'
<1> USE DEF ForwardInv, controllerVars, localVars
<1>1. desired' = d /\ UNCHANGED <<orphans, jobs, version, users, secrets>>
  BY DEF EditDesiredVersion, secretVars, jobVars, serverVars
<1>2. Chain(desired) \subseteq Chain(d)
  BY ChainEmpty, ChainTransitive DEF EditDesiredVersion
<1>3. NoOrphans' /\ MigratingInv'
  BY <1>1, <1>2 DEF NoOrphans, MigratingInv, Migrating
<1>4. ReadInv'
  BY <1>1, <1>2 DEF ReadInv, Migrating
<1>5. WalkInv'
  BY <1>1, <1>2 DEF WalkInv, Migrating, Recorded, Ahead
<1>6. ContextInv'
  BY <1>1, <1>2 DEF ContextInv, Migrating, Recorded
<1>7. IdleInv' /\ SecretsInv' /\ UsersInv' /\ JobsInv'
  BY <1>1 DEF IdleInv, SecretsInv, UsersInv, JobsInv
<1> QED
  BY <1>3, <1>4, <1>5, <1>6, <1>7

(***************************************************************************)
(* Steps of the containers: a reconcile in progress sees the version it    *)
(* read become the one before the database's, and no further.              *)
(***************************************************************************)
LEMMA ContainersKeepInv ==
    ASSUME TypeOK, ForwardInv, UNCHANGED controllerVars, NEW m \in Migrations,
           \/ DeleteFailedJob(m) \/ ContainerWritesVersion(m)
           \/ \E state \in {"succeeded", "failed"} : ContainerExits(m, state)
    PROVE  ForwardInv'
<1> ClusterTypeOK /\ ControllerTypeOK
  BY DEF TypeOK
<1> USE DEF ForwardInv, controllerVars, localVars
<1>1. UNCHANGED <<orphans, desired, users, secrets>>
  BY DEF DeleteFailedJob, ContainerWritesVersion, ContainerExits, objectVars, secretVars,
         serverVars
<1>2. \A n \in Migrations : n # m => jobs'[n] = jobs[n]
  BY DEF DeleteFailedJob, ContainerWritesVersion, ContainerExits, ClusterTypeOK
<1>3. ~Migrating(m)' /\ (Recorded(m)' \/ version' # m)
  BY DEF DeleteFailedJob, ContainerWritesVersion, ContainerExits, ClusterTypeOK, Migrating,
         Recorded, serverVars
<1>4. \A n \in Migrations : Migrating(n)' => Migrating(n)
  BY <1>2, <1>3 DEF Migrating
<1>5. version' = version \/ (Migrating(m) /\ version' = m)
  BY DEF DeleteFailedJob, ContainerWritesVersion, ContainerExits, Migrating, serverVars
<1>6. NoOrphans' /\ MigratingInv'
  BY <1>1, <1>3, <1>4, <1>5 DEF NoOrphans, MigratingInv
<1>7. ReadInv'
  BY <1>1, <1>4 DEF ReadInv
<1>8. ASSUME version' # currentDbVersion, version' = version, version \in Migrations,
             Recorded(version)
      PROVE  Recorded(version)'
  BY <1>2, <1>3, <1>8 DEF Recorded
<1>9. WalkInv'
  <2> SUFFICES ASSUME pc = "walk" PROVE WalkInv'
    BY DEF WalkInv
  <2>1. CASE version' = version
    BY <1>1, <1>4, <1>8, <2>1 DEF WalkInv, Ahead
  <2>2. CASE Migrating(m) /\ version' = m
    BY <1>1, <1>3, <1>4, <2>2 DEF WalkInv, MigratingInv, Ahead
  <2> QED
    BY <1>5, <2>1, <2>2
<1>10. ContextInv'
  <2> SUFFICES ASSUME pc \in AfterWalk PROVE ContextInv'
    BY DEF ContextInv
  <2>1. CASE version' = version
    BY <1>1, <1>4, <1>8, <2>1, ClusterAssumption
       DEF ContextInv, ClusterTypeOK, ControllerTypeOK, Versions
  <2>2. CASE Migrating(m) /\ version' = m
    BY <1>1, <1>3, <1>4, <2>2, ClusterAssumption DEF ContextInv, MigratingInv
  <2> QED
    BY <1>5, <2>1, <2>2
<1>11. IdleInv' /\ SecretsInv' /\ UsersInv' /\ JobsInv'
  BY <1>1 DEF IdleInv, SecretsInv, UsersInv, JobsInv
<1> QED
  BY <1>6, <1>7, <1>9, <1>10, <1>11

\* Every step of the cluster keeps the invariant.
LEMMA ClusterKeepsInv ==
    ASSUME ForwardOnly, TypeOK, ForwardInv, ClusterNext, UNCHANGED controllerVars
    PROVE  ForwardInv'
<1>1. ASSUME NEW m \in Migrations, EditDesiredVersion(m) PROVE ForwardInv'
  BY <1>1, EditDesiredVersionKeepsInv
<1>2. ASSUME NEW m \in Migrations,
             \/ DeleteFailedJob(m) \/ ContainerWritesVersion(m)
             \/ \E state \in {"succeeded", "failed"} : ContainerExits(m, state)
      PROVE  ForwardInv'
  BY <1>2, ContainersKeepInv
<1>3. ASSUME NEW m \in Migrations, OrphanWritesVersion(m) \/ OrphanFails(m)
      PROVE  FALSE
  BY <1>3 DEF OrphanWritesVersion, OrphanFails, ForwardInv, NoOrphans
<1>4. ASSUME UNCHANGED <<orphans, jobs, version, desired, users, secrets>>
      PROVE  ForwardInv'
  BY <1>4, ForwardInvKept
<1>5. ASSUME NEW m \in Migrations, ApplyMigration(m) PROVE ForwardInv'
  BY <1>4, <1>5 DEF ApplyMigration, objectVars, secretVars, jobVars, serverVars
<1>6. ASSUME NEW r \in ReadOnlyEdits, EditReadOnly(r) PROVE ForwardInv'
  BY <1>4, <1>6 DEF EditReadOnly, secretVars, jobVars, serverVars
<1>7. ASSUME NEW a \in Apps, PodStarts(a) \/ PodStops(a) \/ Connect(a) \/ Disconnect(a)
      PROVE  ForwardInv'
  BY <1>4, <1>7
     DEF PodStarts, PodStops, Connect, Disconnect, objectVars, secretVars, jobVars, serverVars
<1>8. CASE SyncSecrets \/ SyncPods \/ SyncJobs
  BY <1>4, <1>8
     DEF SyncSecrets, SyncPods, SyncJobs, objectVars, secretVars, jobVars, serverVars
<1> QED
  BY <1>1, <1>2, <1>3, <1>5, <1>6, <1>7, <1>8 DEF ClusterNext

\* Every step keeps the invariant, if the desired version only moves forward.
LEMMA NextForwardInv ==
    ASSUME ForwardOnly, TypeOK, ForwardInv, [Next]_vars
    PROVE  ForwardInv'
<1>1. CASE Reconcile
  BY <1>1, WalkKeepsInv, SecretStepsKeepInv, UserChecksKeepInv, UserWritesKeepInv,
     HintsKeepInv, DeleteOldJobKeepsInv, CreateJobKeepsInv
     DEF Reconcile
<1>2. CASE CallFails \/ Crash
  <2>1. UNCHANGED <<orphans, jobs, version, desired, users>>
    BY <1>2 DEF CallFails, Crash, clusterVars, objectVars, jobVars, serverVars
  <2>2. pc' \in {"idle", "error"} /\ LocalsReset
    BY <1>2 DEF CallFails, Crash, Permanent, Temporary, Fail, Return
  <2> QED
    BY <2>1, <2>2, MigratingKept, ReconcileEnds DEF ForwardInv
<1>3. ASSUME NEW m \in Migrations, ReconcileDatabaseMigration(m) PROVE ForwardInv'
  BY <1>3, ForwardInvKept
     DEF ReconcileDatabaseMigration, secretVars, jobVars, serverVars
<1>4. CASE ClusterNext /\ UNCHANGED controllerVars
  BY <1>4, ClusterKeepsInv
<1>5. CASE UNCHANGED vars
  BY <1>5, ForwardInvKept
     DEF vars, clusterVars, objectVars, secretVars, jobVars, serverVars
<1> QED
  BY <1>1, <1>2, <1>3, <1>4, <1>5 DEF Next

(***************************************************************************)
(* The inductive invariant of the reconcile holds in every reachable       *)
(* state, under faults too, when the desired version only moves forward    *)
(* along an acyclic chain.                                                 *)
(***************************************************************************)
THEOREM ReconcileInvariant == ASSUME ForwardOnly PROVE Spec => [](TypeOK /\ ForwardInv)
<1>1. Init => ForwardInv
  BY InitForwardInv
<1>2. TypeOK /\ ForwardInv /\ [Next]_vars => ForwardInv'
  BY NextForwardInv
<1> QED
  BY <1>1, <1>2, TypeCorrect, PTL DEF Spec

(***************************************************************************)
(* At most one migration container is ever at work.                        *)
(***************************************************************************)
THEOREM AtMostOneMigration == ASSUME ForwardOnly PROVE Spec => []SingleMigration
<1>1. TypeOK /\ ForwardInv => SingleMigration
  BY DEF ForwardInv, NoOrphans, MigratingInv, Migrating, SingleMigration, AtWork
<1> QED
  BY <1>1, ReconcileInvariant, PTL

(***************************************************************************)
(* While a migration is at work, the only user of the operator's that may  *)
(* exist is that of the version it starts from.                            *)
(***************************************************************************)
THEOREM CredentialsRetired == ASSUME ForwardOnly PROVE Spec => []OldCredentialsRetired
<1>1. TypeOK /\ ForwardInv => OldCredentialsRetired
  BY DEF ForwardInv, NoOrphans, MigratingInv, Migrating, OldCredentialsRetired, AtWork
<1> QED
  BY <1>1, ReconcileInvariant, PTL

\* Only a container at work changes the version, and it does so from the one before.
LEMMA VersionStep ==
    ASSUME ForwardOnly, TypeOK, ForwardInv, [Next]_vars, version' # version
    PROVE  version = Previous[version']
<1>1. PICK m \in Migrations : ContainerWritesVersion(m) \/ OrphanWritesVersion(m)
  <2>1. ~UNCHANGED serverVars
    BY DEF serverVars
  <2>2. ~UNCHANGED clusterVars
    BY DEF clusterVars, serverVars
  <2>3. ClusterNext
    <3>1. ~Reconcile
      BY <2>1, <2>2
         DEF Reconcile, Begin, GetSchemaVersion, WalkBack, LoadActiveVersion, ListSecrets,
             DeleteSecret, ListUsernames, DropUser, UsersRemoved, Grant,
             WriteCredentialsSecret, UsersAdded, SkipHints, ProcessHints, ListJobs, CreateJob,
             UpdateStatus, HandleError, CheckSecretUnused, CountSessions, CreateUser,
             FoundNeededJob, DeleteOldJob, ReportErrors
    <3>2. ~(CallFails \/ Crash \/ \E m \in Migrations : ReconcileDatabaseMigration(m))
      BY <2>1, <2>2 DEF CallFails, Crash, ReconcileDatabaseMigration
    <3> QED
      BY <3>1, <3>2, <2>2 DEF Next, vars
  <2> QED
    BY <2>1, <2>3
       DEF ClusterNext, EditDesiredVersion, ApplyMigration, DeleteFailedJob, ContainerExits,
           OrphanFails, EditReadOnly, PodStarts, PodStops, Connect, Disconnect, SyncSecrets,
           SyncPods, SyncJobs
<1>2. ~OrphanWritesVersion(m)
  BY DEF OrphanWritesVersion, ForwardInv, NoOrphans
<1> QED
  BY <1>1, <1>2 DEF ContainerWritesVersion, ForwardInv, MigratingInv, Migrating

(***************************************************************************)
(* The schema version only ever moves from a migration's Previous to the   *)
(* migration.                                                              *)
(***************************************************************************)
THEOREM VersionChain == ASSUME ForwardOnly PROVE Spec => VersionFollowsChain
<1>1. TypeOK /\ ForwardInv /\ [Next]_vars
        => [version' # version => version = Previous[version']]_vars
  BY VersionStep
<1> QED
  BY <1>1, ReconcileInvariant, PTL DEF Spec, VersionFollowsChain

\* Only DROP USER removes a user, and only the one the session count was made on.
LEMMA UserRemoved ==
    ASSUME TypeOK, [Next]_vars, NEW u \in users \ users'
    PROVE  DropUser /\ u = target
<1>1. ~UNCHANGED users /\ ~UNCHANGED serverVars /\ ~UNCHANGED clusterVars
  BY DEF serverVars, clusterVars
<1>2. ~ClusterNext
  BY <1>1
     DEF ClusterNext, EditDesiredVersion, ApplyMigration, DeleteFailedJob,
         ContainerWritesVersion, ContainerExits, OrphanWritesVersion, OrphanFails,
         EditReadOnly, PodStarts, PodStops, Connect, Disconnect, SyncSecrets, SyncPods,
         SyncJobs
<1>3. ~(CallFails \/ Crash \/ \E m \in Migrations : ReconcileDatabaseMigration(m))
  BY <1>1 DEF CallFails, Crash, ReconcileDatabaseMigration
<1>4. Reconcile
  BY <1>1, <1>2, <1>3 DEF Next, vars
<1>5. DropUser
  BY <1>1, <1>4
     DEF Reconcile, Begin, GetSchemaVersion, WalkBack, LoadActiveVersion, ListSecrets,
         DeleteSecret, ListUsernames, UsersRemoved, Grant, WriteCredentialsSecret, UsersAdded,
         SkipHints, ProcessHints, ListJobs, CreateJob, UpdateStatus, HandleError,
         CheckSecretUnused, CountSessions, CreateUser, FoundNeededJob, DeleteOldJob,
         ReportErrors
<1> QED
  BY <1>5 DEF DropUser

\* A user that is dropped is neither the active version's nor, at rest, the last one's.
LEMMA DroppedIsNotLive ==
    ASSUME TypeOK, ForwardInv, [Next]_vars, NEW u \in users \ users'
    PROVE  /\ u # version
           /\ version = desired /\ version # NoVersion => u # Previous[version]
<1>1. /\ pc = "dropUser" /\ pc \in AfterWalk
      /\ u \in Migrations /\ u \in dbUsersToRemove /\ u \notin secretNames
  BY UserRemoved
     DEF DropUser, ForwardInv, UsersInv, Removing, AfterWalk, TypeOK, ClusterTypeOK
<1>2. CASE version = currentDbVersion
  <2>1. u # version
    BY <1>1, <1>2, ClusterAssumption DEF ForwardInv, ContextInv, DesiredVersionNames
  <2>2. ASSUME version = desired, version # NoVersion PROVE u # Previous[version]
    <3>1. nextVersion = NoVersion
      BY <1>1, <1>2, <2>2, AcyclicAssumption
         DEF ForwardInv, ContextInv, TypeOK, ControllerTypeOK, Versions
    <3> QED
      BY <1>1, <1>2, <2>2, <3>1, ClusterAssumption
         DEF ForwardInv, ContextInv, DesiredVersionNames
  <2> QED
    BY <2>1, <2>2
<1>3. CASE version # currentDbVersion
  <2>1. u = currentDbVersion /\ nextVersion # NoVersion
    BY <1>1, <1>3 DEF ForwardInv, ContextInv
  <2> QED
    BY <1>1, <2>1, WantedWhenMigrating, ClusterAssumption DEF ForwardInv, ContextInv
<1> QED
  BY <1>2, <1>3

(***************************************************************************)
(* No reconcile drops the user of the database's version, nor that of the  *)
(* version before it while the database is at its desired version, however *)
(* old the version it read has become.                                     *)
(***************************************************************************)
THEOREM LiveCredentials == ASSUME ForwardOnly PROVE Spec => LiveCredentialsKept
<1>1. TypeOK /\ ForwardInv /\ [Next]_vars
        => [\A u \in users \ users' :
               /\ u # version
               /\ version = desired /\ version # NoVersion => u # Previous[version]]_vars
  BY DroppedIsNotLive
<1> QED
  BY <1>1, ReconcileInvariant, PTL DEF Spec, LiveCredentialsKept
=============================================================================
