---------------------- MODULE MigrationRefinement_proofs ----------------------
(***************************************************************************)
(* The proof that the reconciler and its cluster implement MigrationLoop,  *)
(* for every set of migrations and under faults, while the desired version *)
(* only moves forward. The mapping of the initial states is immediate;     *)
(* for the steps, the inductive invariant of MigrationSafety_proofs tells  *)
(* which step of the loop each step of the reconciler or of a container is.*)
(***************************************************************************)
EXTENDS MigrationRefinement, MigrationSafety_proofs

\* The loop's chains are the cluster's.
LEMMA LoopChain == \A d : Loop!Chain(d) = Chain(d)
BY DEF Loop!Chain, Loop!Closed, Chain, Closed

\* Without orphans, the migrations at work are those whose Job says so.
LEMMA RunningJobs ==
    ASSUME NoOrphans
    PROVE  Running = {m \in Migrations : Migrating(m)}
BY DEF NoOrphans, Running, AtWork, Migrating

\* The refinement mapping reads no other variables than these.
LEMMA NothingSeen ==
    UNCHANGED <<desired, version, users, jobs, orphans>> => UNCHANGED Loop!loopVars
BY DEF Loop!loopVars, Running, AtWork

\* The steps that change something the loop speaks of, orphans left out.
LEMMA StepsSeen ==
    ASSUME NoOrphans, [Next]_vars
    PROVE  \/ UNCHANGED <<desired, version, users, jobs, orphans>>
           \/ DropUser \/ CreateJob
           \/ \E m \in Migrations :
                 \/ CreateUser(m) \/ DeleteOldJob(m) \/ EditDesiredVersion(m)
                 \/ DeleteFailedJob(m) \/ ContainerWritesVersion(m)
                 \/ \E state \in {"succeeded", "failed"} : ContainerExits(m, state)
<1> USE DEF objectVars, jobVars, serverVars, clusterVars
<1>1. CASE Reconcile
  BY <1>1
     DEF Reconcile, Begin, GetSchemaVersion, WalkBack, LoadActiveVersion, ListSecrets,
         DeleteSecret, ListUsernames, UsersRemoved, Grant, WriteCredentialsSecret, UsersAdded,
         SkipHints, ProcessHints, ListJobs, UpdateStatus, HandleError, CheckSecretUnused,
         CountSessions, FoundNeededJob, ReportErrors
<1>2. CASE CallFails \/ Crash \/ \E m \in Migrations : ReconcileDatabaseMigration(m)
  BY <1>2 DEF CallFails, Crash, ReconcileDatabaseMigration
<1>3. CASE ClusterNext
  <2>1. ASSUME NEW m \in Migrations, OrphanWritesVersion(m) \/ OrphanFails(m) PROVE FALSE
    BY <2>1 DEF OrphanWritesVersion, OrphanFails, NoOrphans
  <2> QED
    BY <1>3, <2>1
       DEF ClusterNext, ApplyMigration, EditReadOnly, PodStarts, PodStops, Connect,
           Disconnect, SyncSecrets, SyncPods, SyncJobs
<1>4. CASE UNCHANGED vars
  BY <1>4 DEF vars
<1> QED
  BY <1>1, <1>2, <1>3, <1>4 DEF Next

\* DROP USER is a drop of the loop, or finds no user to drop.
LEMMA DropUserRefines ==
    ASSUME TypeOK, ForwardInv, [Next]_vars, DropUser
    PROVE  [Loop!LoopNext]_Loop!loopVars
<1>1. /\ pc = "dropUser" /\ users' = users \ {target}
      /\ UNCHANGED <<desired, version, jobs, orphans>>
  BY DEF DropUser, objectVars, jobVars
<1>2. Running' = Running
  BY <1>1 DEF Running, AtWork
<1>3. CASE target \notin users
  BY <1>1, <1>2, <1>3 DEF Loop!loopVars
<1>4. CASE target \in users
  <2>1. target \in Migrations /\ target \notin users'
    BY <1>1, <1>4 DEF TypeOK, ClusterTypeOK
  <2>2. /\ target # version
        /\ version = desired /\ version # NoVersion => target # Previous[version]
    BY <1>4, <2>1, DroppedIsNotLive
  <2> QED
    BY <1>1, <1>2, <1>4, <2>1, <2>2 DEF Loop!LoopNext, Loop!DropCredentials
<1> QED
  BY <1>3, <1>4

\* CREATE USER adds credentials for the database's version, or for the one before it
\* while no migration is at work.
LEMMA CreateUserRefines ==
    ASSUME TypeOK, ForwardInv, NEW u \in Migrations, CreateUser(u)
    PROVE  [Loop!LoopNext]_Loop!loopVars
<1>1. /\ pc = "addUsers" /\ pc \in AfterWalk /\ u \in dbUsersToAdd
      /\ users' = users \cup {u}
      /\ UNCHANGED <<desired, version, jobs, orphans>>
  BY DEF CreateUser, objectVars, jobVars, AfterWalk, Adding
<1>2. Running' = Running
  BY <1>1 DEF Running, AtWork
<1>3. u \in DesiredVersionNames(currentDbVersion, nextVersion)
  BY <1>1 DEF ForwardInv, UsersInv, ContextInv, Adding
<1>4. ASSUME \A m \in Migrations : ~Migrating(m) PROVE Running = {}
  BY <1>4, RunningJobs DEF ForwardInv
<1>5. version # NoVersion /\ (u = version \/ (u = Previous[version] /\ Running = {}))
  <2>1. CASE version = currentDbVersion
    <3>1. version # NoVersion /\ (u = version \/ (u = Previous[version] /\ nextVersion = NoVersion))
      BY <1>3, <2>1 DEF DesiredVersionNames
    <3>2. ASSUME nextVersion = NoVersion PROVE \A m \in Migrations : ~Migrating(m)
      BY <1>1, <3>2, ClusterAssumption DEF ForwardInv, ContextInv
    <3> QED
      BY <1>4, <3>1, <3>2
  <2>2. CASE version # currentDbVersion
    <3>1. /\ nextVersion # NoVersion /\ version = nextVersion
          /\ Recorded(version) /\ Previous[version] = currentDbVersion
      BY <1>1, <2>2 DEF ForwardInv, ContextInv
    <3>2. u = Previous[version]
      BY <1>3, <3>1, WantedWhenMigrating
    <3>3. \A m \in Migrations : ~Migrating(m)
      BY <1>1, <3>1 DEF ForwardInv, ContextInv, Migrating, Recorded
    <3> QED
      BY <1>4, <3>1, <3>2, <3>3
  <2> QED
    BY <2>1, <2>2
<1> QED
  BY <1>1, <1>2, <1>5, ClusterAssumption DEF Loop!LoopNext, Loop!AddCredentials

\* The Job that is deleted is never the one at work.
LEMMA DeleteOldJobRefines ==
    ASSUME TypeOK, ForwardInv, ForwardInv', NEW m \in Migrations, DeleteOldJob(m)
    PROVE  UNCHANGED Loop!loopVars
<1>1. /\ pc = "jobs" /\ m \notin neededJobsRunning /\ jobsForDatabase[m] # "none"
      /\ UNCHANGED <<desired, version, users>>
  BY DEF DeleteOldJob, JobIsNeeded, objectVars, serverVars
<1>2. m # nextVersion
  BY <1>1, ClusterAssumption DEF ForwardInv, JobsInv
<1>3. ~Migrating(m)
  BY <1>1, <1>2 DEF ForwardInv, ContextInv, AfterWalk, AfterUsers
<1>4. \A n \in Migrations : Migrating(n)' <=> Migrating(n)
  <2>1. CASE jobs' = jobs
    BY <2>1 DEF Migrating
  <2>2. CASE jobs' = [jobs EXCEPT ![m] = "none"]
    BY <1>3, <2>2 DEF Migrating, TypeOK, ClusterTypeOK
  <2> QED
    BY <2>1, <2>2 DEF DeleteOldJob
<1>5. Running' = Running
  <2>1. Running = {n \in Migrations : Migrating(n)}
    BY RunningJobs DEF ForwardInv
  <2>2. Running' = {n \in Migrations : Migrating(n)'}
    BY DEF ForwardInv, NoOrphans, Running, AtWork, Migrating
  <2> QED
    BY <1>4, <2>1, <2>2
<1> QED
  BY <1>1, <1>5 DEF Loop!loopVars

(***************************************************************************)
(* The Job that is created starts the next migration of the loop: nothing  *)
(* is at work, and only the users of the database's version are left.      *)
(***************************************************************************)
LEMMA CreateJobRefines ==
    ASSUME TypeOK, ForwardInv, ForwardInv', CreateJob
    PROVE  [Loop!LoopNext]_Loop!loopVars
<1>1. UNCHANGED <<desired, version, users, orphans>>
  BY DEF CreateJob, objectVars, serverVars
<1>2. CASE UNCHANGED jobs
  BY <1>1, <1>2, NothingSeen
<1>3. CASE ~UNCHANGED jobs
  <2>1. PICK m \in neededJobsRunning :
           /\ pc = "jobs" /\ jobs[m] = "none"
           /\ jobs' = [jobs EXCEPT ![m] = "migrating"]
    BY <1>3 DEF CreateJob
  <2>2. m \in Migrations /\ m = nextVersion /\ nextVersion # NoVersion
    BY <2>1, ClusterAssumption DEF ForwardInv, JobsInv, TypeOK, ControllerTypeOK
  <2>3. Migrating(m)'
    BY <2>1, <2>2 DEF Migrating, TypeOK, ClusterTypeOK
  <2>4. \A n \in Migrations : ~Migrating(n)
    <3>1. \A n \in Migrations : Migrating(n) => n = m
      BY <2>1, <2>2 DEF ForwardInv, ContextInv, AfterWalk, AfterUsers
    <3> QED
      BY <2>1, <3>1 DEF Migrating
  <2>5. Running = {}
    BY <2>4, RunningJobs DEF ForwardInv
  <2>6. Running' = {m}
    <3>1. \A n \in Migrations : Migrating(n)' <=> n = m
      BY <2>2, <2>3 DEF ForwardInv, MigratingInv
    <3>2. Running' = {n \in Migrations : Migrating(n)'}
      BY DEF ForwardInv, NoOrphans, Running, AtWork, Migrating
    <3> QED
      BY <2>2, <3>1, <3>2
  <2>7. version = Previous[m] /\ m \in Chain(desired) /\ users \subseteq {version}
    BY <1>1, <2>2, <2>3 DEF ForwardInv, MigratingInv, Migrating
  <2> QED
    BY <1>1, <2>2, <2>5, <2>6, <2>7, LoopChain DEF Loop!LoopNext, Loop!StartMigration
<1> QED
  BY <1>2, <1>3

\* The containers finish or fail the migration at work; other Jobs change unseen.
LEMMA ContainersRefine ==
    ASSUME TypeOK, ForwardInv, ForwardInv', NEW m \in Migrations,
           \/ DeleteFailedJob(m) \/ ContainerWritesVersion(m)
           \/ \E state \in {"succeeded", "failed"} : ContainerExits(m, state)
    PROVE  [Loop!LoopNext]_Loop!loopVars
<1>1. UNCHANGED <<desired, users>>
  BY DEF DeleteFailedJob, ContainerWritesVersion, ContainerExits, objectVars, serverVars
<1>2. /\ \A n \in Migrations : n # m => (Migrating(n)' <=> Migrating(n))
      /\ ~Migrating(m)'
  BY DEF DeleteFailedJob, ContainerWritesVersion, ContainerExits, TypeOK, ClusterTypeOK,
         Migrating
<1>3. Running = {n \in Migrations : Migrating(n)}
  BY RunningJobs DEF ForwardInv
<1>4. Running' = {n \in Migrations : Migrating(n)'}
  BY DEF ForwardInv, NoOrphans, Running, AtWork, Migrating
<1>5. CASE Migrating(m)
  <2>1. Running = {m} /\ Running' = {}
    BY <1>2, <1>3, <1>4, <1>5 DEF ForwardInv, MigratingInv
  <2>2. version' = m \/ version' = version
    BY DEF DeleteFailedJob, ContainerWritesVersion, ContainerExits, serverVars
  <2> QED
    BY <1>1, <2>1, <2>2 DEF Loop!LoopNext, Loop!FinishMigration, Loop!FailMigration
<1>6. CASE ~Migrating(m)
  <2>1. Running' = Running
    BY <1>2, <1>3, <1>4, <1>6
  <2>2. version' = version
    BY <1>6 DEF DeleteFailedJob, ContainerWritesVersion, ContainerExits, serverVars, Migrating
  <2> QED
    BY <1>1, <2>1, <2>2 DEF Loop!loopVars
<1> QED
  BY <1>5, <1>6

(***************************************************************************)
(* The reconciler of ManagedDatabaseController, with its caches, faults    *)
(* and interleavings, implements the migration loop: every one of its      *)
(* steps starts, finishes or fails the one migration, adds or drops        *)
(* credentials the loop allows to be added or dropped, or is not seen.     *)
(***************************************************************************)
THEOREM RefinesMigrationLoop == ASSUME ForwardOnly PROVE Spec => ImplementsMigrationLoop
<1>1. Init => Loop!LoopInit
  BY DEF Init, ClusterInit, NoJobs, Loop!LoopInit, Running, AtWork
<1>2. TypeOK /\ ForwardInv /\ [Next]_vars => [Loop!LoopNext]_Loop!loopVars
  <2> SUFFICES ASSUME TypeOK, ForwardInv, [Next]_vars
               PROVE  [Loop!LoopNext]_Loop!loopVars
    OBVIOUS
  <2>1. ForwardInv'
    BY NextForwardInv
  <2>2. ASSUME NEW d \in Migrations, EditDesiredVersion(d)
        PROVE  [Loop!LoopNext]_Loop!loopVars
    BY <2>2
       DEF EditDesiredVersion, jobVars, serverVars, Running, AtWork, Loop!LoopNext,
           Loop!Retarget
  <2> QED
    BY <2>1, <2>2, StepsSeen, NothingSeen, DropUserRefines, CreateUserRefines,
       DeleteOldJobRefines, CreateJobRefines, ContainersRefine DEF ForwardInv
<1> QED
  BY <1>1, <1>2, ReconcileInvariant, PTL DEF Spec, ImplementsMigrationLoop, Loop!LoopSpec
=============================================================================
