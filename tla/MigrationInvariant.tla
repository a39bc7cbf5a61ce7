-------------------------- MODULE MigrationInvariant --------------------------
(***************************************************************************)
(* The inductive invariant behind the safety properties of                 *)
(* ManagedDatabaseController, for a desired version that only moves        *)
(* forward. It says, for each phase of a reconcile, how the values the     *)
(* reconciler holds may differ from the cluster they were read from.       *)
(***************************************************************************)
EXTENDS ManagedDatabaseController

\* A check leaves the name it was made on for the write that follows.
TargetNamed ==
    pc \in {"deleteSecret", "dropUser", "grant", "writeSecret"} => target \in Migrations

Migrating(m) == jobs[m] = "migrating"
Recorded(m) == jobs[m] \in {"written", "succeeded", "failed"}

AfterUsers == {"hints", "listJobs", "jobs", "updateStatus"}
Adding == {"addUsers", "grant", "writeSecret"}
Removing == {"removeUsers", "dropUser"}
AfterWalk ==
    {"listSecrets", "removeSecrets", "deleteSecret"} \cup Removing \cup Adding \cup AfterUsers

NoOrphans == \A m \in Migrations : orphans[m] = 0

\* The one container at work starts from the database's version.
MigratingInv ==
    \A m \in Migrations : Migrating(m) =>
        /\ version = Previous[m]
        /\ m \in Chain(desired)
        /\ users \subseteq {Previous[m]}
        /\ \A n \in Migrations : Migrating(n) => n = m

\* Between reconciles there is no migration to run.
IdleInv == pc \in {"idle", "error"} => nextVersion = NoVersion

\* The object has been read: the copy's desired version may lag, not beyond the Job.
ReadInv ==
    pc = "getVersion" =>
        /\ needVersion \in Chain(desired) \cup {NoVersion}
        /\ nextVersion = NoVersion
        /\ \A m \in Migrations : Migrating(m) => m \in Chain(needVersion)

\* The walk has yet to pass m, or has just found it as the migration to run.
Ahead(m) == m \in Chain(needVersion) \/ (needVersion = currentDbVersion /\ nextVersion = m)

WalkInv ==
    pc = "walk" =>
        /\ needVersion \in Chain(desired) \cup {NoVersion}
        /\ nextVersion # NoVersion =>
              Previous[nextVersion] = needVersion /\ nextVersion \in Chain(desired)
        /\ \A m \in Migrations : Migrating(m) => Previous[m] = currentDbVersion /\ Ahead(m)
        /\ version # currentDbVersion =>
              /\ version \in Migrations /\ Previous[version] = currentDbVersion
              /\ Recorded(version) /\ Ahead(version)
              /\ users \subseteq {currentDbVersion}

\* The migration context: the version read is current, or the next version was
\* written since and the users are still those of the version read.
ContextInv ==
    pc \in AfterWalk =>
        /\ secretNames = DesiredVersionNames(currentDbVersion, nextVersion)
        /\ nextVersion # NoVersion =>
              Previous[nextVersion] = currentDbVersion /\ nextVersion \in Chain(desired)
        /\ \A m \in Migrations : Migrating(m) => m = nextVersion
        /\ version # currentDbVersion =>
              /\ nextVersion # NoVersion /\ version = nextVersion
              /\ Recorded(version)
              /\ users \subseteq {currentDbVersion}

\* What is left to do covers what is still wrong.
SecretsInv ==
    /\ pc \in {"removeSecrets", "deleteSecret"} =>
          \A s \in existingSecretSet \ secretNames : s \in secretsToRemove \/ s \notin secrets
    /\ pc \in Removing => \A s \in existingSecretSet \ secretNames : s \notin secrets

UsersInv ==
    /\ pc \in Removing => users \ secretNames \subseteq dbUsersToRemove
    /\ pc \in Removing => dbUsersToRemove \cap secretNames = {}
    /\ pc \in Removing \cup Adding => dbUsersToAdd \subseteq secretNames
    /\ pc = "dropUser" => target \in dbUsersToRemove
    /\ pc \in Adding \cup AfterUsers => users \subseteq secretNames

JobsInv ==
    pc = "jobs" =>
        /\ neededJobsRunning \subseteq {nextVersion} \ {NoVersion}
        /\ nextVersion # NoVersion =>
              nextVersion \in neededJobsRunning \/ jobsForDatabase[nextVersion] = "none"

(***************************************************************************)
(* The inductive invariant of the reconcile: at every step, what the       *)
(* reconciler has read about versions, users, Secrets and Jobs is off from *)
(* the cluster by no more than one finished migration.                     *)
(***************************************************************************)
ForwardInv ==
    /\ NoOrphans
    /\ MigratingInv
    /\ IdleInv
    /\ ReadInv
    /\ WalkInv
    /\ ContextInv
    /\ SecretsInv
    /\ UsersInv
    /\ JobsInv

-----------------------------------------------------------------------------
\* A reconcile that read the database as read-only is never on its way to change users.
ReadOnlyInv == dbReadOnly => pc \notin Removing \cup Adding

(***************************************************************************)
(* What a reconcile has planned for Secrets and users agrees with the      *)
(* cluster at each of its steps, wherever people move the desired version: *)
(* it removes no wanted Secret, the wanted users are there or still to be  *)
(* added, and a read-only database is left alone                           *)
(* (reconcileCredentialsForVersion).                                       *)
(***************************************************************************)
PlanInv ==
    /\ SecretsInv
    /\ UsersInv
    /\ ReadOnlyInv
    /\ pc \in {"removeSecrets", "deleteSecret"} => secretsToRemove \cap secretNames = {}
    /\ pc = "deleteSecret" => target \in secretsToRemove
    /\ pc \in Removing \cup Adding => secretNames \ users \subseteq dbUsersToAdd
    /\ pc \in {"grant", "writeSecret"} => target \in users
    /\ pc \in AfterUsers => secretNames \subseteq users

\* A user is published, is being created, or will never be wanted again.
Published(u) == u \in granted \cap secrets
InCreation(u) == u = target /\ (pc = "grant" \/ (pc = "writeSecret" /\ u \in granted))
Retired(u) ==
    /\ u # version
    /\ u = Previous[version] => version \in Chain(desired) \ {desired}

\* Users are created for the database's version or an earlier one.
UsersOnChain == users \subseteq Chain(version)

UsersAccounted == \A u \in users : Published(u) \/ InCreation(u) \/ Retired(u)

\* What the copy of the object and the version read will want is published.
ReadPublished ==
    pc = "getVersion" =>
        \A u \in users :
            Published(u) \/ (u # version /\ (u = Previous[version] => needVersion # version))

WalkPublished ==
    pc = "walk" =>
        \A u \in users :
            \/ Published(u)
            \/ /\ u # currentDbVersion
               /\ u = Previous[currentDbVersion] =>
                     needVersion # currentDbVersion \/ nextVersion # NoVersion

WantedPublished ==
    pc \in AfterWalk => \A u \in users \cap secretNames : Published(u) \/ InCreation(u)

(***************************************************************************)
(* The inductive invariant of the credentials when nothing fails: a user   *)
(* without its Secret is one that no reconcile wants, neither the one in   *)
(* progress, which may work from an older version and an older desired     *)
(* version, nor a later one.                                               *)
(***************************************************************************)
CredentialsInv ==
    /\ UsersOnChain
    /\ UsersAccounted
    /\ ReadPublished
    /\ WalkPublished
    /\ WantedPublished
=============================================================================
