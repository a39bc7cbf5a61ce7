---------------------------- MODULE MigrationLoop ----------------------------
(***************************************************************************)
(* What the operator promises about one database, as the README's          *)
(* "Migration Loop" puts it: credentials of older versions are dropped,    *)
(* then one migration runs, then the credentials of the new version are    *)
(* added. There are no reconciles, caches, Jobs or failures here, only the *)
(* schema version, the migration at work and the users. The specification  *)
(* of ManagedDatabaseController implements this one.                       *)
(***************************************************************************)
EXTENDS Chains

VARIABLES
    desired,   \* the version people ask for
    version,   \* the version of the schema
    running,   \* the migrations at work
    users      \* versions that have a database user

loopVars == <<desired, version, running, users>>

LoopInit ==
    /\ desired = NoVersion /\ version = NoVersion
    /\ running = {} /\ users = {}

\* People ask for another version.
Retarget ==
    /\ desired' \in Migrations
    /\ UNCHANGED <<version, running, users>>

\* Credentials are dropped, but not the database's own and, at rest, not its last ones.
DropCredentials(u) ==
    /\ u \in users
    /\ u # version
    /\ version = desired /\ version # NoVersion => u # Previous[version]
    /\ users' = users \ {u}
    /\ UNCHANGED <<desired, version, running>>

\* The next migration towards the desired version starts, alone and after the drops.
StartMigration(m) ==
    /\ m \in Chain(desired)
    /\ Previous[m] = version
    /\ running = {}
    /\ users \subseteq {version}
    /\ running' = {m}
    /\ UNCHANGED <<desired, version, users>>

\* It records its version; or it fails and leaves the database where it was.
FinishMigration(m) ==
    /\ running = {m}
    /\ version' = m
    /\ running' = {}
    /\ UNCHANGED <<desired, users>>

FailMigration(m) ==
    /\ running = {m}
    /\ running' = {}
    /\ UNCHANGED <<desired, version, users>>

\* Credentials are added for the database's version, or the one before it.
AddCredentials(u) ==
    /\ version # NoVersion
    /\ u = version \/ (u = Previous[version] /\ u # NoVersion /\ running = {})
    /\ users' = users \cup {u}
    /\ UNCHANGED <<desired, version, running>>

LoopNext ==
    \/ Retarget
    \/ \E m \in Migrations :
          \/ DropCredentials(m) \/ AddCredentials(m)
          \/ StartMigration(m) \/ FinishMigration(m) \/ FailMigration(m)

LoopSpec == LoopInit /\ [][LoopNext]_loopVars
=============================================================================
