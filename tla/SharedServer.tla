---------------------------- MODULE SharedServer ----------------------------
(***************************************************************************)
(* The MySQL server as the operator administers it: users with passwords   *)
(* and grants, some of them other programs', shared by the ManagedDatabases *)
(* whose DSNs lead to it, and restored from a backup now and then, with or *)
(* without its accounts. Each method of MySQLDbAdmin is taken apart into   *)
(* its statements.                                                         *)
(*                                                                         *)
(* One worker reconciles the ManagedDatabases in turn. Only the            *)
(* credentials part of a reconcile is detailed here; the Job it starts     *)
(* when the version is behind is `job`, and its container records the new  *)
(* version at any later time. Secrets are created and deleted on the API   *)
(* server, and listed and looked up in the operator's cache.               *)
(***************************************************************************)
EXTENDS Integers, Sequences

CONSTANTS
    Databases,      \* the ManagedDatabases on this server
    Migrations,     \* names of migrations
    MigrationsOf,   \* each database's migrations, oldest first
    Admin,          \* the user of the operator's DSN
    Strangers,      \* users of other programs; like Admin, none has the prefix dba_
    MaxPasswords,   \* bound: passwords generated
    MaxFailures,    \* bound: failing calls and crashes
    MaxRestores     \* bound: restores from the backup

ASSUME ServerAssumption ==
    /\ MigrationsOf \in [Databases -> Seq(Migrations)]
    /\ \A d \in Databases : Len(MigrationsOf[d]) > 0
    /\ Migrations \cap (Strangers \cup {Admin}) = {}
    /\ {MaxPasswords, MaxFailures, MaxRestores} \subseteq Nat

VARIABLES
    desired,     \* position of Spec.DesiredSchemaVersion among MigrationsOf[d]
    version,     \* position of the schema version, 0 for the empty database
    job,         \* position the migration container at work will record, or 0
    users,       \* mysql.user: Absent, or the password and the databases granted
    sessions,    \* users with an open session, the operator's own left out
    lookalikes,  \* strangers whose name fits the pattern 'dba_%'
    secrets,     \* the password a database's Secret publishes, or NoPassword
    secretsView, \* the Secrets of each database that the operator's cache shows
    backup,      \* the versions and the accounts that the last backup holds
    worker,      \* the reconcile in progress
    passwords, failures, restores   \* how much of the bounds is used up

serverVars == <<users, sessions, lookalikes>>
secretVars == <<secrets, secretsView>>
objectVars == <<desired, version, job>>
boundVars == <<passwords, failures, restores>>
vars == <<objectVars, serverVars, secretVars, backup, worker, boundVars>>

Names == Migrations \cup Strangers \cup {Admin}
NoPassword == 0
Passwords == 1 .. MaxPasswords
Absent == [password |-> NoPassword, grants |-> {}]
Account == [password : Passwords \cup {-1}, grants : SUBSET Databases]
Foreign == [password |-> -1, grants |-> {}]   \* a password the operator does not know
Idle == [pc |-> "idle"]
Published(d) == {m \in Migrations : secrets[d][m] # NoPassword}
Positions(f) ==
    f \in [Databases -> Nat] /\ \A d \in Databases : f[d] <= Len(MigrationsOf[d])

(***************************************************************************)
(* The values have their types: an account that exists has a password that *)
(* was generated for it, and versions are positions among the database's   *)
(* migrations.                                                             *)
(***************************************************************************)
ServerTypeOK ==
    /\ Positions(desired) /\ Positions(version) /\ Positions(job)
    /\ users \in [Names -> Account \cup {Absent}]
    /\ sessions \subseteq Names
    /\ lookalikes \subseteq Strangers \cup {Admin}
    /\ secrets \in [Databases -> [Migrations -> Passwords \cup {NoPassword}]]
    /\ secretsView \in [Databases -> SUBSET Migrations]
    /\ Positions(backup.version) /\ backup.users \in [Names -> Account \cup {Absent}]
    /\ worker \in {Idle} \cup
          [pc : {"removeSecrets", "removeUsers", "dropUser", "grant", "writeSecret"},
           db : Databases, wanted : SUBSET Migrations, listed : SUBSET Migrations,
           add : SUBSET Migrations, remove : SUBSET Names, target : Names, next : Nat,
           since : Nat]
    /\ worker # Idle =>
          /\ worker.add \subseteq worker.wanted
          /\ worker.remove \cap worker.wanted = {}
          /\ worker.next <= Len(MigrationsOf[worker.db])
          /\ worker.since <= restores
    /\ passwords \in 0 .. MaxPasswords
    /\ failures \in 0 .. MaxFailures /\ restores \in 0 .. MaxRestores

ServerInit ==
    /\ desired = [d \in Databases |-> 1]
    /\ version = [d \in Databases |-> 0]
    /\ job = [d \in Databases |-> 0]
    /\ users = [u \in Names |-> IF u \in Migrations THEN Absent ELSE Foreign]
    /\ sessions = {}
    /\ lookalikes \in SUBSET (Strangers \cup {Admin})
    /\ secrets = [d \in Databases |-> [m \in Migrations |-> NoPassword]]
    /\ secretsView = [d \in Databases |-> {}]
    /\ backup = [version |-> version, users |-> users]
    /\ worker = Idle
    /\ passwords = 0 /\ failures = 0 /\ restores = 0

-----------------------------------------------------------------------------
(***************************************************************************)
(* The reconcile of one database's credentials.                            *)
(***************************************************************************)
Exists(u) == users[u] # Absent

\* The migrations at or before the version, newest first, whose credentials are wanted.
DesiredVersionNames(d) ==
    LET v == version[d] IN
    {MigrationsOf[d][i] : i \in {j \in {v, v - 1} : j > 0 /\ (j = v \/ v = desired[d])}}

ListSecretsForDatabase(d) == secretsView[d]

\* The version is read and the Secrets are listed, the latter in the cache. The walk from
\* the desired version finds no way back to a newer version: an error. `since` only records
\* when the reconcile began.
Begin(d) ==
    /\ worker = Idle
    /\ version[d] <= desired[d]
    /\ LET wanted == DesiredVersionNames(d) IN
       worker' = [pc |-> "removeSecrets", db |-> d, wanted |-> wanted,
                  listed |-> ListSecretsForDatabase(d), add |-> {},
                  remove |-> ListSecretsForDatabase(d) \ wanted, target |-> Admin,
                  next |-> IF version[d] < desired[d] THEN version[d] + 1 ELSE 0,
                  since |-> restores]
    /\ UNCHANGED <<objectVars, serverVars, secretVars, backup, boundVars>>

\* Seeded bug: a Secret that is still used is left for the next reconcile.
DeleteSecretIfUnused_Skips(m) ==
    /\ worker.pc = "removeSecrets" /\ m \in worker.remove
    /\ worker' = [worker EXCEPT !.remove = @ \ {m}]
    /\ \/ UNCHANGED secrets
       \/ secrets' = [secrets EXCEPT ![worker.db][m] = NoPassword]
    /\ UNCHANGED <<objectVars, serverVars, secretsView, backup, boundVars>>

\* A Secret that is not wanted is deleted. One that a pod uses, that the cache shows no
\* longer or that is gone from the API server ends the reconcile.
DeleteSecretIfUnused(m) ==
    /\ worker.pc = "removeSecrets" /\ m \in worker.remove
    /\ \/ worker' = Idle /\ UNCHANGED secrets
       \/ /\ m \in secretsView[worker.db] /\ m \in Published(worker.db)
          /\ secrets' = [secrets EXCEPT ![worker.db][m] = NoPassword]
          /\ worker' = [worker EXCEPT !.remove = @ \ {m}]
    /\ UNCHANGED <<objectVars, serverVars, secretsView, backup, boundVars>>

\* Seeded bug: the users are listed, and dropped, before the Secrets are deleted.
ListUsernames_Early ==
    /\ worker.pc = "removeSecrets"
    /\ LET listed == {u \in Migrations \cup lookalikes : Exists(u)} IN
       worker' = [worker EXCEPT !.pc = "removeUsers", !.remove = listed \ worker.wanted,
                                !.add = worker.wanted \ listed]
    /\ UNCHANGED <<objectVars, serverVars, secretVars, backup, boundVars>>

\* SELECT user FROM mysql.user WHERE user LIKE 'dba_%': "_" stands for any character.
ListUsernames ==
    /\ worker.pc = "removeSecrets" /\ worker.remove = {}
    /\ LET listed == {u \in Migrations \cup lookalikes : Exists(u)} IN
       worker' = [worker EXCEPT !.pc = "removeUsers", !.remove = listed \ worker.wanted,
                                !.add = worker.wanted \ listed]
    /\ UNCHANGED <<objectVars, serverVars, secretVars, backup, boundVars>>

\* Seeded bug: the session that asks is not counted.
CountSessions_OthersOnly(u) ==
    /\ worker.pc = "removeUsers" /\ u \in worker.remove
    /\ worker' = IF u \in sessions THEN Idle
                 ELSE [worker EXCEPT !.pc = "dropUser", !.target = u]
    /\ UNCHANGED <<objectVars, serverVars, secretVars, backup, boundVars>>

\* The count of the user's sessions, among them the one that asks.
CountSessions(u) ==
    /\ worker.pc = "removeUsers" /\ u \in worker.remove
    /\ worker' = IF u \in sessions \cup {Admin} THEN Idle
                 ELSE [worker EXCEPT !.pc = "dropUser", !.target = u]
    /\ UNCHANGED <<objectVars, serverVars, secretVars, backup, boundVars>>

(***************************************************************************)
(* indirectSubstitute: SET, PREPARE and EXECUTE in a transaction. Account  *)
(* statements commit by themselves, so an error in or before EXECUTE       *)
(* leaves things as they were, and one in its answer or in COMMIT comes    *)
(* after the statement has taken effect. The server refuses a statement    *)
(* that is not valid for the accounts it finds. An error ends the          *)
(* reconcile.                                                              *)
(***************************************************************************)
IndirectSubstitute(valid, accounts, then) ==
    /\ \/ valid /\ users' = accounts /\ worker' = then /\ UNCHANGED failures
       \/ ~valid /\ worker' = Idle /\ UNCHANGED <<users, failures>>
       \/ /\ valid /\ failures < MaxFailures
          /\ failures' = failures + 1
          /\ users' \in {users, accounts}
          /\ worker' = Idle
    /\ UNCHANGED <<objectVars, sessions, lookalikes, secretVars, backup, restores>>

\* DROP USER of one that is no longer there is an error.
DropUser ==
    /\ worker.pc = "dropUser"
    /\ IndirectSubstitute(Exists(worker.target), [users EXCEPT ![worker.target] = Absent],
                          [worker EXCEPT !.pc = "removeUsers", !.remove = @ \ {worker.target}])
    /\ UNCHANGED passwords

\* randPassword fails: the reconcile ends with an error.
RandPasswordFails(m) ==
    /\ worker.pc = "removeUsers" /\ worker.remove = {} /\ m \in worker.add
    /\ worker' = Idle
    /\ UNCHANGED <<objectVars, serverVars, secretVars, backup, boundVars>>

\* Seeded bug: the generated password does not reach the statement.
CreateUser_Blank(m) ==
    /\ worker.pc = "removeUsers" /\ worker.remove = {} /\ m \in worker.add
    /\ passwords < MaxPasswords
    /\ passwords' = passwords + 1
    /\ IndirectSubstitute(~Exists(m),
                          [users EXCEPT ![m] = [password |-> NoPassword, grants |-> Databases]],
                          [worker EXCEPT !.pc = "grant", !.target = m])

\* WriteCredentials, first statement: CREATE USER with a new random password, an error if
\* the user exists.
CreateUser(m) ==
    /\ worker.pc = "removeUsers" /\ worker.remove = {} /\ m \in worker.add
    /\ passwords < MaxPasswords
    /\ passwords' = passwords + 1
    /\ IndirectSubstitute(~Exists(m),
                          [users EXCEPT ![m] = [password |-> passwords', grants |-> {}]],
                          [worker EXCEPT !.pc = "grant", !.target = m])

\* WriteCredentials, second statement: GRANT on the database of the DSN, an error if the
\* user is gone.
Grant ==
    /\ worker.pc = "grant"
    /\ IndirectSubstitute(Exists(worker.target),
                          [users EXCEPT ![worker.target].grants = @ \cup {worker.db}],
                          [worker EXCEPT !.pc = "writeSecret"])
    /\ UNCHANGED passwords

\* The Secret is created with the password at hand; one that exists is an error.
WriteCredentialsSecret ==
    /\ worker.pc = "writeSecret"
    /\ LET m == worker.target IN
       IF m \in Published(worker.db) THEN worker' = Idle /\ UNCHANGED secrets
       ELSE /\ secrets' = [secrets EXCEPT ![worker.db][m] = passwords]
            /\ worker' = [worker EXCEPT !.pc = "removeUsers", !.add = @ \ {m}]
    /\ UNCHANGED <<objectVars, serverVars, secretsView, backup, boundVars>>

\* The credentials are in order: success, and the Job of the next migration, if there is
\* one to run and it has not finished meanwhile.
Finish ==
    /\ worker.pc = "removeUsers" /\ worker.remove = {} /\ worker.add = {}
    /\ worker' = Idle
    /\ job' = IF worker.next > version[worker.db] THEN [job EXCEPT ![worker.db] = worker.next]
              ELSE job
    /\ UNCHANGED <<desired, version, serverVars, secretVars, backup, boundVars>>

\* Any call fails, or the operator dies: nothing more of the reconcile happens.
FailOrCrash ==
    /\ worker # Idle /\ failures < MaxFailures
    /\ failures' = failures + 1
    /\ worker' = Idle
    /\ UNCHANGED <<objectVars, serverVars, secretVars, backup, passwords, restores>>

-----------------------------------------------------------------------------
(***************************************************************************)
(* Everyone else.                                                          *)
(***************************************************************************)
RaiseDesired(d) ==
    /\ desired[d] < Len(MigrationsOf[d])
    /\ desired' = [desired EXCEPT ![d] = @ + 1]
    /\ UNCHANGED <<version, job, serverVars, secretVars, backup, worker, boundVars>>

MigrationRecordsVersion(d) ==
    /\ job[d] # 0
    /\ version' = [version EXCEPT ![d] = job[d]]
    /\ job' = [job EXCEPT ![d] = 0]
    /\ UNCHANGED <<desired, serverVars, secretVars, backup, worker, boundVars>>

\* An application connects with what a Secret of its database publishes.
Connect(d, m) ==
    /\ Exists(m) /\ users[m].password = secrets[d][m]
    /\ sessions' = sessions \cup {m}
    /\ UNCHANGED <<objectVars, users, lookalikes, secretVars, backup, worker, boundVars>>

StrangerConnects(u) ==
    /\ u \in Strangers /\ Exists(u)
    /\ sessions' = sessions \cup {u}
    /\ UNCHANGED <<objectVars, users, lookalikes, secretVars, backup, worker, boundVars>>

Disconnect(u) ==
    /\ u \in sessions
    /\ sessions' = sessions \ {u}
    /\ UNCHANGED <<objectVars, users, lookalikes, secretVars, backup, worker, boundVars>>

\* The cache catches up with the API server.
SyncSecrets ==
    /\ secretsView' = [d \in Databases |-> Published(d)]
    /\ secretsView' # secretsView
    /\ UNCHANGED <<objectVars, serverVars, secrets, backup, worker, boundVars>>

TakeBackup ==
    /\ restores < MaxRestores
    /\ backup' = [version |-> version, users |-> users]
    /\ UNCHANGED <<objectVars, serverVars, secretVars, worker, boundVars>>

(***************************************************************************)
(* "the database is rolled back to an earlier version via a backup"        *)
(* (README), at any time but while a migration is at work: the schemas     *)
(* alone, or the whole server with the system tables that hold the users.  *)
(***************************************************************************)
Restore(whole) ==
    /\ restores < MaxRestores
    /\ \A d \in Databases : job[d] = 0
    /\ restores' = restores + 1
    /\ version' = backup.version
    /\ users' = IF whole THEN backup.users ELSE users
    /\ sessions' = {}
    /\ UNCHANGED <<desired, job, lookalikes, secretVars, backup, worker, passwords, failures>>

Reconcile ==
    \/ \E d \in Databases : Begin(d)
    \/ /\ worker # Idle
       /\ \/ ListUsernames \/ DropUser \/ Grant \/ WriteCredentialsSecret \/ Finish
          \/ \E u \in Names : DeleteSecretIfUnused(u) \/ CountSessions(u)
                           \/ RandPasswordFails(u) \/ CreateUser(u)

ServerNext ==
    \/ Reconcile \/ FailOrCrash \/ SyncSecrets \/ TakeBackup
    \/ \E whole \in BOOLEAN : Restore(whole)
    \/ \E d \in Databases : RaiseDesired(d) \/ MigrationRecordsVersion(d)
    \/ \E d \in Databases, m \in Migrations : Connect(d, m)
    \/ \E u \in Names : StrangerConnects(u) \/ Disconnect(u)

ServerSpec == ServerInit /\ [][ServerNext]_vars

-----------------------------------------------------------------------------
\* The database's Secret of migration m is published and opens it.
Opens(d, m) ==
    /\ secrets[d][m] # NoPassword
    /\ users[m].password = secrets[d][m] /\ d \in users[m].grants

\* The server was restored since the reconcile in progress began.
Overtaken == worker.since # restores

(***************************************************************************)
(* What a reconcile holds is true until it ends. Of the Secrets it listed  *)
(* none is left but the wanted ones and those still to be deleted. Unless  *)
(* the server is restored meanwhile, users to be added are absent, and the *)
(* one being created has the last password that was generated.             *)
(***************************************************************************)
WorkerInv ==
    /\ Exists(Admin) /\ backup.users[Admin] # Absent
    /\ worker # Idle =>
          /\ \A m \in Published(worker.db) \cap worker.listed :
                m \in worker.wanted \/ (worker.pc = "removeSecrets" /\ m \in worker.remove)
          /\ worker.pc = "removeSecrets" => worker.add = {}
          /\ worker.pc = "dropUser" => worker.target \in worker.remove \ {Admin}
          /\ worker.pc \in {"grant", "writeSecret"} =>
                worker.target \in worker.add /\ passwords > 0
          /\ ~Overtaken =>
                /\ \A m \in worker.add :
                      \/ ~Exists(m)
                      \/ worker.pc \in {"grant", "writeSecret"} /\ m = worker.target
                /\ worker.pc \in {"grant", "writeSecret"} =>
                      users[worker.target].password = passwords
                /\ worker.pc = "writeSecret" => worker.db \in users[worker.target].grants

\* A step that publishes the Secret, or takes the user from under it.
StaysOpen(d, m) ==
    /\ m \notin Published(d) /\ m \in Published(d)' => Opens(d, m)' \/ Overtaken
    /\ Opens(d, m) /\ m \in Published(d)' /\ ~Opens(d, m)' =>
          \/ Restore(TRUE)
          \/ DropUser /\ worker.target = m /\ (worker.db # d \/ m \notin worker.listed)

(***************************************************************************)
(* A Secret the operator publishes opens its database, unless the server   *)
(* was restored during that reconcile. From then on it opens it as long as *)
(* it is published, although user and Secret are written on two servers    *)
(* and calls fail after they took effect: the only steps that take the     *)
(* user from under it are a restore of the accounts, DROP USER in a        *)
(* reconcile of another database, and DROP USER in a reconcile of this one *)
(* whose list had not shown the Secret (reconcileCredentialsForVersion:    *)
(* Secrets are removed before users and written after them, but listed in  *)
(* a cache; user names are those of the migrations, without the database). *)
(***************************************************************************)
SecretsStayOpen == [][\A d \in Databases, m \in Migrations : StaysOpen(d, m)]_vars

(***************************************************************************)
(* The operator never drops the user it is connected as, even if its name  *)
(* fits the pattern (VerifyUnusedAndDeleteCredentials).                    *)
(***************************************************************************)
AdminKept == [][Exists(Admin)']_vars

(***************************************************************************)
(* "The credentials for the currently active version must be available"    *)
(* (reconcileCredentialsForVersion): a reconcile drops no user of the      *)
(* version that a database on the server is at.                            *)
(***************************************************************************)
ActiveCredentialsKept ==
    [][\A d \in Databases : version[d] > 0 =>
          LET m == MigrationsOf[d][version[d]] IN DropUser /\ Exists(m) => Exists(m)']_vars
=============================================================================
