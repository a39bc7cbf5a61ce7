------------------------- MODULE SharedServer_proofs -------------------------
(***************************************************************************)
(* Proofs about SharedServer, for any databases, migrations, strangers and *)
(* bounds: the types, what the worker holds about Secrets and accounts,    *)
(* that the operator keeps its own user, and that a Secret it published    *)
(* opens its database until one of the named steps takes the user away.    *)
(***************************************************************************)
EXTENDS SharedServer, TLAPS

Reconciling ==
    [pc : {"removeSecrets", "removeUsers", "dropUser", "grant", "writeSecret"},
     db : Databases, wanted : SUBSET Migrations, listed : SUBSET Migrations,
     add : SUBSET Migrations, remove : SUBSET Names, target : Names, next : Nat,
     since : Nat]

\* The part of the types that is about the reconcile in progress.
WorkerTyped ==
    /\ worker \in {Idle} \cup Reconciling
    /\ worker # Idle =>
          /\ worker.add \subseteq worker.wanted
          /\ worker.remove \cap worker.wanted = {}
          /\ worker.next <= Len(MigrationsOf[worker.db])
          /\ worker.since <= restores

\* The reconcile in progress is told from none by its pc.
LEMMA WorkerAtWork ==
    ASSUME WorkerTyped
    PROVE  /\ worker = Idle <=> worker.pc = "idle"
           /\ worker # Idle => worker \in Reconciling
BY DEF WorkerTyped, Idle, Reconciling

LEMMA TypesOfWorker == ServerTypeOK => WorkerTyped
BY DEF ServerTypeOK, WorkerTyped, Reconciling

\* The operator's names are its own: neither its user nor a stranger is a migration.
LEMMA AdminIsNoMigration == Admin \in Names /\ Admin \notin Migrations
BY ServerAssumption DEF Names

LEMMA AbsentIsNoAccount == Absent \notin Account
BY DEF Absent, Account, Passwords, NoPassword

\* Every database has a migration to desire.
LEMMA Lengths ==
    ASSUME NEW d \in Databases
    PROVE  /\ MigrationsOf[d] \in Seq(Migrations) /\ Len(MigrationsOf[d]) \in Nat
           /\ Len(MigrationsOf[d]) >= 1
<1>1. MigrationsOf[d] \in Seq(Migrations) /\ Len(MigrationsOf[d]) > 0
  BY ServerAssumption
<1>2. Len(MigrationsOf[d]) \in Nat
  BY <1>1
<1> QED
  BY <1>1, <1>2

LEMMA WantedTyped ==
    ASSUME ServerTypeOK, NEW d \in Databases
    PROVE  DesiredVersionNames(d) \subseteq Migrations
<1>1. /\ version[d] \in Nat /\ version[d] <= Len(MigrationsOf[d])
      /\ Len(MigrationsOf[d]) \in Nat /\ MigrationsOf[d] \in Seq(Migrations)
  BY Lengths DEF ServerTypeOK, Positions
<1>2. \A i \in 1 .. Len(MigrationsOf[d]) : MigrationsOf[d][i] \in Migrations
  BY <1>1
<1> QED
  BY <1>1, <1>2 DEF DesiredVersionNames

LEMMA InitTyped == ServerInit => ServerTypeOK /\ WorkerInv
<1> SUFFICES ASSUME ServerInit PROVE ServerTypeOK /\ WorkerInv
  OBVIOUS
<1>1. Positions([d \in Databases |-> 0]) /\ Positions([d \in Databases |-> 1])
  BY Lengths DEF Positions
<1>2. Positions(desired) /\ Positions(version) /\ Positions(job)
      /\ Positions(backup.version)
  BY <1>1 DEF ServerInit
<1>3. users \in [Names -> Account \cup {Absent}]
  BY DEF ServerInit, Foreign, Account
<1>4. /\ secrets \in [Databases -> [Migrations -> Passwords \cup {NoPassword}]]
      /\ secretsView \in [Databases -> SUBSET Migrations]
      /\ backup.users = users
  BY DEF ServerInit
<1>5. passwords \in 0 .. MaxPasswords /\ failures \in 0 .. MaxFailures
      /\ restores \in 0 .. MaxRestores
  BY ServerAssumption DEF ServerInit
<1>6. ServerTypeOK
  BY <1>2, <1>3, <1>4, <1>5 DEF ServerTypeOK, ServerInit
<1>7. Exists(Admin) /\ backup.users[Admin] # Absent
  BY <1>4, AdminIsNoMigration DEF ServerInit, Exists, Foreign, Absent, NoPassword
<1> QED
  BY <1>6, <1>7 DEF WorkerInv, ServerInit

-----------------------------------------------------------------------------
(***************************************************************************)
(* Everyone but the worker leaves Secrets and the worker alone, and but    *)
(* for a restore the accounts.                                             *)
(***************************************************************************)

\* What the worker holds is about no other variables than these.
LEMMA WorkerInvKept ==
    ASSUME WorkerInv, UNCHANGED <<users, secrets, worker, passwords, restores>>,
           backup'.users \in {backup.users, users}
    PROVE  WorkerInv'
BY DEF WorkerInv, Exists, Published, Overtaken

\* A reconcile that ended holds nothing.
LEMMA WorkerInvIdle ==
    ASSUME worker' = Idle, WorkerInv, users'[Admin] = users[Admin], UNCHANGED backup
    PROVE  WorkerInv'
BY DEF WorkerInv, Exists

Others ==
    \/ SyncSecrets \/ TakeBackup
    \/ \E d \in Databases : RaiseDesired(d) \/ MigrationRecordsVersion(d)
    \/ \E d \in Databases, m \in Migrations : Connect(d, m)
    \/ \E u \in Names : StrangerConnects(u) \/ Disconnect(u)

LEMMA OthersTyped ==
    ASSUME ServerTypeOK, Others
    PROVE  ServerTypeOK'
<1> USE DEF objectVars, serverVars, secretVars, boundVars
<1>1. CASE TakeBackup
  BY <1>1 DEF ServerTypeOK, TakeBackup
<1>2. CASE SyncSecrets
  BY <1>2 DEF ServerTypeOK, SyncSecrets, Published
<1>3. ASSUME NEW d \in Databases, RaiseDesired(d) PROVE ServerTypeOK'
  <2>1. Positions(desired')
    BY <1>3, Lengths DEF ServerTypeOK, RaiseDesired, Positions
  <2> QED
    BY <1>3, <2>1 DEF ServerTypeOK, RaiseDesired
<1>4. ASSUME NEW d \in Databases, MigrationRecordsVersion(d) PROVE ServerTypeOK'
  <2>1. Positions(version') /\ Positions(job')
    BY <1>4, Lengths DEF ServerTypeOK, MigrationRecordsVersion, Positions
  <2> QED
    BY <1>4, <2>1 DEF ServerTypeOK, MigrationRecordsVersion
<1>5. ASSUME NEW d \in Databases, NEW m \in Migrations, Connect(d, m) PROVE ServerTypeOK'
  BY <1>5 DEF ServerTypeOK, Connect, Names
<1>6. ASSUME NEW u \in Names, StrangerConnects(u) \/ Disconnect(u) PROVE ServerTypeOK'
  BY <1>6 DEF ServerTypeOK, StrangerConnects, Disconnect
<1> QED
  BY <1>1, <1>2, <1>3, <1>4, <1>5, <1>6 DEF Others

LEMMA OthersLeaveAlone ==
    ASSUME Others
    PROVE  /\ UNCHANGED <<users, secrets, worker, passwords, restores>>
           /\ backup'.users \in {backup.users, users}
BY DEF Others, SyncSecrets, TakeBackup, RaiseDesired, MigrationRecordsVersion, Connect,
       StrangerConnects, Disconnect, serverVars, secretVars, boundVars

LEMMA RestoreKeeps ==
    ASSUME ServerTypeOK, WorkerInv, NEW whole \in BOOLEAN, Restore(whole)
    PROVE  ServerTypeOK' /\ WorkerInv'
<1>1. restores' = restores + 1 /\ restores' \in 0 .. MaxRestores /\ restores \in Nat
  BY ServerAssumption DEF ServerTypeOK, Restore
<1>2. /\ users' \in [Names -> Account \cup {Absent}]
      /\ users'[Admin] # Absent /\ backup'.users[Admin] # Absent
  BY DEF ServerTypeOK, WorkerInv, Exists, Restore
<1>3. UNCHANGED <<worker, secrets, passwords>>
  BY DEF Restore, secretVars
<1>4. ASSUME worker # Idle PROVE worker.since \in Nat /\ worker.since <= restores
  BY <1>4, TypesOfWorker, WorkerAtWork DEF ServerTypeOK, Reconciling
<1>5. ServerTypeOK'
  BY <1>1, <1>2, <1>4 DEF ServerTypeOK, Restore, secretVars
<1>6. worker # Idle => Overtaken'
  BY <1>1, <1>3, <1>4 DEF Overtaken
<1>7. WorkerInv'
  BY <1>2, <1>3, <1>6 DEF WorkerInv, Exists, Published
<1> QED
  BY <1>5, <1>7

-----------------------------------------------------------------------------
(***************************************************************************)
(* The steps of the reconcile.                                             *)
(***************************************************************************)

\* Ending keeps the types.
LEMMA IdleTyped ==
    ASSUME ServerTypeOK, worker' = Idle, failures' \in 0 .. MaxFailures,
           UNCHANGED <<objectVars, serverVars, secretVars, backup, passwords, restores>>
    PROVE  ServerTypeOK'
BY DEF ServerTypeOK, objectVars, serverVars, secretVars

\* Only the worker moves on.
LEMMA MovesOnTyped ==
    ASSUME ServerTypeOK, WorkerTyped',
           UNCHANGED <<objectVars, serverVars, secretVars, backup, boundVars>>
    PROVE  ServerTypeOK'
BY DEF ServerTypeOK, WorkerTyped, Reconciling, objectVars, serverVars, secretVars,
       boundVars

LEMMA BeginKeeps ==
    ASSUME ServerTypeOK, WorkerInv, NEW d \in Databases, Begin(d)
    PROVE  ServerTypeOK' /\ WorkerInv'
<1> DEFINE wanted == DesiredVersionNames(d)
           remove == secretsView[d] \ wanted
           next == IF version[d] < desired[d] THEN version[d] + 1 ELSE 0
<1>1. wanted \subseteq Migrations /\ secretsView[d] \subseteq Migrations
  BY WantedTyped DEF ServerTypeOK
<1>2. worker' = [pc |-> "removeSecrets", db |-> d, wanted |-> wanted,
                 listed |-> secretsView[d], add |-> {}, remove |-> remove,
                 target |-> Admin, next |-> next, since |-> restores]
  BY DEF Begin, ListSecretsForDatabase
<1>3. next \in Nat /\ next <= Len(MigrationsOf[d]) /\ restores \in Nat
  BY Lengths DEF ServerTypeOK, Positions
<1>4. remove \subseteq Names /\ remove \cap wanted = {}
  BY <1>1 DEF Names
<1>5. \A m \in secretsView[d] : m \in wanted \cup remove
  OBVIOUS
<1> HIDE DEF wanted, remove, next
<1>6. worker' \in Reconciling
  BY <1>1, <1>2, <1>3, <1>4, AdminIsNoMigration DEF Reconciling
<1>7. WorkerTyped'
  BY <1>2, <1>3, <1>4, <1>6 DEF WorkerTyped, Begin, boundVars
<1>8. ServerTypeOK'
  BY <1>7, MovesOnTyped DEF Begin
<1>9. UNCHANGED <<users, secrets, backup>>
  BY DEF Begin, serverVars, secretVars
<1>10. WorkerInv'
  BY <1>2, <1>5, <1>9 DEF WorkerInv, Exists, Published
<1> QED
  BY <1>8, <1>10

LEMMA DeleteSecretIfUnusedKeeps ==
    ASSUME ServerTypeOK, WorkerInv, worker # Idle, NEW m \in Names, DeleteSecretIfUnused(m)
    PROVE  ServerTypeOK' /\ WorkerInv'
<1>1. CASE worker' = Idle /\ UNCHANGED secrets
  BY <1>1, IdleTyped, WorkerInvIdle
     DEF DeleteSecretIfUnused, serverVars, secretVars, boundVars, ServerTypeOK
<1>2. CASE /\ secrets' = [secrets EXCEPT ![worker.db][m] = NoPassword]
           /\ worker' = [worker EXCEPT !.remove = @ \ {m}]
  <2>1. worker \in Reconciling /\ worker.pc = "removeSecrets"
    BY TypesOfWorker, WorkerAtWork DEF DeleteSecretIfUnused
  <2>2. /\ worker' \in Reconciling /\ worker'.pc = "removeSecrets"
        /\ worker'.remove = worker.remove \ {m} /\ worker'.wanted = worker.wanted
        /\ worker'.db = worker.db /\ worker'.add = worker.add /\ worker'.next = worker.next
        /\ worker'.listed = worker.listed /\ worker'.since = worker.since
    BY <1>2, <2>1 DEF Reconciling
  <2>3. WorkerTyped'
    BY <2>2, TypesOfWorker DEF WorkerTyped, DeleteSecretIfUnused, boundVars
  <2>4. secrets' \in [Databases -> [Migrations -> Passwords \cup {NoPassword}]]
    BY <1>2 DEF ServerTypeOK
  <2>5. ServerTypeOK'
    BY <2>3, <2>4
       DEF ServerTypeOK, WorkerTyped, Reconciling, DeleteSecretIfUnused, objectVars,
           serverVars, boundVars
  <2>6. worker.db \in Databases
    BY <2>1 DEF Reconciling
  <2>7. \A n \in Published(worker.db)' : n # m /\ n \in Published(worker.db)
    BY <1>2, <2>2, <2>6 DEF ServerTypeOK, Published
  <2>8. UNCHANGED <<users, backup>>
    BY DEF DeleteSecretIfUnused, serverVars
  <2>9. WorkerInv'
    BY <2>1, <2>2, <2>7, <2>8 DEF WorkerInv, Exists, Idle
  <2> QED
    BY <2>5, <2>9
<1> QED
  BY <1>1, <1>2 DEF DeleteSecretIfUnused

LEMMA ListUsernamesKeeps ==
    ASSUME ServerTypeOK, WorkerInv, worker # Idle, ListUsernames
    PROVE  ServerTypeOK' /\ WorkerInv'
<1> DEFINE listed == {u \in Migrations \cup lookalikes : Exists(u)}
<1>1. worker \in Reconciling /\ worker.pc = "removeSecrets" /\ worker.remove = {}
  BY TypesOfWorker, WorkerAtWork DEF ListUsernames
<1>2. listed \subseteq Names
  BY DEF ServerTypeOK, Names
<1>3. worker' = [worker EXCEPT !.pc = "removeUsers", !.remove = listed \ worker.wanted,
                               !.add = worker.wanted \ listed]
  BY DEF ListUsernames
<1>4. \A m \in Migrations : m \notin listed => ~Exists(m)
  OBVIOUS
<1> HIDE DEF listed
<1>5. /\ worker' \in Reconciling /\ worker'.pc = "removeUsers"
      /\ worker'.remove = listed \ worker.wanted /\ worker'.wanted = worker.wanted
      /\ worker'.db = worker.db /\ worker'.add = worker.wanted \ listed
      /\ worker'.next = worker.next /\ worker'.listed = worker.listed
      /\ worker'.since = worker.since
  BY <1>1, <1>2, <1>3 DEF Reconciling
<1>6. WorkerTyped'
  BY <1>5, TypesOfWorker DEF WorkerTyped, ListUsernames, boundVars
<1>7. ServerTypeOK'
  BY <1>6, MovesOnTyped DEF ListUsernames
<1>8. worker.wanted \subseteq Migrations
  BY <1>1 DEF Reconciling
<1>9. UNCHANGED <<users, secrets, backup>>
  BY DEF ListUsernames, serverVars, secretVars
<1>10. WorkerInv'
  BY <1>1, <1>4, <1>5, <1>8, <1>9 DEF WorkerInv, Exists, Published
<1> QED
  BY <1>7, <1>10

LEMMA CountSessionsKeeps ==
    ASSUME ServerTypeOK, WorkerInv, worker # Idle, NEW u \in Names, CountSessions(u)
    PROVE  ServerTypeOK' /\ WorkerInv'
<1>1. CASE worker' = Idle
  BY <1>1, IdleTyped, WorkerInvIdle
     DEF CountSessions, serverVars, boundVars, ServerTypeOK
<1>2. CASE worker' = [worker EXCEPT !.pc = "dropUser", !.target = u] /\ u # Admin
  <2>1. worker \in Reconciling /\ worker.pc = "removeUsers" /\ u \in worker.remove
    BY TypesOfWorker, WorkerAtWork DEF CountSessions
  <2>2. /\ worker' \in Reconciling /\ worker'.pc = "dropUser" /\ worker'.target = u
        /\ worker'.remove = worker.remove /\ worker'.wanted = worker.wanted
        /\ worker'.db = worker.db /\ worker'.add = worker.add /\ worker'.next = worker.next
        /\ worker'.listed = worker.listed /\ worker'.since = worker.since
    BY <1>2, <2>1 DEF Reconciling
  <2>3. UNCHANGED <<users, secrets, backup, restores>>
    BY DEF CountSessions, serverVars, secretVars, boundVars
  <2>4. ServerTypeOK'
    <3>1. WorkerTyped'
      BY <2>2, <2>3, TypesOfWorker DEF WorkerTyped
    <3> QED
      BY <3>1, MovesOnTyped DEF CountSessions
  <2>5. WorkerInv'
    BY <1>2, <2>1, <2>2, <2>3 DEF WorkerInv, Exists, Published, Overtaken
  <2> QED
    BY <2>4, <2>5
<1> QED
  BY <1>1, <1>2 DEF CountSessions

(***************************************************************************)
(* A statement on the accounts, whether it succeeds, fails before it took  *)
(* effect or fails after that.                                             *)
(***************************************************************************)
LEMMA IndirectSubstituteTyped ==
    ASSUME ServerTypeOK, NEW valid \in BOOLEAN, NEW accounts, NEW then,
           IndirectSubstitute(valid, accounts, then), passwords' \in 0 .. MaxPasswords,
           valid => accounts \in [Names -> Account \cup {Absent}],
           valid /\ worker' = then => WorkerTyped'
    PROVE  ServerTypeOK'
<1>1. /\ users' \in [Names -> Account \cup {Absent}] /\ failures' \in 0 .. MaxFailures
      /\ UNCHANGED <<objectVars, sessions, lookalikes, secretVars, backup, restores>>
  BY ServerAssumption DEF IndirectSubstitute, ServerTypeOK
<1>2. WorkerTyped'
  BY DEF IndirectSubstitute, WorkerTyped
<1> QED
  BY <1>1, <1>2 DEF ServerTypeOK, WorkerTyped, Reconciling, objectVars, secretVars

LEMMA IndirectSubstituteInv ==
    ASSUME WorkerInv, NEW valid \in BOOLEAN, NEW accounts, NEW then,
           IndirectSubstitute(valid, accounts, then),
           accounts[Admin] = users[Admin],
           valid /\ worker' = then /\ users' = accounts => WorkerInv'
    PROVE  WorkerInv'
<1>1. CASE worker' = Idle
  BY <1>1, WorkerInvIdle DEF IndirectSubstitute
<1>2. CASE valid /\ users' = accounts /\ worker' = then
  BY <1>2
<1> QED
  BY <1>1, <1>2 DEF IndirectSubstitute

LEMMA DropUserKeeps ==
    ASSUME ServerTypeOK, WorkerInv, worker # Idle, DropUser
    PROVE  ServerTypeOK' /\ WorkerInv'
<1> DEFINE accounts == [users EXCEPT ![worker.target] = Absent]
           then == [worker EXCEPT !.pc = "removeUsers", !.remove = @ \ {worker.target}]
           valid == Exists(worker.target)
<1>1. IndirectSubstitute(valid, accounts, then) /\ UNCHANGED passwords
  BY DEF DropUser
<1>2. worker \in Reconciling /\ worker.pc = "dropUser"
  BY TypesOfWorker, WorkerAtWork DEF DropUser
<1>3. /\ accounts \in [Names -> Account \cup {Absent}]
      /\ \A u \in Names : u # worker.target => accounts[u] = users[u]
      /\ \A u \in Names : users[u] = Absent => accounts[u] = Absent
  BY DEF ServerTypeOK
<1>4. /\ then \in Reconciling /\ then.pc = "removeUsers"
      /\ then.remove \subseteq worker.remove /\ then.wanted = worker.wanted
      /\ then.db = worker.db /\ then.add = worker.add /\ then.next = worker.next
      /\ then.listed = worker.listed /\ then.since = worker.since
  BY <1>2 DEF Reconciling
<1>5. worker.target # Admin /\ Admin \in Names
  BY <1>2, AdminIsNoMigration DEF WorkerInv
<1>0. valid \in BOOLEAN /\ UNCHANGED <<secrets, backup, restores>>
  BY <1>1 DEF Exists, IndirectSubstitute, secretVars
<1> HIDE DEF accounts, then, valid
<1>6. ASSUME worker' = then PROVE WorkerTyped'
  BY <1>0, <1>4, <1>6, TypesOfWorker DEF WorkerTyped
<1>7. ServerTypeOK'
  BY <1>0, <1>1, <1>3, <1>6, IndirectSubstituteTyped DEF ServerTypeOK
<1>8. ASSUME worker' = then, users' = accounts PROVE WorkerInv'
  <2>1. worker.add \subseteq Names
    BY <1>2 DEF Reconciling, Names
  <2> QED
    BY <1>0, <1>2, <1>3, <1>4, <1>5, <1>8, <2>1 DEF WorkerInv, Exists, Published, Overtaken
<1> QED
  BY <1>0, <1>1, <1>3, <1>5, <1>7, <1>8, IndirectSubstituteInv

LEMMA CreateUserKeeps ==
    ASSUME ServerTypeOK, WorkerInv, worker # Idle, NEW m \in Names, CreateUser(m)
    PROVE  ServerTypeOK' /\ WorkerInv'
<1> DEFINE account == [password |-> passwords', grants |-> {}]
           accounts == [users EXCEPT ![m] = account]
           then == [worker EXCEPT !.pc = "grant", !.target = m]
           valid == ~Exists(m)
<1>1. IndirectSubstitute(valid, accounts, then) /\ passwords' = passwords + 1
  BY DEF CreateUser
<1>2. worker \in Reconciling /\ worker.pc = "removeUsers" /\ m \in worker.add
  BY TypesOfWorker, WorkerAtWork DEF CreateUser
<1>3. m \in Migrations /\ m # Admin
  BY <1>2, AdminIsNoMigration DEF Reconciling
<1>4. passwords' \in 1 .. MaxPasswords /\ passwords' > 0
  BY ServerAssumption DEF CreateUser, ServerTypeOK
<1>5. account \in Account /\ account.password = passwords'
  BY <1>4 DEF Account, Passwords
<1> HIDE DEF account
<1>6. /\ accounts \in [Names -> Account \cup {Absent}]
      /\ accounts[m] = account
      /\ \A u \in Names : u # m => accounts[u] = users[u]
  BY <1>5 DEF ServerTypeOK
<1>7. /\ then \in Reconciling /\ then.pc = "grant" /\ then.target = m
      /\ then.remove = worker.remove /\ then.wanted = worker.wanted
      /\ then.db = worker.db /\ then.add = worker.add /\ then.next = worker.next
      /\ then.listed = worker.listed /\ then.since = worker.since
  BY <1>2 DEF Reconciling
<1>0. valid \in BOOLEAN /\ UNCHANGED <<secrets, backup, restores>>
  BY <1>1 DEF Exists, IndirectSubstitute, secretVars
<1> HIDE DEF accounts, then, valid
<1>8. ASSUME worker' = then PROVE WorkerTyped'
  BY <1>0, <1>7, <1>8, TypesOfWorker DEF WorkerTyped
<1>9. passwords' \in 0 .. MaxPasswords
  BY <1>4
<1>10. ServerTypeOK'
  BY <1>0, <1>1, <1>6, <1>8, <1>9, IndirectSubstituteTyped
<1>11. ASSUME worker' = then, users' = accounts PROVE WorkerInv'
  <2>1. worker.add \subseteq Names /\ Admin \in Names
    BY <1>2, AdminIsNoMigration DEF Reconciling, Names
  <2> QED
    BY <1>0, <1>2, <1>3, <1>4, <1>5, <1>6, <1>7, <1>11, <2>1
       DEF WorkerInv, Exists, Published, Overtaken
<1> QED
  BY <1>0, <1>1, <1>3, <1>6, <1>10, <1>11, IndirectSubstituteInv, AdminIsNoMigration

LEMMA GrantKeeps ==
    ASSUME ServerTypeOK, WorkerInv, worker # Idle, Grant
    PROVE  ServerTypeOK' /\ WorkerInv'
<1> DEFINE t == worker.target
           account == [users[t] EXCEPT !.grants = @ \cup {worker.db}]
           accounts == [users EXCEPT ![t].grants = @ \cup {worker.db}]
           then == [worker EXCEPT !.pc = "writeSecret"]
           valid == Exists(t)
<1>1. IndirectSubstitute(valid, accounts, then) /\ UNCHANGED passwords
  BY DEF Grant
<1>2. worker \in Reconciling /\ worker.pc = "grant"
  BY TypesOfWorker, WorkerAtWork DEF Grant
<1>3. t \in Migrations /\ t \in Names /\ t # Admin /\ worker.db \in Databases
  BY <1>2, AdminIsNoMigration DEF Reconciling, WorkerInv, Names
<1>4. ASSUME valid PROVE users[t] \in Account
  BY <1>3, <1>4 DEF ServerTypeOK, Exists
<1>5. accounts = [users EXCEPT ![t] = account]
  BY <1>3 DEF ServerTypeOK
<1>6. ASSUME valid
      PROVE  /\ account \in Account /\ account.password = users[t].password
             /\ worker.db \in account.grants
  BY <1>3, <1>4, <1>6 DEF Account
<1>7. /\ then \in Reconciling /\ then.pc = "writeSecret" /\ then.target = t
      /\ then.remove = worker.remove /\ then.wanted = worker.wanted
      /\ then.db = worker.db /\ then.add = worker.add /\ then.next = worker.next
      /\ then.listed = worker.listed /\ then.since = worker.since
  BY <1>2 DEF Reconciling
<1>8. valid \in BOOLEAN /\ UNCHANGED <<secrets, backup, restores>>
  BY <1>1 DEF Exists, IndirectSubstitute, secretVars
<1> HIDE DEF account, accounts, then, valid, t
<1>9. /\ valid => accounts \in [Names -> Account \cup {Absent}]
      /\ accounts[t] = account
      /\ \A u \in Names : u # t => accounts[u] = users[u]
  BY <1>3, <1>5, <1>6 DEF ServerTypeOK
<1>10. ASSUME worker' = then PROVE WorkerTyped'
  BY <1>7, <1>8, <1>10, TypesOfWorker DEF WorkerTyped
<1>11. ServerTypeOK'
  BY <1>1, <1>8, <1>9, <1>10, IndirectSubstituteTyped DEF ServerTypeOK
<1>12. ASSUME valid, worker' = then, users' = accounts PROVE WorkerInv'
  <2>1. worker.add \subseteq Names /\ Admin \in Names
    BY <1>2, AdminIsNoMigration DEF Reconciling, Names
  <2> QED
    BY <1>1, <1>2, <1>3, <1>6, <1>7, <1>8, <1>9, <1>12, <2>1
       DEF WorkerInv, Exists, Published, Overtaken, t
<1> QED
  BY <1>1, <1>3, <1>8, <1>9, <1>11, <1>12, IndirectSubstituteInv, AdminIsNoMigration

LEMMA WriteCredentialsSecretKeeps ==
    ASSUME ServerTypeOK, WorkerInv, worker # Idle, WriteCredentialsSecret
    PROVE  ServerTypeOK' /\ WorkerInv'
<1>1. worker \in Reconciling /\ worker.pc = "writeSecret"
  BY TypesOfWorker, WorkerAtWork DEF WriteCredentialsSecret
<1>2. CASE worker' = Idle /\ UNCHANGED secrets
  BY <1>2, IdleTyped, WorkerInvIdle
     DEF WriteCredentialsSecret, serverVars, secretVars, boundVars, ServerTypeOK
<1>3. CASE /\ secrets' = [secrets EXCEPT ![worker.db][worker.target] = passwords]
           /\ worker' = [worker EXCEPT !.pc = "removeUsers", !.add = @ \ {worker.target}]
  <2>1. /\ worker' \in Reconciling /\ worker'.pc = "removeUsers"
        /\ worker'.remove = worker.remove /\ worker'.wanted = worker.wanted
        /\ worker'.db = worker.db /\ worker'.add = worker.add \ {worker.target}
        /\ worker'.next = worker.next /\ worker'.listed = worker.listed
        /\ worker'.since = worker.since
    BY <1>1, <1>3 DEF Reconciling
  <2>2. WorkerTyped'
    BY <2>1, TypesOfWorker DEF WorkerTyped, WriteCredentialsSecret, boundVars
  <2>3. passwords \in Passwords /\ worker.target \in worker.add
    BY <1>1, ServerAssumption DEF WorkerInv, ServerTypeOK, Passwords
  <2>4. secrets' \in [Databases -> [Migrations -> Passwords \cup {NoPassword}]]
    BY <1>3, <2>3 DEF ServerTypeOK
  <2>5. ServerTypeOK'
    BY <2>2, <2>4
       DEF ServerTypeOK, WorkerTyped, Reconciling, WriteCredentialsSecret, objectVars,
           serverVars, boundVars
  <2>6. worker.db \in Databases /\ worker.target \in worker.wanted
    BY <1>1, <2>3, TypesOfWorker DEF Reconciling, WorkerTyped
  <2>7. \A n \in Published(worker.db)' : n = worker.target \/ n \in Published(worker.db)
    BY <1>3, <2>1, <2>6 DEF ServerTypeOK, Published
  <2>8. UNCHANGED <<users, backup, restores>>
    BY DEF WriteCredentialsSecret, serverVars, boundVars
  <2>9. WorkerInv'
    BY <1>1, <2>1, <2>6, <2>7, <2>8 DEF WorkerInv, Exists, Overtaken
  <2> QED
    BY <2>5, <2>9
<1> QED
  BY <1>2, <1>3 DEF WriteCredentialsSecret

LEMMA EndKeeps ==
    ASSUME ServerTypeOK, WorkerInv, worker # Idle,
           Finish \/ FailOrCrash \/ \E m \in Names : RandPasswordFails(m)
    PROVE  ServerTypeOK' /\ WorkerInv'
<1>1. worker' = Idle /\ UNCHANGED <<users, backup>>
  BY DEF Finish, FailOrCrash, RandPasswordFails, serverVars
<1>2. WorkerInv'
  BY <1>1, WorkerInvIdle
<1>3. CASE Finish
  <2>1. worker \in Reconciling
    BY TypesOfWorker, WorkerAtWork DEF Finish
  <2>2. worker.next <= Len(MigrationsOf[worker.db]) /\ worker.next \in Nat
    BY <2>1 DEF ServerTypeOK, Reconciling
  <2>3. Positions(job')
    BY <1>3, <2>1, <2>2 DEF Finish, ServerTypeOK, Positions, Reconciling
  <2> QED
    BY <1>2, <1>3, <2>3 DEF Finish, ServerTypeOK, serverVars, secretVars, boundVars
<1>4. CASE FailOrCrash
  BY <1>1, <1>2, <1>4, IdleTyped, ServerAssumption DEF FailOrCrash, ServerTypeOK
<1>5. CASE \E m \in Names : RandPasswordFails(m)
  BY <1>1, <1>2, <1>5, IdleTyped DEF RandPasswordFails, ServerTypeOK, boundVars
<1> QED
  BY <1>3, <1>4, <1>5

-----------------------------------------------------------------------------
LEMMA NextKeeps ==
    ASSUME ServerTypeOK, WorkerInv, [ServerNext]_vars
    PROVE  ServerTypeOK' /\ WorkerInv'
<1>1. CASE Reconcile
  BY <1>1, BeginKeeps, DeleteSecretIfUnusedKeeps, ListUsernamesKeeps, CountSessionsKeeps,
     DropUserKeeps, CreateUserKeeps, GrantKeeps, WriteCredentialsSecretKeeps, EndKeeps
     DEF Reconcile
<1>2. CASE FailOrCrash
  BY <1>2, EndKeeps DEF FailOrCrash
<1>3. CASE Others
  BY <1>3, OthersTyped, OthersLeaveAlone, WorkerInvKept
<1>4. CASE \E whole \in BOOLEAN : Restore(whole)
  BY <1>4, RestoreKeeps
<1>5. CASE UNCHANGED vars
  <2>1. ServerTypeOK'
    BY <1>5 DEF vars, ServerTypeOK, objectVars, serverVars, secretVars, boundVars
  <2> QED
    BY <1>5, <2>1, WorkerInvKept DEF vars, serverVars, secretVars, boundVars
<1> QED
  BY <1>1, <1>2, <1>3, <1>4, <1>5 DEF ServerNext, Others

(***************************************************************************)
(* Type correctness, and what a reconcile holds about the accounts, for    *)
(* any number of databases on the server.                                  *)
(***************************************************************************)
THEOREM ServerTypes == ServerSpec => [](ServerTypeOK /\ WorkerInv)
BY InitTyped, NextKeeps, PTL DEF ServerSpec

(***************************************************************************)
(* The operator never drops the user it is connected as.                   *)
(***************************************************************************)
THEOREM AdminStays == ServerSpec => AdminKept
<1>1. ServerTypeOK /\ WorkerInv /\ [ServerNext]_vars => [Exists(Admin)']_vars
  BY NextKeeps DEF WorkerInv
<1> QED
  BY <1>1, ServerTypes, PTL DEF ServerSpec, AdminKept

-----------------------------------------------------------------------------
(***************************************************************************)
(* Published Secrets, one database and one migration at a time.            *)
(***************************************************************************)

\* Neither user nor Secret changes, or the Secret goes.
LEMMA NothingTaken ==
    ASSUME UNCHANGED users, NEW d \in Databases, NEW m \in Migrations,
           secrets'[d][m] \in {secrets[d][m], NoPassword}
    PROVE  StaysOpen(d, m)
BY DEF StaysOpen, Opens, Published

\* Accounts that keep the user's password and grants keep the Secret open.
LEMMA AccountsStillOpen ==
    ASSUME UNCHANGED secrets, NEW accounts, users' \in {users, accounts},
           NEW d \in Databases, NEW m \in Migrations,
           Opens(d, m) => /\ accounts[m].password = users[m].password
                          /\ users[m].grants \subseteq accounts[m].grants
    PROVE  StaysOpen(d, m)
BY DEF StaysOpen, Opens, Published

LEMMA DropUserOpens ==
    ASSUME ServerTypeOK, WorkerInv, worker # Idle, DropUser,
           NEW d \in Databases, NEW m \in Migrations
    PROVE  StaysOpen(d, m)
<1> DEFINE accounts == [users EXCEPT ![worker.target] = Absent]
<1>1. worker \in Reconciling /\ worker.pc = "dropUser"
  BY TypesOfWorker, WorkerAtWork DEF DropUser
<1>2. worker.target \in worker.remove /\ worker.target \notin worker.wanted
  BY <1>1, TypesOfWorker DEF WorkerInv, WorkerTyped
<1>3. UNCHANGED secrets /\ users' \in {users, accounts}
  BY DEF DropUser, IndirectSubstitute, secretVars
<1>4. CASE m # worker.target
  <2>1. accounts[m] = users[m]
    BY <1>4 DEF ServerTypeOK, Names
  <2> HIDE DEF accounts
  <2> QED
    BY <1>3, <2>1, AccountsStillOpen
<1>5. CASE m = worker.target
  <2>1. ASSUME Opens(d, m), worker.db = d PROVE m \notin worker.listed
    BY <1>1, <1>2, <1>5, <2>1 DEF WorkerInv, Opens, Published
  <2>2. m \in Published(d)' => m \in Published(d)
    BY <1>3 DEF Published
  <2> QED
    BY <1>5, <2>1, <2>2 DEF StaysOpen
<1> QED
  BY <1>4, <1>5

LEMMA CreateUserOpens ==
    ASSUME ServerTypeOK, WorkerInv, worker # Idle, NEW n \in Names, CreateUser(n),
           NEW d \in Databases, NEW m \in Migrations
    PROVE  StaysOpen(d, m)
<1> DEFINE accounts == [users EXCEPT ![n] = [password |-> passwords', grants |-> {}]]
<1>1. UNCHANGED secrets /\ users' \in {users, accounts} /\ (Exists(n) => UNCHANGED users)
  BY DEF CreateUser, IndirectSubstitute, secretVars
<1>2. CASE Exists(n)
  BY <1>1, <1>2, NothingTaken
<1>3. CASE ~Exists(n)
  <2>1. Opens(d, m) => m # n
    BY <1>3 DEF Opens, Exists, Absent
  <2>2. m # n => accounts[m] = users[m]
    BY DEF ServerTypeOK, Names
  <2> HIDE DEF accounts
  <2> QED
    BY <1>1, <2>1, <2>2, AccountsStillOpen
<1> QED
  BY <1>2, <1>3

LEMMA GrantOpens ==
    ASSUME ServerTypeOK, WorkerInv, worker # Idle, Grant,
           NEW d \in Databases, NEW m \in Migrations
    PROVE  StaysOpen(d, m)
<1> DEFINE t == worker.target
           accounts == [users EXCEPT ![t].grants = @ \cup {worker.db}]
<1>1. worker \in Reconciling
  BY TypesOfWorker, WorkerAtWork
<1>2. UNCHANGED secrets /\ users' \in {users, accounts} /\ (~Exists(t) => UNCHANGED users)
  BY DEF Grant, IndirectSubstitute, secretVars
<1>3. CASE ~Exists(t)
  BY <1>2, <1>3, NothingTaken
<1>4. CASE Exists(t)
  <2>1. t \in Names /\ users[t] \in Account
    BY <1>1, <1>4 DEF ServerTypeOK, Exists, Reconciling
  <2>2. accounts[t] = [users[t] EXCEPT !.grants = @ \cup {worker.db}]
    BY <2>1 DEF ServerTypeOK
  <2>3. accounts[t].password = users[t].password /\ users[t].grants \subseteq accounts[t].grants
    BY <2>1, <2>2 DEF Account
  <2>4. m # t => accounts[m] = users[m]
    BY <2>1 DEF ServerTypeOK, Names
  <2> HIDE DEF accounts, t
  <2> QED
    BY <1>2, <2>3, <2>4, AccountsStillOpen
<1> QED
  BY <1>3, <1>4

LEMMA DeleteSecretOpens ==
    ASSUME ServerTypeOK, worker # Idle, NEW u, DeleteSecretIfUnused(u),
           NEW d \in Databases, NEW m \in Migrations
    PROVE  StaysOpen(d, m)
<1>1. worker.db \in Databases
  BY TypesOfWorker, WorkerAtWork DEF Reconciling
<1>2. UNCHANGED users
  BY DEF DeleteSecretIfUnused, serverVars
<1>3. secrets'[d][m] \in {secrets[d][m], NoPassword}
  <2>1. CASE UNCHANGED secrets
    BY <2>1
  <2>2. CASE secrets' = [secrets EXCEPT ![worker.db][u] = NoPassword]
    BY <1>1, <2>2 DEF ServerTypeOK
  <2> QED
    BY <2>1, <2>2 DEF DeleteSecretIfUnused
<1> QED
  BY <1>2, <1>3, NothingTaken

LEMMA WriteCredentialsSecretOpens ==
    ASSUME ServerTypeOK, WorkerInv, worker # Idle, WriteCredentialsSecret,
           NEW d \in Databases, NEW m \in Migrations
    PROVE  StaysOpen(d, m)
<1>1. worker \in Reconciling /\ worker.pc = "writeSecret"
  BY TypesOfWorker, WorkerAtWork DEF WriteCredentialsSecret
<1>2. worker.db \in Databases /\ worker.target \in Migrations
  BY <1>1 DEF Reconciling, WorkerInv
<1>3. /\ passwords > 0
      /\ ~Overtaken => /\ users[worker.target].password = passwords
                       /\ worker.db \in users[worker.target].grants
  BY <1>1 DEF WorkerInv
<1>4. UNCHANGED users
  BY DEF WriteCredentialsSecret, serverVars
<1>5. \/ secrets'[d][m] = secrets[d][m]
      \/ /\ d = worker.db /\ m = worker.target
         /\ secrets[d][m] = NoPassword /\ secrets'[d][m] = passwords
  BY <1>2 DEF WriteCredentialsSecret, ServerTypeOK, Published
<1>6. CASE secrets'[d][m] = secrets[d][m]
  BY <1>4, <1>6, NothingTaken
<1>7. CASE /\ d = worker.db /\ m = worker.target
           /\ secrets[d][m] = NoPassword /\ secrets'[d][m] = passwords
  <2>1. ~Overtaken => Opens(d, m)'
    BY <1>3, <1>4, <1>7 DEF Opens, NoPassword, ServerTypeOK
  <2>2. ~Opens(d, m)
    BY <1>7 DEF Opens
  <2> QED
    BY <2>1, <2>2 DEF StaysOpen
<1> QED
  BY <1>5, <1>6, <1>7

LEMMA RestoreOpens ==
    ASSUME NEW whole \in BOOLEAN, Restore(whole),
           NEW d \in Databases, NEW m \in Migrations
    PROVE  StaysOpen(d, m)
<1>1. UNCHANGED secrets /\ (~whole => UNCHANGED users)
  BY DEF Restore, secretVars
<1>2. CASE whole
  <2>1. Restore(TRUE)
    BY <1>2
  <2>2. m \in Published(d)' => m \in Published(d)
    BY <1>1 DEF Published
  <2> QED
    BY <2>1, <2>2 DEF StaysOpen
<1>3. CASE ~whole
  BY <1>1, <1>3, NothingTaken
<1> QED
  BY <1>2, <1>3

(***************************************************************************)
(* A Secret the operator publishes opens its database, and stops opening   *)
(* it only when the accounts are restored or when a reconcile, of another  *)
(* database or with a list that did not show the Secret, drops the user:   *)
(* for any number of databases on the server, through crashes between the  *)
(* statements, statements that fail after they took effect, lagging lists  *)
(* of Secrets and restores at any moment.                                  *)
(***************************************************************************)
THEOREM SecretsOpen == ServerSpec => SecretsStayOpen
<1>1. ASSUME ServerTypeOK, WorkerInv, [ServerNext]_vars
      PROVE  [\A d \in Databases, m \in Migrations : StaysOpen(d, m)]_vars
  <2> SUFFICES ASSUME ServerNext, NEW d \in Databases, NEW m \in Migrations
               PROVE  StaysOpen(d, m)
    BY <1>1
  <2>1. CASE UNCHANGED <<users, secrets>>
    BY <2>1, NothingTaken
  <2>2. CASE Reconcile
    <3>1. CASE /\ worker # Idle
               /\ \/ DropUser \/ Grant \/ WriteCredentialsSecret
                  \/ \E u \in Names : DeleteSecretIfUnused(u) \/ CreateUser(u)
      BY <1>1, <3>1, DropUserOpens, GrantOpens, WriteCredentialsSecretOpens,
         DeleteSecretOpens, CreateUserOpens
    <3> QED
      BY <2>1, <2>2, <3>1
         DEF Reconcile, Begin, ListUsernames, CountSessions, RandPasswordFails, Finish,
             serverVars, secretVars
  <2>3. CASE FailOrCrash
    BY <2>1, <2>3 DEF FailOrCrash, serverVars, secretVars
  <2>4. CASE Others
    BY <2>1, <2>4, OthersLeaveAlone
  <2>5. CASE \E whole \in BOOLEAN : Restore(whole)
    BY <2>5, RestoreOpens
  <2> QED
    BY <2>2, <2>3, <2>4, <2>5 DEF ServerNext, Others
<1> QED
  BY <1>1, ServerTypes, PTL DEF ServerSpec, SecretsStayOpen
=============================================================================
