--------------------------- MODULE BlockedDatabases ---------------------------
(***************************************************************************)
(* How a ManagedDatabase that cannot proceed is parked and woken again:    *)
(* handleError labels the object with the migration that blocks it, and    *)
(* ReconcileDatabaseMigration removes the label, which is an update event  *)
(* for the ManagedDatabase.                                                *)
(*                                                                         *)
(* The object is kept at the level the protocol depends on: the API server *)
(* refuses a write whose resourceVersion is old, a write that changes      *)
(* nothing causes no event, Update leaves the status alone and Status()    *)
(* everything else, and the answer to a write overwrites the copy in       *)
(* memory. A resourceVersion is kept as a flag: the copy is, or is not,    *)
(* the current version. Of the status only the errors are kept; a new      *)
(* CurrentVersion in it is one more event. Those of Jobs and Secrets, and  *)
(* the resync of the informers every ten hours, are left out as well: they *)
(* could only wake more. A Get from the cache fails only for an object     *)
(* that is not there.                                                      *)
(***************************************************************************)
EXTENDS Naturals, FiniteSets, Chains

CONSTANTS
    LongNames,         \* migrations whose namespace.name is no valid label value
    DbName,            \* the label value made of the database's own name
    NoLabel,
    NoErrors,
    MaxEdits,          \* bound: edits of the objects by people
    MaxFaults,         \* bound: failures of calls that are reported as errors
    MaxListFailures,   \* bound: failing lists of ReconcileDatabaseMigration
    MaxRestarts,       \* bound: restarts of the operator
    MaxUpsets          \* bound: all of these together

\* How a reconcile ends, and the migration it was about: for "missing" the one not found.
Result == [kind : {"done", "missing", "invalid", "objected", "fault", "temporary"},
           migration : Migrations]

ASSUME BlockedAssumption ==
    /\ LongNames \subseteq Migrations /\ Migrations # {}
    /\ NoVersion \notin Migrations /\ Previous \in [Migrations -> Versions]
    /\ NoLabel # DbName /\ {NoLabel, DbName} \cap Migrations = {}
    /\ NoErrors \notin Result
    /\ {MaxEdits, MaxFaults, MaxListFailures, MaxRestarts, MaxUpsets} \subseteq Nat

VARIABLES
    object,        \* the ManagedDatabase on the API server
    view,          \* the same in the operator's cache
    viewFresh,     \* the cache has the current version
    migrations,    \* the DatabaseMigrations on the API server
    migrationView, \* the same in the cache
    version,       \* the schema version in the database
    mdQueued,      \* the work queues of the two controllers
    dmQueue,
    md,            \* ReconcileManagedDatabase, see Working and Writing
    dm,            \* ReconcileDatabaseMigration: pc, the request, the copy, is it current
    outcome,       \* the result of the last finished ReconcileManagedDatabase
    used           \* how much of the bounds is used up

vars == <<object, view, viewFresh, migrations, migrationView, version, mdQueued, dmQueue, md,
          dm, outcome, used>>

States == {"absent", "invalid", "objected", "good"}
Idle == [pc |-> "idle"]
Label == Migrations \cup {DbName, NoLabel}
ManagedDatabase == [desired : Migrations, label : Label, errors : Result \cup {NoErrors}]

(***************************************************************************)
(* A reconcile has its copy of the object, and whether that is current.    *)
(* First it looks for the migration to run, with currentDbVersion,         *)
(* needVersion, and nextVersion with what its hints are; then it has a     *)
(* result, and writes.                                                     *)
(***************************************************************************)
AtWork == {"version", "walk", "hints"}
Working == [pc : AtWork, copy : ManagedDatabase, fresh : BOOLEAN,
            current : Versions, need : Versions, next : Versions,
            hints : States \ {"absent"}]
Writing == [pc : {"label", "status"}, copy : ManagedDatabase, fresh : BOOLEAN, result : Result]

(***************************************************************************)
(* The values have their types, and a copy that passes for the current     *)
(* version has the object's specification.                                 *)
(***************************************************************************)
BlockedTypeOK ==
    /\ object \in ManagedDatabase
    /\ view \in ManagedDatabase
    /\ viewFresh \in BOOLEAN
    /\ viewFresh => view = object
    /\ migrations \in [Migrations -> States]
    /\ migrationView \in [Migrations -> States]
    /\ mdQueued \in BOOLEAN
    /\ dmQueue \subseteq Migrations
    /\ version \in Versions
    /\ md \in {Idle} \cup Working \cup Writing
    /\ md # Idle /\ md.fresh => md.copy.desired = object.desired
    /\ dm \in {Idle} \cup [pc : {"update"}, request : Migrations, copy : ManagedDatabase,
                           fresh : BOOLEAN]
    /\ dm # Idle /\ dm.fresh => dm.copy = [object EXCEPT !.label = NoLabel]
    /\ outcome \in Result
    /\ used \in [edits : Nat, faults : Nat, lists : Nat, restarts : Nat]

BlockedInit ==
    /\ \E m \in Migrations :
          /\ object = [desired |-> m, label |-> NoLabel, errors |-> NoErrors]
          /\ outcome = [kind |-> "done", migration |-> m]
    /\ view = object /\ viewFresh = TRUE
    /\ migrations \in [Migrations -> {"absent", "good"}]
    /\ version \in Versions
    /\ migrationView = migrations
    /\ mdQueued = TRUE
    /\ dmQueue = {m \in Migrations : migrations[m] # "absent"}
    /\ md = Idle /\ dm = Idle
    /\ used = [edits |-> 0, faults |-> 0, lists |-> 0, restarts |-> 0]

Use(what, bound) ==
    /\ used[what] < bound
    /\ used.edits + used.faults + used.lists + used.restarts < MaxUpsets
    /\ used' = [used EXCEPT ![what] = @ + 1]

-----------------------------------------------------------------------------
(***************************************************************************)
(* The API server stores a version. If it is a new one, every other copy   *)
(* is old from now on, and the cache will hear of it.                      *)
(***************************************************************************)
Aged(process, new) ==
    IF process = Idle \/ new = object THEN process ELSE [process EXCEPT !.fresh = FALSE]

Store(new) ==
    /\ object' = new
    /\ viewFresh' = (viewFresh /\ new = object)

\* Somebody edits the specification of the ManagedDatabase.
EditDatabase(m) ==
    /\ m # object.desired
    /\ Use("edits", MaxEdits)
    /\ LET new == [object EXCEPT !.desired = m]
       IN  Store(new) /\ md' = Aged(md, new) /\ dm' = Aged(dm, new)
    /\ UNCHANGED <<view, migrations, migrationView, version, mdQueued, dmQueue, outcome>>

\* Somebody creates, changes or deletes a DatabaseMigration.
EditMigration(m, state) ==
    /\ state # migrations[m]
    /\ Use("edits", MaxEdits)
    /\ migrations' = [migrations EXCEPT ![m] = state]
    /\ UNCHANGED <<object, view, viewFresh, migrationView, version, mdQueued, dmQueue, md, dm,
                   outcome>>

\* A container writes the schema version, or somebody restores a backup.
MoveVersion(v) ==
    /\ v # version
    /\ Use("edits", MaxEdits)
    /\ version' = v
    /\ UNCHANGED <<object, view, viewFresh, migrations, migrationView, mdQueued, dmQueue, md, dm,
                   outcome>>

\* The informers: the cache catches up and the object is queued (SetupWithManager).
DeliverDatabase ==
    /\ ~viewFresh
    /\ view' = object /\ viewFresh' = TRUE
    /\ mdQueued' = TRUE
    /\ UNCHANGED <<object, migrations, migrationView, version, dmQueue, md, dm, outcome, used>>

DeliverMigration(m) ==
    /\ migrationView[m] # migrations[m]
    /\ migrationView' = [migrationView EXCEPT ![m] = migrations[m]]
    /\ dmQueue' = dmQueue \cup {m}
    /\ UNCHANGED <<object, view, viewFresh, migrations, version, mdQueued, md, dm, outcome, used>>

-----------------------------------------------------------------------------
\* Seeded bug: the copy passes for the current version whatever the cache had.
ReconcileManagedDatabase_Current ==
    /\ md = Idle /\ mdQueued
    /\ mdQueued' = FALSE
    /\ md' = [pc |-> "version", copy |-> [view EXCEPT !.label = NoLabel, !.errors = NoErrors],
              fresh |-> TRUE, current |-> NoVersion, need |-> view.desired,
              next |-> NoVersion, hints |-> "good"]
    /\ UNCHANGED <<object, view, viewFresh, migrations, migrationView, version, dmQueue, dm,
                   outcome, used>>

\* ReconcileManagedDatabase, the Get from the cache and the normalisation.
ReconcileManagedDatabase ==
    /\ md = Idle /\ mdQueued
    /\ mdQueued' = FALSE
    /\ md' = [pc |-> "version", copy |-> [view EXCEPT !.label = NoLabel, !.errors = NoErrors],
              fresh |-> viewFresh, current |-> NoVersion, need |-> view.desired,
              next |-> NoVersion, hints |-> "good"]
    /\ UNCHANGED <<object, view, viewFresh, migrations, migrationView, version, dmQueue, dm,
                   outcome, used>>

\* The label handleError sets for an error that names a migration.
BlockingLabel(result) ==
    CASE result.kind = "missing" -> result.migration
      [] result.kind = "invalid" -> DbName
      [] OTHER -> NoLabel

(***************************************************************************)
(* The way to handleError, or to the status without it: how the reconcile  *)
(* ends, because of which migration, and what it is going to write.        *)
(***************************************************************************)
Decide(kind, m) ==
    /\ LET result == [kind |-> kind, migration |-> m]
       IN  md' = [pc |-> IF kind \in {"missing", "invalid"} THEN "label" ELSE "status",
                  copy |-> [md.copy EXCEPT !.label = BlockingLabel(result),
                                           !.errors = IF kind = "done" THEN NoErrors ELSE result],
                  fresh |-> md.fresh,
                  result |-> result]
    /\ UNCHANGED <<object, view, viewFresh, migrations, migrationView, version, mdQueued,
                   dmQueue, dm, outcome>>

\* The connections are opened and currentDbVersion is read.
GetSchemaVersion ==
    /\ md.pc = "version"
    /\ md' = [md EXCEPT !.pc = "walk", !.current = version]
    /\ UNCHANGED <<object, view, viewFresh, migrations, migrationView, version, mdQueued,
                   dmQueue, dm, outcome, used>>

\* The loop from the desired version back to the current one has a migration to load.
Walking == md.pc = "walk" /\ md.need # md.current /\ md.need # NoVersion

\* One round of the loop: loadMigration finds needVersion in the cache.
WalkBack ==
    /\ Walking /\ migrationView[md.need] # "absent"
    /\ md' = [md EXCEPT !.next = md.need, !.hints = migrationView[md.need],
                        !.need = Previous[md.need]]
    /\ UNCHANGED <<object, view, viewFresh, migrations, migrationView, version, mdQueued,
                   dmQueue, dm, outcome, used>>

\* Seeded bug: the label names the desired migration whichever one is missing.
WalkStops_Desired ==
    /\ Walking /\ migrationView[md.need] = "absent"
    /\ Decide("missing", md.copy.desired)
    /\ UNCHANGED used

\* loadMigration does not find needVersion.
WalkStops ==
    /\ Walking /\ migrationView[md.need] = "absent"
    /\ Decide("missing", md.need)
    /\ UNCHANGED used

\* The loop came to the end of the chain without meeting the current version.
NoPath ==
    /\ md.pc = "walk" /\ md.need = NoVersion /\ md.current # NoVersion
    /\ Decide("fault", md.copy.desired)
    /\ UNCHANGED used

\* The migration of the current version, if it has one, is loaded as well.
LoadActiveVersion ==
    /\ md.pc = "walk" /\ md.need = md.current
    /\ IF md.current # NoVersion /\ migrationView[md.current] = "absent"
       THEN Decide("missing", md.current)
       ELSE /\ md' = [md EXCEPT !.pc = "hints"]
            /\ UNCHANGED <<object, view, viewFresh, migrations, migrationView, version, mdQueued,
                           dmQueue, dm, outcome>>
    /\ UNCHANGED used

\* The hints of nextVersion as it was loaded, the Job, and the end of the reconcile.
ProcessHints ==
    /\ md.pc = "hints"
    /\ IF md.next = NoVersion THEN Decide("done", md.copy.desired)
       ELSE Decide(IF md.hints = "good" THEN "done" ELSE md.hints, md.next)
    /\ UNCHANGED used

\* Any other call of the reconcile fails.
WorkFails ==
    /\ md.pc \in AtWork
    /\ Use("faults", MaxFaults)
    /\ \E kind \in {"fault", "temporary"} : Decide(kind, md.copy.desired)

\* ReconcileManagedDatabase returns; a returned error puts the request back.
Return(requeue) ==
    /\ md' = Idle
    /\ mdQueued' = (mdQueued \/ requeue)
    /\ outcome' = md.result

\* A write is refused: an old version, or a label value that is none.
Refused == ~md.fresh \/ (md.pc = "label" /\ md.copy.label \in LongNames)

WriteRefused ==
    /\ md.pc \in {"label", "status"} /\ Refused
    /\ Return(TRUE)
    /\ UNCHANGED <<object, view, viewFresh, migrations, migrationView, version, dmQueue, dm, used>>

\* Seeded bug: the whole object is written without a resourceVersion.
UpdateLabel_Unversioned ==
    /\ md.pc = "label" /\ md.copy.label \notin LongNames
    /\ LET new == [md.copy EXCEPT !.errors = object.errors]
       IN  /\ Store(new)
           /\ dm' = Aged(dm, new)
    /\ md' = [md EXCEPT !.pc = "status", !.fresh = TRUE]
    /\ UNCHANGED <<view, migrations, migrationView, version, mdQueued, dmQueue, outcome, used>>

\* Seeded bug: the label is only written where there was none.
UpdateLabel_Once ==
    /\ md.pc = "label" /\ ~Refused
    /\ LET new == IF object.label = NoLabel THEN [md.copy EXCEPT !.errors = object.errors]
                                            ELSE object
       IN  /\ Store(new)
           /\ dm' = Aged(dm, new)
    /\ md' = [md EXCEPT !.pc = "status",
                        !.copy.errors = IF object.errors = NoErrors THEN @ ELSE object.errors]
    /\ UNCHANGED <<view, migrations, migrationView, version, mdQueued, dmQueue, outcome, used>>

(***************************************************************************)
(* handleError, Update: everything but the status is written, and the      *)
(* answer puts the stored errors, if there are any, into the copy.         *)
(***************************************************************************)
UpdateLabel ==
    /\ md.pc = "label" /\ ~Refused
    /\ LET new == [md.copy EXCEPT !.errors = object.errors]
       IN  /\ Store(new)
           /\ dm' = Aged(dm, new)
    /\ md' = [md EXCEPT !.pc = "status",
                        !.copy.errors = IF object.errors = NoErrors THEN @ ELSE object.errors]
    /\ UNCHANGED <<view, migrations, migrationView, version, mdQueued, dmQueue, outcome, used>>

\* Seeded bug: the status is written only when there is an error to report.
UpdateStatus_OnlyErrors ==
    /\ md.pc = "status" /\ ~Refused
    /\ LET new == [object EXCEPT !.errors = IF md.copy.errors = NoErrors THEN @ ELSE md.copy.errors]
       IN  /\ Store(new)
           /\ dm' = Aged(dm, new)
    /\ Return(md.result.kind = "temporary")
    /\ UNCHANGED <<view, migrations, migrationView, version, dmQueue, used>>

(***************************************************************************)
(* Status().Update at the end of handleError, for hints that are objected  *)
(* to and on success: only the errors are written. A temporary error is    *)
(* returned and so put back into the queue; the others are not.            *)
(***************************************************************************)
UpdateStatus ==
    /\ md.pc = "status" /\ ~Refused
    /\ LET new == [object EXCEPT !.errors = md.copy.errors]
       IN  /\ Store(new)
           /\ dm' = Aged(dm, new)
    /\ Return(md.result.kind = "temporary")
    /\ UNCHANGED <<view, migrations, migrationView, version, dmQueue, used>>

-----------------------------------------------------------------------------
(***************************************************************************)
(* ReconcileDatabaseMigration: the labelled databases are listed from the  *)
(* cache and their label is removed. An error of the list is only logged.  *)
(***************************************************************************)
ListWaiting(m) ==
    /\ dm = Idle /\ m \in dmQueue
    /\ dmQueue' = dmQueue \ {m}
    /\ dm' = IF view.label = m
             THEN [pc |-> "update", request |-> m, copy |-> [view EXCEPT !.label = NoLabel],
                   fresh |-> viewFresh]
             ELSE dm
    /\ UNCHANGED <<object, view, viewFresh, migrations, migrationView, version, mdQueued, md,
                   outcome, used>>

ListFails(m) ==
    /\ dm = Idle /\ m \in dmQueue
    /\ Use("lists", MaxListFailures)
    /\ dmQueue' = dmQueue \ {m}
    /\ UNCHANGED <<object, view, viewFresh, migrations, migrationView, version, mdQueued, md, dm,
                   outcome>>

\* Seeded bug: the label is looked for again instead of being removed.
RemoveLabel_Requeues ==
    /\ dm.pc = "update" /\ dm.fresh
    /\ dm' = Idle
    /\ dmQueue' = dmQueue \cup {dm.request}
    /\ UNCHANGED <<object, view, viewFresh, migrations, migrationView, version, mdQueued, md,
                   outcome, used>>

RemoveLabel ==
    /\ dm.pc = "update" /\ dm.fresh
    /\ LET new == [dm.copy EXCEPT !.errors = object.errors]
       IN  /\ Store(new)
           /\ md' = Aged(md, new)
    /\ dm' = Idle
    /\ UNCHANGED <<view, migrations, migrationView, version, mdQueued, dmQueue, outcome, used>>

RemoveLabelRefused ==
    /\ dm.pc = "update" /\ ~dm.fresh
    /\ dm' = Idle
    /\ dmQueue' = dmQueue \cup {dm.request}
    /\ UNCHANGED <<object, view, viewFresh, migrations, migrationView, version, mdQueued, md,
                   outcome, used>>

\* The operator restarts: caches are filled and everything is queued once.
Restart ==
    /\ Use("restarts", MaxRestarts)
    /\ md' = Idle /\ dm' = Idle
    /\ view' = object /\ viewFresh' = TRUE /\ migrationView' = migrations
    /\ mdQueued' = TRUE
    /\ dmQueue' = {m \in Migrations : migrations[m] # "absent"}
    /\ UNCHANGED <<object, migrations, version, outcome>>

ManagedDatabaseWorker ==
    \/ ReconcileManagedDatabase \/ GetSchemaVersion
    \/ WalkBack \/ WalkStops \/ NoPath \/ LoadActiveVersion \/ ProcessHints
    \/ WriteRefused \/ UpdateLabel \/ UpdateStatus
DatabaseMigrationWorker ==
    \/ \E m \in Migrations : ListWaiting(m)
    \/ RemoveLabel \/ RemoveLabelRefused
Informers == DeliverDatabase \/ \E m \in Migrations : DeliverMigration(m)

BlockedNext ==
    \/ ManagedDatabaseWorker \/ DatabaseMigrationWorker \/ Informers
    \/ WorkFails \/ Restart
    \/ \E v \in Versions : MoveVersion(v)
    \/ \E m \in Migrations :
          \/ EditDatabase(m) \/ ListFails(m)
          \/ \E state \in States : EditMigration(m, state)

(***************************************************************************)
(* Both workers run while they have work, the queues hand out every        *)
(* request, and the informers deliver what has changed.                    *)
(***************************************************************************)
BlockedSpec ==
    /\ BlockedInit /\ [][BlockedNext]_vars
    /\ WF_vars(ManagedDatabaseWorker)
    /\ \A m \in Migrations : WF_vars(ListWaiting(m)) /\ WF_vars(DeliverMigration(m))
    /\ WF_vars(RemoveLabel \/ RemoveLabelRefused)
    /\ WF_vars(DeliverDatabase)

-----------------------------------------------------------------------------
\* Every event has been handled: until the next one nothing happens.
Quiet ==
    /\ ~mdQueued /\ dmQueue = {}
    /\ md = Idle /\ dm = Idle
    /\ viewFresh /\ migrationView = migrations

\* A reconcile in progress reports an error unless it succeeds, and so did the last one.
StatusInv ==
    /\ md.pc \in {"label", "status"} => (md.copy.errors = NoErrors <=> md.result.kind = "done")
    /\ md.pc = "label" => md.result.kind # "done"
    /\ md = Idle /\ ~mdQueued => (object.errors = NoErrors <=> outcome.kind = "done")

\* The label on its way to the object, and on it, is that of the migration not found.
LabelInv ==
    /\ md.pc = "label" /\ md.result.kind = "missing" => md.copy.label = md.result.migration
    /\ md.pc = "status" /\ md.fresh /\ md.result.kind = "missing" =>
          object.label = md.result.migration
    /\ md = Idle /\ ~mdQueued /\ viewFresh /\ outcome.kind = "missing" =>
          object.label = outcome.migration

\* The database waits for m, or is about to.
WaitsFor(m) ==
    [kind |-> "missing", migration |-> m] =
        IF md.pc \in {"label", "status"} THEN md.result ELSE outcome

\* The arrival of m will be, or is being, looked into.
Noticed(m) ==
    migrationView[m] = "absent" \/ m \in dmQueue \/ (dm # Idle /\ dm.request = m)

\* The database will be reconciled once more anyhow.
ComesBack(m) ==
    \/ mdQueued \/ ~viewFresh \/ md.pc \in AtWork
    \/ md # Idle /\ ~md.fresh
    \/ md.pc = "label" /\ object.label # m

NoticeInv ==
    used.lists = 0 => \A m \in Migrations : WaitsFor(m) => Noticed(m) \/ ComesBack(m)

(***************************************************************************)
(* The inductive invariant of parking and waking: as long as no list has   *)
(* failed, either the arrival of the migration a database waits for will   *)
(* be noticed, or the database comes back by itself.                       *)
(***************************************************************************)
BlockedInv ==
    /\ StatusInv
    /\ LabelInv
    /\ NoticeInv

(***************************************************************************)
(* A database at rest whose last reconcile did not find a migration, the   *)
(* desired one, one before it or that of the current version, carries the  *)
(* label of exactly that migration, and it is still missing, so that its   *)
(* arrival will be noticed; as long as no list has failed (loadMigration,  *)
(* handleError, ReconcileDatabaseMigration).                               *)
(***************************************************************************)
NobodyForgotten ==
    Quiet /\ outcome.kind = "missing" /\ used.lists = 0 =>
        /\ migrations[outcome.migration] = "absent"
        /\ object.label = outcome.migration

(***************************************************************************)
(* A database at rest shows errors exactly if its last reconcile failed    *)
(* (handleError, the final Status().Update).                               *)
(***************************************************************************)
QuietStatusHonest == Quiet => (object.errors = NoErrors <=> outcome.kind = "done")

(***************************************************************************)
(* The operator writes whole objects from copies, and yet never takes back *)
(* what people have written into the specification.                        *)
(***************************************************************************)
SpecificationKept ==
    [][object'.desired # object.desired => \E m \in Migrations : EditDatabase(m)]_vars

(***************************************************************************)
(* A database that was blocked by a missing migration is reconciled again  *)
(* once the migration is there (ReconcileDatabaseMigration), unless a list *)
(* has failed.                                                             *)
(***************************************************************************)
BlockedIsWoken ==
    \A m \in Migrations :
        (outcome = [kind |-> "missing", migration |-> m] /\ migrations[m] # "absent")
            ~> (outcome # [kind |-> "missing", migration |-> m]
                \/ migrations[m] = "absent" \/ used.lists > 0)

(***************************************************************************)
(* "Find any ManagedDatabase(s) that are blocked on us and remove the      *)
(* blocked label to cause them to be requeued": a database at rest is not  *)
(* blocked by a migration whose hints have been corrected since.           *)
(***************************************************************************)
CorrectedHintsNoticed ==
    Quiet /\ outcome.kind = "invalid" => migrations[outcome.migration] # "good"
=============================================================================
