----------------------- MODULE BlockedDatabases_proofs -----------------------
(***************************************************************************)
(* Proofs about BlockedDatabases, for every set of migrations and every    *)
(* value of the bounds: the types, that the operator's writes keep what    *)
(* people wrote, that the status is honest and that nobody is forgotten.   *)
(***************************************************************************)
EXTENDS BlockedDatabases, TLAPS

Removal == [pc : {"update"}, request : Migrations, copy : ManagedDatabase, fresh : BOOLEAN]

Kinds == {"done", "missing", "invalid", "objected", "fault", "temporary"}

LEMMA InitTyped == BlockedInit => BlockedTypeOK
<1> SUFFICES ASSUME BlockedInit PROVE BlockedTypeOK
  OBVIOUS
<1>1. object \in ManagedDatabase /\ outcome \in Result
  BY DEF BlockedInit, ManagedDatabase, Label, Result
<1>2. migrations \in [Migrations -> States]
  BY DEF BlockedInit, States
<1> QED
  BY <1>1, <1>2 DEF BlockedInit, BlockedTypeOK

\* A process that does nothing is told from one at work by its pc.
LEMMA Shapes ==
    ASSUME BlockedTypeOK
    PROVE  /\ md = Idle <=> md.pc = "idle"
           /\ dm = Idle <=> dm.pc = "idle"
           /\ md # Idle /\ md.pc \notin AtWork => md \in Writing
           /\ md.pc \in AtWork => md \in Working
           /\ md.pc \in {"label", "status"} => md # Idle /\ md \in Writing
           /\ dm # Idle => dm \in Removal
BY DEF BlockedTypeOK, Idle, Working, Writing, AtWork, Removal

\* Storing a version keeps the types of everything that is not written.
LEMMA StoreTyped ==
    ASSUME BlockedTypeOK, NEW new \in ManagedDatabase, Store(new)
    PROVE  /\ object' \in ManagedDatabase
           /\ viewFresh' \in BOOLEAN
           /\ viewFresh' => view = object'
BY DEF BlockedTypeOK, Store

\* Aging marks the copy as old and changes nothing else.
LEMMA AgedRemoval ==
    ASSUME BlockedTypeOK, NEW new \in ManagedDatabase, dm' = Aged(dm, new), object' = new
    PROVE  /\ dm' \in {Idle} \cup Removal
           /\ dm' = Idle <=> dm = Idle
           /\ dm # Idle => dm'.request = dm.request
           /\ dm' # Idle /\ dm'.fresh => dm'.copy = [object' EXCEPT !.label = NoLabel]
<1>1. CASE dm = Idle \/ new = object
  BY <1>1 DEF Aged, BlockedTypeOK, Removal
<1>2. CASE dm # Idle /\ new # object
  <2>1. dm' = [dm EXCEPT !.fresh = FALSE]
    BY <1>2 DEF Aged
  <2>2. dm \in Removal
    BY <1>2, Shapes
  <2>3. dm' \in Removal /\ dm'.request = dm.request /\ ~dm'.fresh
    BY <2>1, <2>2 DEF Removal
  <2> QED
    BY <1>2, <2>3 DEF Removal, Idle
<1> QED
  BY <1>1, <1>2

LEMMA AgedReconcile ==
    ASSUME BlockedTypeOK, NEW new \in ManagedDatabase, md' = Aged(md, new), object' = new
    PROVE  /\ md' \in {Idle} \cup Working \cup Writing
           /\ md' = Idle <=> md = Idle
           /\ md'.pc = md.pc
           /\ md # Idle => md'.copy = md.copy
           /\ md.pc \in {"label", "status"} => md'.result = md.result
           /\ md' # Idle /\ md'.fresh => md'.copy.desired = object'.desired
           /\ md # Idle => (md'.fresh <=> md.fresh /\ new = object)
<1>1. CASE md = Idle \/ new = object
  BY <1>1 DEF Aged, BlockedTypeOK, Working, Writing
<1>2. CASE md # Idle /\ new # object
  <2>1. md' = [md EXCEPT !.fresh = FALSE]
    BY <1>2 DEF Aged
  <2>2. CASE md \in Working
    <3>1. /\ md' \in Working /\ ~md'.fresh
          /\ md'.pc = md.pc /\ md'.copy = md.copy
      BY <2>1, <2>2 DEF Working
    <3> QED
      BY <1>2, <2>2, <3>1 DEF Working, AtWork, Idle
  <2>3. CASE md \in Writing
    <3>1. /\ md' \in Writing /\ ~md'.fresh
          /\ md'.pc = md.pc /\ md'.copy = md.copy /\ md'.result = md.result
      BY <2>1, <2>3 DEF Writing
    <3> QED
      BY <1>2, <3>1 DEF Writing, Idle
  <2> QED
    BY <1>2, <2>2, <2>3 DEF BlockedTypeOK
<1> QED
  BY <1>1, <1>2

\* A bound is used up by natural numbers, and the failed lists by failing lists alone.
LEMMA UseTyped ==
    ASSUME BlockedTypeOK, NEW what \in {"edits", "faults", "lists", "restarts"},
           NEW bound, Use(what, bound)
    PROVE  /\ used' \in [edits : Nat, faults : Nat, lists : Nat, restarts : Nat]
           /\ used'.lists = 0 => used.lists = 0 /\ what # "lists"
BY DEF BlockedTypeOK, Use

\* What a reconcile carries to its writes.
LEMMA Decided ==
    ASSUME BlockedTypeOK, md.pc \in AtWork, NEW kind \in Kinds, NEW m \in Migrations,
           Decide(kind, m)
    PROVE  /\ md \in Working /\ md' \in Writing
           /\ md'.pc = IF kind \in {"missing", "invalid"} THEN "label" ELSE "status"
           /\ md'.result = [kind |-> kind, migration |-> m]
           /\ md'.copy.desired = md.copy.desired /\ md'.fresh = md.fresh
           /\ kind = "missing" => md'.copy.label = m
           /\ md'.copy.errors = NoErrors <=> kind = "done"
<1> DEFINE result == [kind |-> kind, migration |-> m]
           copy == [md.copy EXCEPT !.label = BlockingLabel(result),
                                   !.errors = IF kind = "done" THEN NoErrors ELSE result]
<1>1. md \in Working /\ md.copy \in ManagedDatabase /\ md.fresh \in BOOLEAN
  BY Shapes DEF Working
<1>2. result \in Result /\ result # NoErrors
  BY BlockedAssumption DEF Result, Kinds
<1>3. BlockingLabel(result) \in Label /\ (kind = "missing" => BlockingLabel(result) = m)
  BY DEF BlockingLabel, Label
<1>4. md' = [pc |-> IF kind \in {"missing", "invalid"} THEN "label" ELSE "status",
             copy |-> copy, fresh |-> md.fresh, result |-> result]
  BY DEF Decide
<1> HIDE DEF result
<1>5. /\ copy \in ManagedDatabase /\ copy.desired = md.copy.desired
      /\ kind = "missing" => copy.label = m
      /\ copy.errors = NoErrors <=> kind = "done"
  BY <1>1, <1>2, <1>3 DEF ManagedDatabase
<1> HIDE DEF copy
<1>6. md' \in Writing
  BY <1>1, <1>2, <1>4, <1>5 DEF Writing
<1> QED
  BY <1>1, <1>4, <1>5, <1>6 DEF result

(***************************************************************************)
(* The reconcile at work either goes on looking or decides; a migration it *)
(* misses is not in the cache at that moment.                              *)
(***************************************************************************)
Searches == GetSchemaVersion \/ WalkBack \/ (LoadActiveVersion /\ md'.pc = "hints")
Decides ==
    /\ md.pc \in AtWork
    /\ \E kind \in Kinds, m \in Migrations :
          /\ Decide(kind, m)
          /\ kind = "missing" => migrationView[m] = "absent"

LEMMA SearchesOn ==
    ASSUME BlockedTypeOK, Searches
    PROVE  /\ md' \in Working /\ md'.pc \in AtWork /\ md' # Idle
           /\ md'.copy = md.copy /\ md'.fresh = md.fresh
           /\ UNCHANGED <<object, view, viewFresh, migrations, migrationView, version, mdQueued,
                          dmQueue, dm, outcome, used>>
<1>1. md \in Working
  BY Shapes DEF Searches, GetSchemaVersion, WalkBack, Walking, LoadActiveVersion, AtWork
<1>2. CASE GetSchemaVersion
  BY <1>1, <1>2 DEF GetSchemaVersion, Working, AtWork, Idle, BlockedTypeOK
<1>3. CASE WalkBack
  <2>1. md.need \in Migrations
    BY <1>1, <1>3 DEF WalkBack, Walking, Working, Versions
  <2>2. migrationView[md.need] \in States \ {"absent"} /\ Previous[md.need] \in Versions
    BY <1>3, <2>1, BlockedAssumption DEF BlockedTypeOK, WalkBack
  <2>3. md.need \in Versions
    BY <1>1 DEF Working
  <2> QED
    BY <1>1, <1>3, <2>2, <2>3 DEF WalkBack, Walking, Working, AtWork, Idle
<1>4. CASE LoadActiveVersion /\ md'.pc = "hints"
  <2>1. \A m : ~Decide("missing", m)
    BY <1>4 DEF Decide
  <2>2. /\ md' = [md EXCEPT !.pc = "hints"]
        /\ UNCHANGED <<object, view, viewFresh, migrations, migrationView, version, mdQueued,
                       dmQueue, dm, outcome, used>>
    BY <1>4, <2>1 DEF LoadActiveVersion
  <2> QED
    BY <1>1, <2>2 DEF Working, AtWork, Idle
<1> QED
  BY <1>2, <1>3, <1>4 DEF Searches

LEMMA SearchesOrDecides ==
    ASSUME BlockedTypeOK,
           \/ GetSchemaVersion \/ WalkBack \/ WalkStops \/ NoPath \/ LoadActiveVersion
           \/ ProcessHints \/ WorkFails
    PROVE  \/ Searches
           \/ /\ Decides
              /\ used' \in [edits : Nat, faults : Nat, lists : Nat, restarts : Nat]
              /\ used'.lists = 0 => used.lists = 0
<1>1. /\ md.pc \in AtWork /\ md \in Working
      /\ md.copy.desired \in Migrations
  BY Shapes DEF GetSchemaVersion, WalkBack, WalkStops, Walking, NoPath, LoadActiveVersion,
                ProcessHints, WorkFails, AtWork, Working, ManagedDatabase
<1>2. UNCHANGED used => /\ used' \in [edits : Nat, faults : Nat, lists : Nat, restarts : Nat]
                        /\ used'.lists = 0 => used.lists = 0
  BY DEF BlockedTypeOK
<1>3. CASE GetSchemaVersion \/ WalkBack
  BY <1>3 DEF Searches
<1>4. CASE WalkStops
  <2>1. md.need \in Migrations
    BY <1>1, <1>4 DEF WalkStops, Walking, Working, Versions
  <2> QED
    BY <1>1, <1>2, <1>4, <2>1 DEF WalkStops, Decides, Kinds
<1>5. CASE NoPath
  BY <1>1, <1>2, <1>5 DEF NoPath, Decides, Kinds
<1>6. CASE LoadActiveVersion
  <2>1. CASE md.current # NoVersion /\ migrationView[md.current] = "absent"
    <3>1. md.current \in Migrations
      BY <1>1, <2>1 DEF Working, Versions
    <3> QED
      BY <1>1, <1>2, <1>6, <2>1, <3>1 DEF LoadActiveVersion, Decides, Kinds
  <2>2. CASE ~(md.current # NoVersion /\ migrationView[md.current] = "absent")
    <3>1. md' = [md EXCEPT !.pc = "hints"]
      BY <1>6, <2>2 DEF LoadActiveVersion
    <3>2. md'.pc = "hints"
      BY <1>1, <3>1 DEF Working
    <3> QED
      BY <1>6, <3>2 DEF Searches
  <2> QED
    BY <2>1, <2>2
<1>7. CASE ProcessHints
  <2>1. CASE md.next = NoVersion
    BY <1>1, <1>2, <1>7, <2>1 DEF ProcessHints, Decides, Kinds
  <2>2. CASE md.next # NoVersion
    <3> DEFINE kind == IF md.hints = "good" THEN "done" ELSE md.hints
    <3>1. md.next \in Migrations /\ md.hints \in States \ {"absent"}
      BY <1>1, <2>2 DEF Working, Versions
    <3>2. kind \in Kinds /\ kind # "missing" /\ Decide(kind, md.next)
      BY <1>7, <2>2, <3>1 DEF ProcessHints, Kinds, States
    <3> QED
      BY <1>1, <1>2, <1>7, <3>1, <3>2 DEF ProcessHints, Decides
  <2> QED
    BY <2>1, <2>2
<1>8. CASE WorkFails
  BY <1>1, <1>8, UseTyped DEF WorkFails, Decides, Kinds
<1> QED
  BY <1>3, <1>4, <1>5, <1>6, <1>7, <1>8

\* The object that the label is written into, and the copy after the answer.
LEMMA LabelWritten ==
    ASSUME BlockedTypeOK, UpdateLabel
    PROVE  /\ md \in Writing /\ md.pc = "label" /\ md.fresh
           /\ object' \in ManagedDatabase
           /\ object'.desired = object.desired /\ object'.errors = object.errors
           /\ object'.label = md.copy.label
           /\ md' \in Writing /\ md'.pc = "status" /\ md'.fresh /\ md'.result = md.result
           /\ md'.copy.desired = md.copy.desired
           /\ md'.copy.errors = IF object.errors = NoErrors THEN md.copy.errors
                                                            ELSE object.errors
<1>1. md.pc = "label" /\ md \in Writing /\ md.fresh
  BY Shapes DEF UpdateLabel, Refused, Writing
<1>2. md.copy \in ManagedDatabase /\ object \in ManagedDatabase
  BY <1>1 DEF Writing, BlockedTypeOK
<1>3. object' = [md.copy EXCEPT !.errors = object.errors]
  BY DEF UpdateLabel, Store
<1>4. md.copy.desired = object.desired
  BY <1>1, Shapes DEF BlockedTypeOK
<1>5. /\ object' \in ManagedDatabase /\ object'.label = md.copy.label
      /\ object'.desired = object.desired /\ object'.errors = object.errors
  BY <1>2, <1>3, <1>4 DEF ManagedDatabase
<1>6. md' = [md EXCEPT !.pc = "status",
                       !.copy.errors = IF object.errors = NoErrors THEN @ ELSE object.errors]
  BY DEF UpdateLabel
<1>7. /\ md'.pc = "status" /\ md'.fresh = md.fresh /\ md'.result = md.result
      /\ md'.copy = [md.copy EXCEPT !.errors = IF object.errors = NoErrors THEN @
                                                                           ELSE object.errors]
  BY <1>1, <1>2, <1>6 DEF Writing, ManagedDatabase
<1>8. /\ md'.copy \in ManagedDatabase /\ md'.copy.desired = md.copy.desired
      /\ md'.copy.errors = IF object.errors = NoErrors THEN md.copy.errors ELSE object.errors
  BY <1>2, <1>7 DEF ManagedDatabase
<1>9. md' \in Writing
  BY <1>1, <1>6, <1>7, <1>8 DEF Writing
<1> QED
  BY <1>1, <1>5, <1>7, <1>8, <1>9

\* The object that the label is taken off.
LEMMA LabelRemoved ==
    ASSUME BlockedTypeOK, RemoveLabel
    PROVE  /\ dm # Idle /\ object' \in ManagedDatabase
           /\ object' = [object EXCEPT !.label = NoLabel]
           /\ object'.desired = object.desired /\ object'.errors = object.errors
           /\ object'.label = NoLabel
<1>1. dm # Idle /\ dm.copy = [object EXCEPT !.label = NoLabel]
  BY Shapes DEF RemoveLabel, BlockedTypeOK
<1>2. object' = [dm.copy EXCEPT !.errors = object.errors]
  BY DEF RemoveLabel, Store
<1> QED
  BY <1>1, <1>2 DEF BlockedTypeOK, ManagedDatabase, Label

-----------------------------------------------------------------------------
(***************************************************************************)
(* Type correctness.                                                       *)
(***************************************************************************)

LEMMA NextTyped == BlockedTypeOK /\ [BlockedNext]_vars => BlockedTypeOK'
<1> SUFFICES ASSUME BlockedTypeOK, [BlockedNext]_vars PROVE BlockedTypeOK'
  OBVIOUS
<1>1. CASE ReconcileManagedDatabase
  <2>1. md' = [pc |-> "version", copy |-> [view EXCEPT !.label = NoLabel, !.errors = NoErrors],
               fresh |-> viewFresh, current |-> NoVersion, need |-> view.desired,
               next |-> NoVersion, hints |-> "good"]
    BY <1>1 DEF ReconcileManagedDatabase
  <2>2. [view EXCEPT !.label = NoLabel, !.errors = NoErrors] \in ManagedDatabase
    BY DEF BlockedTypeOK, ManagedDatabase, Label
  <2>3. view.desired \in Versions /\ NoVersion \in Versions /\ "good" \in States \ {"absent"}
    BY DEF BlockedTypeOK, ManagedDatabase, Versions, States
  <2>4. md' \in Working /\ (md'.fresh => md'.copy.desired = object.desired)
    BY <2>1, <2>2, <2>3 DEF BlockedTypeOK, Working, AtWork, ManagedDatabase
  <2> QED
    BY <1>1, <2>4 DEF BlockedTypeOK, ReconcileManagedDatabase
<1>2. CASE Searches
  <2>1. md # Idle
    BY <1>2 DEF Searches, GetSchemaVersion, WalkBack, Walking, LoadActiveVersion, Idle
  <2> QED
    BY <1>2, <2>1, SearchesOn DEF BlockedTypeOK
<1>3. ASSUME Decides, used' \in [edits : Nat, faults : Nat, lists : Nat, restarts : Nat]
      PROVE  BlockedTypeOK'
  <2>1. PICK kind \in Kinds, m \in Migrations : Decide(kind, m)
    BY <1>3 DEF Decides
  <2>2. /\ md \in Working /\ md # Idle /\ md' \in Writing
        /\ md'.copy.desired = md.copy.desired /\ md'.fresh = md.fresh
    <3>1. md.pc \in AtWork /\ md # Idle
      BY <1>3 DEF Decides, Idle, AtWork
    <3> QED
      BY <2>1, <3>1, Decided
  <2> QED
    BY <1>3, <2>1, <2>2 DEF BlockedTypeOK, Decide
<1>4. CASE \/ GetSchemaVersion \/ WalkBack \/ WalkStops \/ NoPath \/ LoadActiveVersion
           \/ ProcessHints \/ WorkFails
  BY <1>2, <1>3, <1>4, SearchesOrDecides
<1>5. CASE WriteRefused
  <2>1. md.result \in Result
    BY <1>5, Shapes DEF WriteRefused, Writing
  <2> QED
    BY <1>5, <2>1 DEF BlockedTypeOK, WriteRefused, Return
<1>6. CASE UpdateLabel
  <2>1. /\ dm' \in {Idle} \cup Removal
        /\ dm' # Idle /\ dm'.fresh => dm'.copy = [object' EXCEPT !.label = NoLabel]
    BY <1>6, LabelWritten, AgedRemoval DEF UpdateLabel, Store
  <2>2. viewFresh' \in BOOLEAN /\ (viewFresh' => view = object')
    BY <1>6 DEF BlockedTypeOK, UpdateLabel, Store
  <2>3. md'.copy.desired = object'.desired
    BY <1>6, LabelWritten, Shapes DEF BlockedTypeOK
  <2> QED
    BY <1>6, <2>1, <2>2, <2>3, LabelWritten DEF BlockedTypeOK, UpdateLabel, Writing, Removal
<1>7. CASE UpdateStatus
  <2>1. md \in Writing
    BY <1>7, Shapes DEF UpdateStatus
  <2>2. [object EXCEPT !.errors = md.copy.errors] \in ManagedDatabase
    BY <2>1 DEF Writing, BlockedTypeOK, ManagedDatabase
  <2>3. /\ dm' \in {Idle} \cup Removal
        /\ dm' # Idle /\ dm'.fresh => dm'.copy = [object' EXCEPT !.label = NoLabel]
    BY <1>7, <2>2, AgedRemoval DEF UpdateStatus, Store
  <2>4. /\ object' \in ManagedDatabase
        /\ viewFresh' \in BOOLEAN /\ (viewFresh' => view = object')
    BY <1>7, <2>2, StoreTyped DEF UpdateStatus
  <2> QED
    BY <1>7, <2>1, <2>3, <2>4 DEF BlockedTypeOK, UpdateStatus, Return, Writing, Removal
<1>8. ASSUME NEW m \in Migrations, ListWaiting(m) PROVE BlockedTypeOK'
  <2>1. [view EXCEPT !.label = NoLabel] \in ManagedDatabase
    BY DEF BlockedTypeOK, ManagedDatabase, Label
  <2>2. CASE dm' = dm
    BY <1>8, <2>2 DEF BlockedTypeOK, ListWaiting
  <2>3. CASE dm' = [pc |-> "update", request |-> m, copy |-> [view EXCEPT !.label = NoLabel],
                    fresh |-> viewFresh]
    <3>1. /\ dm' \in Removal
          /\ dm'.fresh => dm'.copy = [object EXCEPT !.label = NoLabel]
      BY <2>1, <2>3 DEF BlockedTypeOK, Removal
    <3> QED
      BY <1>8, <3>1 DEF BlockedTypeOK, ListWaiting, Removal
  <2> QED
    BY <1>8, <2>2, <2>3 DEF ListWaiting
<1>9. ASSUME NEW m \in Migrations, ListFails(m) PROVE BlockedTypeOK'
  BY <1>9, UseTyped DEF BlockedTypeOK, ListFails
<1>10. CASE RemoveLabel
  <2>1. /\ md' \in {Idle} \cup Working \cup Writing
        /\ md' # Idle /\ md'.fresh => md'.copy.desired = object'.desired
    BY <1>10, LabelRemoved, AgedReconcile DEF RemoveLabel, Store
  <2>2. viewFresh' \in BOOLEAN /\ (viewFresh' => view = object')
    BY <1>10 DEF BlockedTypeOK, RemoveLabel, Store
  <2> QED
    BY <1>10, <2>1, <2>2, LabelRemoved DEF BlockedTypeOK, RemoveLabel, Writing
<1>11. CASE RemoveLabelRefused
  <2>1. dm.request \in Migrations
    BY <1>11, Shapes DEF RemoveLabelRefused, Removal
  <2> QED
    BY <1>11, <2>1 DEF BlockedTypeOK, RemoveLabelRefused
<1>12. CASE DeliverDatabase
  BY <1>12 DEF BlockedTypeOK, DeliverDatabase
<1>13. ASSUME NEW m \in Migrations, DeliverMigration(m) PROVE BlockedTypeOK'
  BY <1>13 DEF BlockedTypeOK, DeliverMigration
<1>14. CASE Restart
  BY <1>14, UseTyped DEF BlockedTypeOK, Restart
<1>15. ASSUME NEW m \in Migrations, EditDatabase(m) PROVE BlockedTypeOK'
  <2> DEFINE new == [object EXCEPT !.desired = m]
  <2>1. new \in ManagedDatabase
    BY DEF BlockedTypeOK, ManagedDatabase
  <2>2. Store(new) /\ md' = Aged(md, new) /\ dm' = Aged(dm, new)
    BY <1>15 DEF EditDatabase
  <2>3. used' \in [edits : Nat, faults : Nat, lists : Nat, restarts : Nat]
    BY <1>15, UseTyped DEF EditDatabase
  <2>4. object' = new
    BY <2>2 DEF Store
  <2> HIDE DEF new
  <2> QED
    BY <1>15, <2>1, <2>2, <2>3, <2>4, StoreTyped, AgedReconcile, AgedRemoval
       DEF BlockedTypeOK, EditDatabase, Writing, Removal
<1>16. ASSUME NEW m \in Migrations, NEW state \in States, EditMigration(m, state)
       PROVE  BlockedTypeOK'
  BY <1>16, UseTyped DEF BlockedTypeOK, EditMigration
<1>17. CASE UNCHANGED vars
  BY <1>17 DEF BlockedTypeOK, vars
<1>18. ASSUME NEW v \in Versions, MoveVersion(v) PROVE BlockedTypeOK'
  BY <1>18, UseTyped DEF BlockedTypeOK, MoveVersion
<1> QED
  BY <1>1, <1>4, <1>5, <1>6, <1>7, <1>8, <1>9, <1>10, <1>11, <1>12, <1>13, <1>14,
     <1>15, <1>16, <1>17, <1>18
     DEF BlockedNext, ManagedDatabaseWorker, DatabaseMigrationWorker, Informers

(***************************************************************************)
(* Type correctness, and with it that a copy that passes for the current   *)
(* version has the object's specification, for every set of migrations.    *)
(***************************************************************************)
THEOREM BlockedTypes == BlockedSpec => []BlockedTypeOK
BY InitTyped, NextTyped, PTL DEF BlockedSpec

(***************************************************************************)
(* No write of the operator takes back what people wrote into the          *)
(* specification, although it writes whole objects from old copies.        *)
(***************************************************************************)
THEOREM SpecificationSafe == BlockedSpec => SpecificationKept
<1>1. ASSUME BlockedTypeOK, [BlockedNext]_vars, object'.desired # object.desired
      PROVE  \E m \in Migrations : EditDatabase(m)
  <2> USE <1>1
  <2>1. ~UpdateLabel /\ ~RemoveLabel
    BY LabelWritten, LabelRemoved
  <2>2. ~UpdateStatus
    BY DEF UpdateStatus, Store, BlockedTypeOK, ManagedDatabase
  <2> QED
    BY <2>1, <2>2
       DEF BlockedNext, ManagedDatabaseWorker, DatabaseMigrationWorker, Informers, vars,
           ReconcileManagedDatabase, GetSchemaVersion, WalkBack, WalkStops, NoPath,
           LoadActiveVersion, ProcessHints, WorkFails, Decide, WriteRefused, ListWaiting,
           ListFails, RemoveLabelRefused, DeliverDatabase, DeliverMigration, Restart,
           EditMigration, MoveVersion
<1>2. BlockedTypeOK /\ [BlockedNext]_vars
        => [object'.desired # object.desired => \E m \in Migrations : EditDatabase(m)]_vars
  BY <1>1
<1> QED
  BY <1>2, BlockedTypes, PTL DEF BlockedSpec, SpecificationKept

-----------------------------------------------------------------------------
(***************************************************************************)
(* Parking and waking.                                                     *)
(***************************************************************************)

LEMMA InitBlockedInv == BlockedInit => BlockedInv
BY DEF BlockedInit, BlockedInv, StatusInv, LabelInv, NoticeInv, ComesBack, Idle

\* A database that is queued again, or about to be reconciled, is not left behind.
LEMMA StartsOver ==
    ASSUME md' = Idle, mdQueued'
    PROVE  BlockedInv'
BY DEF BlockedInv, StatusInv, LabelInv, NoticeInv, ComesBack, Idle

\* The reconcile begins, decides, and is refused.
LEMMA WorkKeepsBlocked ==
    ASSUME BlockedTypeOK, BlockedInv,
           ReconcileManagedDatabase \/ Searches \/ Decides \/ WriteRefused,
           used'.lists = 0 => used.lists = 0
    PROVE  BlockedInv'
<1>1. CASE ReconcileManagedDatabase \/ Searches
  <2>1. md'.pc \in AtWork /\ md' # Idle
    BY <1>1, SearchesOn DEF ReconcileManagedDatabase, AtWork, Idle
  <2> QED
    BY <2>1 DEF BlockedInv, StatusInv, LabelInv, NoticeInv, ComesBack, AtWork
<1>2. CASE Decides
  <2>1. PICK kind \in Kinds, n \in Migrations :
           /\ Decide(kind, n)
           /\ kind = "missing" => migrationView[n] = "absent"
    BY <1>2 DEF Decides
  <2>2. /\ md'.pc = IF kind \in {"missing", "invalid"} THEN "label" ELSE "status"
        /\ md'.result = [kind |-> kind, migration |-> n]
        /\ kind = "missing" => md'.copy.label = n
        /\ md'.copy.errors = NoErrors <=> kind = "done"
    BY <1>2, <2>1, Decided DEF Decides
  <2>3. md' # Idle
    BY <2>2 DEF Idle
  <2>4. StatusInv' /\ LabelInv'
    BY <2>2, <2>3 DEF StatusInv, LabelInv
  <2>5. \A m \in Migrations : WaitsFor(m)' => Noticed(m)'
    BY <2>1, <2>2 DEF WaitsFor, Noticed, Decide
  <2> QED
    BY <2>4, <2>5 DEF BlockedInv, NoticeInv
<1>3. CASE WriteRefused
  BY <1>3, StartsOver DEF WriteRefused, Return
<1> QED
  BY <1>1, <1>2, <1>3

(***************************************************************************)
(* The label is written. If it was not there before, the object changes    *)
(* and the database comes back.                                            *)
(***************************************************************************)
LEMMA UpdateLabelKeepsBlocked ==
    ASSUME BlockedTypeOK, BlockedInv, UpdateLabel
    PROVE  BlockedInv'
<1>1. /\ viewFresh' = (viewFresh /\ object' = object)
      /\ UNCHANGED <<migrationView, mdQueued, dmQueue, used>>
      /\ dm' = Aged(dm, object')
  BY DEF UpdateLabel, Store
<1>2. md' # Idle /\ md'.pc = "status"
  BY LabelWritten DEF Idle
<1>3. StatusInv'
  BY <1>2, LabelWritten DEF BlockedInv, StatusInv
<1>4. LabelInv'
  BY <1>2, LabelWritten DEF BlockedInv, LabelInv
<1>5. ASSUME used'.lists = 0, NEW m \in Migrations, WaitsFor(m)'
      PROVE  Noticed(m)' \/ ComesBack(m)'
  <2>1. WaitsFor(m)
    BY <1>5, LabelWritten DEF WaitsFor
  <2>2. Noticed(m) \/ ComesBack(m)
    BY <1>1, <1>5, <2>1 DEF BlockedInv, NoticeInv
  <2>3. Noticed(m) => Noticed(m)'
    BY <1>1, LabelWritten, AgedRemoval DEF Noticed
  <2>4. ComesBack(m) => ComesBack(m)'
    <3>1. md.copy.label = m
      BY <2>1, LabelWritten DEF WaitsFor, BlockedInv, LabelInv
    <3> QED
      BY <1>1, <3>1, LabelWritten, Shapes DEF ComesBack, AtWork
  <2> QED
    BY <2>2, <2>3, <2>4
<1> QED
  BY <1>3, <1>4, <1>5 DEF BlockedInv, NoticeInv

\* The status is written and the reconcile returns.
LEMMA UpdateStatusKeepsBlocked ==
    ASSUME BlockedTypeOK, BlockedInv, UpdateStatus
    PROVE  BlockedInv'
<1>1. md.pc = "status" /\ md \in Writing /\ md.fresh /\ md # Idle
  BY Shapes DEF UpdateStatus, Refused, Writing, Idle
<1>2. /\ object' = [object EXCEPT !.errors = md.copy.errors]
      /\ viewFresh' = (viewFresh /\ object' = object)
      /\ md' = Idle /\ outcome' = md.result
      /\ mdQueued' = (mdQueued \/ md.result.kind = "temporary")
      /\ UNCHANGED <<migrationView, dmQueue, used>>
      /\ dm' = Aged(dm, object')
  BY DEF UpdateStatus, Store, Return
<1>3. /\ object' \in ManagedDatabase /\ object'.errors = md.copy.errors
      /\ object'.label = object.label /\ object'.desired = object.desired
  BY <1>1, <1>2 DEF Writing, BlockedTypeOK, ManagedDatabase
<1>4. md.copy.desired = object.desired
  BY <1>1 DEF BlockedTypeOK
<1>5. StatusInv' /\ LabelInv'
  BY <1>1, <1>2, <1>3, <1>4 DEF BlockedInv, StatusInv, LabelInv, Idle
<1>6. ASSUME used'.lists = 0, NEW m \in Migrations, WaitsFor(m)'
      PROVE  Noticed(m)' \/ ComesBack(m)'
  <2>1. WaitsFor(m)
    BY <1>1, <1>2, <1>6 DEF WaitsFor, Idle
  <2>2. Noticed(m) \/ ComesBack(m)
    BY <1>2, <1>6, <2>1 DEF BlockedInv, NoticeInv
  <2>3. Noticed(m) => Noticed(m)'
    BY <1>2, <1>3, AgedRemoval DEF Noticed
  <2>4. ComesBack(m) => ComesBack(m)'
    BY <1>1, <1>2 DEF ComesBack, AtWork
  <2> QED
    BY <2>2, <2>3, <2>4
<1> QED
  BY <1>5, <1>6 DEF BlockedInv, NoticeInv

(***************************************************************************)
(* Another writer stores a version with the same errors. If it is a new    *)
(* one, the reconcile in progress will be refused and the cache told.      *)
(***************************************************************************)
LEMMA StoreKeepsBlocked ==
    ASSUME BlockedTypeOK, BlockedInv, NEW new \in ManagedDatabase,
           Store(new), new.errors = object.errors, md' = Aged(md, new),
           UNCHANGED <<migrationView, mdQueued, dmQueue, outcome>>,
           used'.lists = 0 => used.lists = 0,
           new = object => \A m \in Migrations : WaitsFor(m) /\ Noticed(m)
                                                    => Noticed(m)' \/ ComesBack(m)
    PROVE  BlockedInv'
<1>1. object' = new /\ viewFresh' = (viewFresh /\ new = object)
  BY DEF Store
<1>2. /\ md' = Idle <=> md = Idle
      /\ md'.pc = md.pc
      /\ md # Idle => md'.copy = md.copy
      /\ md.pc \in {"label", "status"} => md'.result = md.result
      /\ md # Idle => (md'.fresh <=> md.fresh /\ new = object)
  BY <1>1, AgedReconcile
<1>3. md.pc \in AtWork \cup {"label", "status"} <=> md # Idle
  BY Shapes DEF Writing, Working, AtWork, Idle
<1>4. StatusInv' /\ LabelInv'
  BY <1>1, <1>2, <1>3 DEF BlockedInv, StatusInv, LabelInv
<1>5. ASSUME used'.lists = 0, NEW m \in Migrations, WaitsFor(m)'
      PROVE  Noticed(m)' \/ ComesBack(m)'
  <2>1. CASE new # object
    BY <1>1, <2>1 DEF ComesBack
  <2>2. CASE new = object
    <3>1. WaitsFor(m)
      BY <1>2, <1>3, <1>5 DEF WaitsFor
    <3>2. Noticed(m)' \/ ComesBack(m)
      BY <1>5, <2>2, <3>1 DEF BlockedInv, NoticeInv
    <3>3. ComesBack(m) => ComesBack(m)'
      BY <1>1, <1>2, <2>2 DEF ComesBack
    <3> QED
      BY <3>2, <3>3
  <2> QED
    BY <2>1, <2>2
<1> QED
  BY <1>4, <1>5 DEF BlockedInv, NoticeInv

\* A database that waits, with no write on its way and no event to come, has the label.
LEMMA WaitsLabelled ==
    ASSUME BlockedTypeOK, BlockedInv, NEW m \in Migrations, WaitsFor(m), ~ComesBack(m)
    PROVE  object.label = m
<1>1. CASE md = Idle
  BY <1>1 DEF BlockedInv, LabelInv, WaitsFor, ComesBack, Idle
<1>2. CASE md # Idle
  BY <1>2, Shapes DEF BlockedInv, LabelInv, WaitsFor, ComesBack, Writing
<1> QED
  BY <1>1, <1>2

\* ReconcileDatabaseMigration.
LEMMA RemovalKeepsBlocked ==
    ASSUME BlockedTypeOK, BlockedInv,
           \/ RemoveLabel \/ RemoveLabelRefused
           \/ \E m \in Migrations : ListWaiting(m) \/ ListFails(m)
    PROVE  BlockedInv'
<1>1. CASE RemoveLabel
  <2> DEFINE new == object'
  <2>1. /\ new \in ManagedDatabase /\ new.errors = object.errors
        /\ new.label = NoLabel
    BY <1>1, LabelRemoved
  <2>2. /\ Store(new) /\ md' = Aged(md, new)
        /\ UNCHANGED <<migrationView, mdQueued, dmQueue, outcome, used>>
    BY <1>1 DEF RemoveLabel, Store
  <2>3. ASSUME new = object, NEW m \in Migrations, WaitsFor(m)
        PROVE  ComesBack(m)
    BY <2>1, <2>3, WaitsLabelled, BlockedAssumption
  <2> HIDE DEF new
  <2> QED
    BY <2>1, <2>2, <2>3, StoreKeepsBlocked
<1>2. ASSUME UNCHANGED <<object, viewFresh, mdQueued, md, outcome>>,
             used'.lists = 0 => used.lists = 0,
             \A m \in Migrations :
                used'.lists = 0 /\ WaitsFor(m) /\ Noticed(m) => Noticed(m)' \/ ComesBack(m)
      PROVE  BlockedInv'
  <2>1. StatusInv' /\ LabelInv'
    BY <1>2 DEF BlockedInv, StatusInv, LabelInv
  <2>2. NoticeInv'
    BY <1>2 DEF BlockedInv, NoticeInv, WaitsFor, ComesBack
  <2> QED
    BY <2>1, <2>2 DEF BlockedInv
<1>3. CASE RemoveLabelRefused
  <2>1. \A m \in Migrations : Noticed(m) => Noticed(m)'
    BY <1>3 DEF RemoveLabelRefused, Noticed
  <2> QED
    BY <1>2, <1>3, <2>1 DEF RemoveLabelRefused
<1>4. ASSUME NEW n \in Migrations, ListWaiting(n) PROVE BlockedInv'
  <2>1. ASSUME NEW m \in Migrations, WaitsFor(m), Noticed(m), ~ComesBack(m)
        PROVE  Noticed(m)'
    <3>1. view.label = m
      BY <2>1, WaitsLabelled DEF ComesBack, BlockedTypeOK
    <3>2. CASE m = n
      <4>1. dm' = [pc |-> "update", request |-> m, copy |-> [view EXCEPT !.label = NoLabel],
                   fresh |-> viewFresh]
        BY <1>4, <3>1, <3>2 DEF ListWaiting
      <4> QED
        BY <4>1 DEF Noticed, Idle
    <3>3. CASE m # n
      BY <1>4, <2>1, <3>3 DEF ListWaiting, Noticed
    <3> QED
      BY <3>2, <3>3
  <2> QED
    BY <1>2, <1>4, <2>1 DEF ListWaiting
<1>5. ASSUME NEW n \in Migrations, ListFails(n) PROVE BlockedInv'
  <2>1. used'.lists # 0
    BY <1>5, UseTyped DEF ListFails
  <2> QED
    BY <1>2, <1>5, <2>1 DEF ListFails
<1> QED
  BY <1>1, <1>3, <1>4, <1>5

\* Edits, events and restarts.
LEMMA OthersKeepBlocked ==
    ASSUME BlockedTypeOK, BlockedInv,
           \/ DeliverDatabase \/ Restart \/ UNCHANGED vars
           \/ \E v \in Versions : MoveVersion(v)
           \/ \E m \in Migrations :
                 \/ DeliverMigration(m) \/ EditDatabase(m)
                 \/ \E state \in States : EditMigration(m, state)
    PROVE  BlockedInv'
<1>1. CASE Restart
  BY <1>1, StartsOver DEF Restart
<1>2. CASE DeliverDatabase
  <2>1. StatusInv' /\ LabelInv'
    BY <1>2 DEF DeliverDatabase, BlockedInv, StatusInv, LabelInv
  <2>2. NoticeInv'
    BY <1>2 DEF DeliverDatabase, NoticeInv, ComesBack
  <2> QED
    BY <2>1, <2>2 DEF BlockedInv
<1>3. ASSUME NEW n \in Migrations, EditDatabase(n) PROVE BlockedInv'
  <2> DEFINE new == [object EXCEPT !.desired = n]
  <2>1. /\ new \in ManagedDatabase /\ new.errors = object.errors
        /\ new # object
    BY <1>3 DEF EditDatabase, BlockedTypeOK, ManagedDatabase
  <2>2. /\ Store(new) /\ md' = Aged(md, new)
        /\ UNCHANGED <<migrationView, mdQueued, dmQueue, outcome>>
    BY <1>3 DEF EditDatabase
  <2>3. used'.lists = 0 => used.lists = 0
    BY <1>3, UseTyped DEF EditDatabase
  <2> HIDE DEF new
  <2> QED
    BY <2>1, <2>2, <2>3, StoreKeepsBlocked
<1>4. ASSUME UNCHANGED <<object, viewFresh, mdQueued, md, dm, outcome>>,
             used'.lists = 0 => used.lists = 0,
             \A m \in Migrations : Noticed(m) => Noticed(m)'
      PROVE  BlockedInv'
  <2>1. StatusInv' /\ LabelInv'
    BY <1>4 DEF BlockedInv, StatusInv, LabelInv
  <2>2. NoticeInv'
    BY <1>4 DEF BlockedInv, NoticeInv, WaitsFor, ComesBack
  <2> QED
    BY <2>1, <2>2 DEF BlockedInv
<1>5. ASSUME NEW n \in Migrations, DeliverMigration(n) PROVE BlockedInv'
  <2>1. \A m \in Migrations : Noticed(m) => Noticed(m)'
    BY <1>5 DEF DeliverMigration, Noticed, BlockedTypeOK
  <2> QED
    BY <1>4, <1>5, <2>1 DEF DeliverMigration
<1>6. ASSUME NEW n \in Migrations, NEW state \in States, EditMigration(n, state)
      PROVE  BlockedInv'
  <2>1. used'.lists = 0 => used.lists = 0
    BY <1>6, UseTyped DEF EditMigration
  <2> QED
    BY <1>4, <1>6, <2>1 DEF EditMigration, Noticed
<1>7. CASE UNCHANGED vars
  BY <1>4, <1>7 DEF vars, Noticed
<1>8. ASSUME NEW v \in Versions, MoveVersion(v) PROVE BlockedInv'
  <2>1. used'.lists = 0 => used.lists = 0
    BY <1>8, UseTyped DEF MoveVersion
  <2> QED
    BY <1>4, <1>8, <2>1 DEF MoveVersion, Noticed
<1> QED
  BY <1>1, <1>2, <1>3, <1>5, <1>6, <1>7, <1>8

(***************************************************************************)
(* Parking and waking: the inductive invariant holds for every set of      *)
(* migrations, any number of edits, faults and restarts.                   *)
(***************************************************************************)
THEOREM BlockedInvariant == BlockedSpec => [](BlockedTypeOK /\ BlockedInv)
<1>1. ASSUME BlockedTypeOK, BlockedInv, [BlockedNext]_vars PROVE BlockedInv'
  <2>1. CASE ReconcileManagedDatabase \/ WriteRefused
    BY <1>1, <2>1, WorkKeepsBlocked DEF ReconcileManagedDatabase, WriteRefused
  <2>2. CASE \/ GetSchemaVersion \/ WalkBack \/ WalkStops \/ NoPath \/ LoadActiveVersion
             \/ ProcessHints \/ WorkFails
    BY <1>1, <2>2, SearchesOrDecides, SearchesOn, WorkKeepsBlocked
  <2> QED
    BY <1>1, <2>1, <2>2, UpdateLabelKeepsBlocked, UpdateStatusKeepsBlocked,
       RemovalKeepsBlocked, OthersKeepBlocked
       DEF BlockedNext, ManagedDatabaseWorker, DatabaseMigrationWorker, Informers
<1> QED
  BY <1>1, InitBlockedInv, BlockedTypes, PTL DEF BlockedSpec

(***************************************************************************)
(* A database at rest shows errors exactly if its last reconcile failed.   *)
(***************************************************************************)
THEOREM StatusHonest == BlockedSpec => []QuietStatusHonest
<1>1. BlockedInv => QuietStatusHonest
  BY DEF BlockedInv, StatusInv, QuietStatusHonest, Quiet
<1> QED
  BY <1>1, BlockedInvariant, PTL

(***************************************************************************)
(* A database at rest whose last reconcile did not find a migration, be it *)
(* the desired one, an ancestor or that of the current version, carries    *)
(* the label of that migration, and it is still missing, as long as no     *)
(* list of ReconcileDatabaseMigration has failed; for every Previous.      *)
(***************************************************************************)
THEOREM NobodyLeftBehind == BlockedSpec => []NobodyForgotten
<1>1. BlockedTypeOK /\ BlockedInv => NobodyForgotten
  <2> SUFFICES ASSUME BlockedTypeOK, BlockedInv, Quiet, outcome.kind = "missing",
                      used.lists = 0
               PROVE  /\ migrations[outcome.migration] = "absent"
                      /\ object.label = outcome.migration
    BY DEF NobodyForgotten
  <2> DEFINE m == outcome.migration
  <2>1. object.label = m
    BY DEF BlockedInv, LabelInv, Quiet
  <2>2. m \in Migrations /\ WaitsFor(m)
    BY DEF WaitsFor, Quiet, Idle, BlockedTypeOK, Result
  <2>3. ~ComesBack(m)
    BY DEF ComesBack, Quiet, Idle, AtWork
  <2>4. Noticed(m)
    BY <2>2, <2>3 DEF BlockedInv, NoticeInv
  <2> QED
    BY <2>1, <2>4 DEF Noticed, Quiet
<1> QED
  BY <1>1, BlockedInvariant, PTL
=============================================================================
