----------------------------- MODULE HintsEngine -----------------------------
(***************************************************************************)
(* The hints engine (pkg/hints/hints.go) and the queries it makes through  *)
(* MySQLDbAdmin (GetTableSizeEstimates, ConstraintWillFail): before a      *)
(* migration is run, its schema hints are held against the live tables,    *)
(* and the migration is cancelled if one of them would fail or block.      *)
(*                                                                         *)
(* Every hint is processed in a step of its own, and applications write to *)
(* the tables between the steps. A statement of ConstraintWillFail is      *)
(* answered by what it says: a value bound to a placeholder is a value,    *)
(* also in GROUP BY. The placeholders in backticks and the bare NOT NULL   *)
(* are read as the code and its tests mean them, a name and IS NOT NULL; a *)
(* server that refuses such a statement, as MySQL does, takes the step     *)
(* ProcessHintFails. Any statement may fail. TABLE_ROWS is an estimate of  *)
(* the server's, and may be any number for a table that exists.            *)
(***************************************************************************)
EXTENDS SequencesExt

CONSTANTS
    TableNames,
    Columns,                  \* columns every table of the database has
    NewColumn,                \* a column no table has
    EmptyName,                \* ""
    Null,
    Values,                   \* what a column holds besides Null
    HintChoices,              \* the hints people write
    LargeTableRowsThreshold,
    MaxHints,                 \* bound: hints of a migration
    MaxRows                   \* bound: rows of a table

Rows == BoundedSeq([Columns -> Values \cup {Null}], MaxRows)

HintColumn ==
    [name : Columns \cup {NewColumn}, notNullable : BOOLEAN, hasServerDefault : BOOLEAN]
Hint ==
    [operation : {"addColumn", "createIndex", "createTable", "alterColumn", "none"},
     table : TableNames,
     columns : BoundedSeq(HintColumn, 1),
     indexType : {"unique", "index", "fulltext", "none"}]

ASSUME HintsAssumption ==
    /\ HintChoices \subseteq Hint
    /\ NewColumn \notin Columns /\ EmptyName \notin Columns \cup {NewColumn}
    /\ Null \notin Values
    /\ LargeTableRowsThreshold \in Nat \ {0}
    /\ MaxHints \in Nat /\ MaxRows \in Nat

VARIABLES
    hints,           \* DatabaseMigration.Spec.SchemaHints
    rows,            \* the tables of this database: [tables that exist -> rows]
    nullable,        \* [TableNames -> columns declared without NOT NULL]
    uniqueIndexes,   \* [TableNames -> column sets with a unique index]
    elsewhere,       \* [TableNames -> TABLE_ROWS of its namesakes in other schemas]
    pc,
    next,            \* the hint to process
    estimates,
    sized,           \* TABLE_ROWS of this database's tables when the query ran
    migrationErrors, \* hints that were objected to
    err              \* ProcessHints returns an error

dataVars == <<rows, nullable, uniqueIndexes, elsewhere>>
vars == <<hints, dataVars, pc, next, estimates, sized, migrationErrors, err>>

\* How many rows a table has; none if it does not exist.
RowCount(t) == IF t \in DOMAIN rows THEN Len(rows[t]) ELSE 0

\* No row has a Null in a NOT NULL column or repeats a value of a unique index.
Repeats(t, columns) ==
    \E i, j \in 1..RowCount(t) :
        /\ i # j
        /\ \A c \in columns : rows[t][i][c] = rows[t][j][c] /\ rows[t][i][c] # Null
Consistent ==
    \A t \in DOMAIN rows :
        /\ \A i \in DOMAIN rows[t] : \A c \in Columns \ nullable[t] : rows[t][i][c] # Null
        /\ \A columns \in uniqueIndexes[t] : ~Repeats(t, columns)

(***************************************************************************)
(* The values have their types: an estimate is there for every table and   *)
(* errors are recorded for hints that exist.                               *)
(***************************************************************************)
HintsTypeOK ==
    /\ hints \in BoundedSeq(HintChoices, MaxHints)
    /\ DOMAIN rows \subseteq TableNames /\ rows \in [DOMAIN rows -> Rows]
    /\ nullable \in [TableNames -> SUBSET Columns]
    /\ uniqueIndexes \in [TableNames -> SUBSET {Columns}]
    /\ Consistent
    /\ pc \in {"estimate", "process"}
    /\ next \in 1..Len(hints) + 1
    /\ estimates \in [TableNames -> 0..MaxRows]
    /\ migrationErrors \subseteq 1..Len(hints)
    /\ err \in BOOLEAN

HintsInit ==
    /\ hints \in BoundedSeq(HintChoices, MaxHints)
    /\ \E existing \in SUBSET TableNames : rows \in [existing -> Rows]
    /\ nullable \in [TableNames -> SUBSET Columns]
    /\ uniqueIndexes \in [TableNames -> SUBSET {Columns}]
    /\ elsewhere \in [TableNames -> {{}, {0}, {MaxRows}}]
    /\ Consistent
    /\ pc = "estimate"
    /\ next = 1
    /\ estimates = [t \in TableNames |-> 0]
    /\ sized = estimates
    /\ migrationErrors = {}
    /\ err = FALSE

-----------------------------------------------------------------------------
(***************************************************************************)
(* The query asks INFORMATION_SCHEMA for the names in every schema;        *)
(* reported is the TABLE_ROWS of this database's own table. Of several     *)
(* rows for one name the last stays in the map, in an order MySQL does not *)
(* promise; a name without a row keeps the zero.                           *)
(***************************************************************************)
GetTableSizeEstimates(t, reported) ==
    LET found == elsewhere[t] \cup (IF t \in DOMAIN rows THEN {reported} ELSE {})
    IN  IF found = {} THEN {0} ELSE found

(***************************************************************************)
(* ConstraintWillFail, NotNullConstraint: TRUE for a column the table does *)
(* not have, or one that allows NULL and for which the query               *)
(* "SELECT ... WHERE column NOT NULL" finds a row.                         *)
(***************************************************************************)
NotNullWillFail(t, columns) ==
    \E c \in columns :
        \/ c \notin Columns
        \/ c \in nullable[t] /\ \E i \in DOMAIN rows[t] : rows[t][i][c] # Null

\* Seeded bug: the number of rows comes from the estimates.
UniqueWillFail_Stale(t, columns) ==
    /\ columns \notin uniqueIndexes[t]
    /\ estimates[t] > 1

(***************************************************************************)
(* ConstraintWillFail, UniqueConstraint: FALSE if an index has exactly     *)
(* these columns. Otherwise "GROUP BY ? HAVING COUNT( * ) > 1" groups by   *)
(* the names as values, which puts all rows in one group.                  *)
(***************************************************************************)
UniqueWillFail(t, columns) ==
    /\ columns \notin uniqueIndexes[t]
    /\ Len(rows[t]) > 1

(***************************************************************************)
(* The four processors: does the hint get an error, and does the call      *)
(* itself end in one. A query on a table that does not exist fails, and so *)
(* does an IN over no columns.                                             *)
(***************************************************************************)
\* Seeded bug: the size is forgotten.
AddColumnErrors_AnySize(h, largeTable) ==
    \E c \in ToSet(h.columns) : c.notNullable /\ ~c.hasServerDefault

AddColumnErrors(h, largeTable) ==
    largeTable \/ \E c \in ToSet(h.columns) : c.notNullable /\ ~c.hasServerDefault

\* The names are appended to a slice that holds as many empty ones already.
ColumnNames(h) ==
    {c.name : c \in ToSet(h.columns)} \cup (IF h.columns = <<>> THEN {} ELSE {EmptyName})

CreateIndexErrors(h, largeTable) ==
    \/ h.indexType = "unique" /\ UniqueWillFail(h.table, ColumnNames(h))
    \/ h.indexType = "fulltext" /\ largeTable
CreateIndexFails(h) ==
    \/ h.indexType = "none"
    \/ h.indexType = "unique" /\ (h.columns = <<>> \/ h.table \notin DOMAIN rows)

AlterColumnErrors(h) ==
    \E c \in ToSet(h.columns) : c.notNullable /\ NotNullWillFail(h.table, {c.name})
AlterColumnFails(h) ==
    h.table \notin DOMAIN rows /\ \E c \in ToSet(h.columns) : c.notNullable

\* operationToProcessor; an operation without a processor is an error of the hint.
ProcessorErrors(h, largeTable) ==
    \/ h.operation = "addColumn" /\ AddColumnErrors(h, largeTable)
    \/ h.operation = "createIndex" /\ CreateIndexErrors(h, largeTable)
    \/ h.operation = "alterColumn" /\ AlterColumnErrors(h)
    \/ h.operation = "none"
ProcessorFails(h) ==
    \/ h.operation = "createIndex" /\ CreateIndexFails(h)
    \/ h.operation = "alterColumn" /\ AlterColumnFails(h)
Queries(h) ==
    \/ h.operation = "createIndex" /\ h.indexType = "unique"
    \/ h.operation = "alterColumn" /\ \E c \in ToSet(h.columns) : c.notNullable

-----------------------------------------------------------------------------
\* ProcessHints, the sizes of all tables the hints name; no query without hints.
LoadEstimates ==
    /\ pc = "estimate"
    /\ \E reported, found \in [TableNames -> 0..MaxRows] :
          /\ \A t \in TableNames :
                /\ t \notin DOMAIN rows => reported[t] = 0
                /\ found[t] \in GetTableSizeEstimates(t, reported[t])
          /\ estimates' = found
          /\ sized' = reported
    /\ pc' = "process"
    /\ next' = 1 /\ migrationErrors' = {} /\ err' = FALSE
    /\ UNCHANGED <<hints, dataVars>>

\* The query for the sizes fails; no hint is looked at.
LoadEstimatesFails ==
    /\ pc = "estimate" /\ hints # <<>>
    /\ pc' = "process"
    /\ next' = 1 /\ migrationErrors' = {} /\ err' = TRUE
    /\ UNCHANGED <<hints, dataVars, estimates, sized>>

\* Seeded bug: an error advances the loop once more.
ProcessHint_SkipsOne ==
    /\ pc = "process" /\ ~err /\ next <= Len(hints)
    /\ LET largeTable == estimates[hints[next].table] > LargeTableRowsThreshold
           objects == ProcessorErrors(hints[next], largeTable)
       IN  /\ ~ProcessorFails(hints[next])
           /\ migrationErrors' = migrationErrors \cup (IF objects THEN {next} ELSE {})
           /\ next' = IF objects THEN next + 2 ELSE next + 1
    /\ UNCHANGED <<hints, dataVars, pc, estimates, sized, err>>

\* ProcessHints, one turn of the loop.
ProcessHint ==
    /\ pc = "process" /\ ~err /\ next <= Len(hints)
    /\ LET h == hints[next]
           largeTable == estimates[h.table] > LargeTableRowsThreshold
       IN  /\ ~ProcessorFails(h)
           /\ migrationErrors' =
                 migrationErrors \cup (IF ProcessorErrors(h, largeTable) THEN {next} ELSE {})
    /\ next' = next + 1
    /\ UNCHANGED <<hints, dataVars, pc, estimates, sized, err>>

\* A processor returns an error, or its query does; the rest is not looked at.
ProcessHintFails ==
    /\ pc = "process" /\ ~err /\ next <= Len(hints)
    /\ ProcessorFails(hints[next]) \/ Queries(hints[next])
    /\ err' = TRUE
    /\ UNCHANGED <<hints, dataVars, pc, next, estimates, sized, migrationErrors>>

\* ProcessHints has returned; the next reconcile calls it again.
Returned == pc = "process" /\ (err \/ next > Len(hints))
Again ==
    /\ Returned
    /\ pc' = "estimate"
    /\ UNCHANGED <<hints, dataVars, next, estimates, sized, migrationErrors, err>>

\* An application adds a row.
InsertRow(t, row) ==
    /\ t \in DOMAIN rows /\ Len(rows[t]) < MaxRows
    /\ rows' = [rows EXCEPT ![t] = Append(@, row)]
    /\ UNCHANGED <<hints, nullable, uniqueIndexes, elsewhere, pc, next, estimates, sized,
                   migrationErrors, err>>
    /\ Consistent'

HintsNext ==
    \/ LoadEstimates \/ LoadEstimatesFails \/ ProcessHint \/ ProcessHintFails \/ Again
    \/ \E t \in TableNames, row \in [Columns -> Values \cup {Null}] : InsertRow(t, row)

HintsSpec == HintsInit /\ [][HintsNext]_vars

-----------------------------------------------------------------------------
Approved == Returned /\ ~err /\ migrationErrors = {}

\* The hints that must not meet a large table.
WantsSmallTable(h) ==
    h.operation = "addColumn" \/ (h.operation = "createIndex" /\ h.indexType = "fulltext")

(***************************************************************************)
(* Half way through the hints: an estimate is what the server reported for *)
(* the table, or for a namesake, when the sizes were loaded; errors are    *)
(* those of hints that were processed; and a hint that was passed over     *)
(* found a small estimate (ProcessHints).                                  *)
(***************************************************************************)
HintsInv ==
    /\ \A t \in TableNames : estimates[t] = sized[t] \/ estimates[t] \in elsewhere[t]
    /\ migrationErrors \subseteq 1..(next - 1)
    /\ pc = "process" /\ ~err =>
          \A i \in 1..(next - 1) : WantsSmallTable(hints[i]) =>
             i \in migrationErrors \/ estimates[hints[i].table] <= LargeTableRowsThreshold

(***************************************************************************)
(* What the README's list of scenarios says a migration must not do:       *)
(* "Adding a unique constraint to a table which has non-unique values",    *)
(* "Adding a non-null column without providing a server default on a table *)
(* that already has data".                                                 *)
(***************************************************************************)
AddsUnfillableColumn(h) ==
    /\ h.operation = "addColumn" /\ RowCount(h.table) > 0
    /\ \E c \in ToSet(h.columns) : c.notNullable /\ ~c.hasServerDefault
BreaksUnique(h) ==
    /\ h.operation = "createIndex" /\ h.indexType = "unique"
    /\ h.columns # <<>> /\ Repeats(h.table, {c.name : c \in ToSet(h.columns)})

(***************************************************************************)
(* A hint is passed over only if, on the tables as they are at that        *)
(* moment, it would not fail for a missing default or for repeated values, *)
(* whatever applications wrote since the sizes were loaded (ProcessHints,  *)
(* AddColumn, CreateIndex).                                                *)
(***************************************************************************)
PassedHintsSucceed ==
    [][ProcessHint /\ migrationErrors' = migrationErrors =>
          ~AddsUnfillableColumn(hints[next]) /\ ~BreaksUnique(hints[next])]_vars

(***************************************************************************)
(* A migration that is approved as a whole adds no column and no fulltext  *)
(* index to a table the server reported as large when ProcessHints asked,  *)
(* unless a table of the same name in another schema, reported as small,   *)
(* hides it (GetTableSizeEstimates, ProcessHints). What the server reports *)
(* is an estimate: this says nothing of the rows the table has.            *)
(***************************************************************************)
LargeTablesSpared ==
    Approved => \A i \in DOMAIN hints :
        WantsSmallTable(hints[i]) =>
           \/ sized[hints[i].table] <= LargeTableRowsThreshold
           \/ \E n \in elsewhere[hints[i].table] : n <= LargeTableRowsThreshold
=============================================================================
