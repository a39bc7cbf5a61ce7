-------------------------- MODULE HintsEngine_proofs --------------------------
(***************************************************************************)
(* Proofs about HintsEngine, for any tables, columns, values, hints,       *)
(* bounds and threshold: the types, what holds half way through the hints, *)
(* that a hint is passed over only if it would succeed, and that an        *)
(* approved migration spares the tables that were reported as large.       *)
(***************************************************************************)
EXTENDS HintsEngine, TLAPS

\* A bounded sequence is a sequence that is short enough, and the other way round.
LEMMA BoundedSeqIsSeq ==
    ASSUME NEW S, NEW n \in Nat, NEW s
    PROVE  s \in BoundedSeq(S, n) <=> s \in Seq(S) /\ Len(s) <= n
<1>1. ASSUME s \in BoundedSeq(S, n) PROVE s \in Seq(S) /\ Len(s) <= n
  <2>1. PICK m \in 0..n : s \in [1..m -> S]
    BY <1>1 DEF BoundedSeq, SeqOf
  <2> QED
    BY <2>1
<1>2. ASSUME s \in Seq(S), Len(s) <= n PROVE s \in BoundedSeq(S, n)
  BY <1>2 DEF BoundedSeq, SeqOf
<1> QED
  BY <1>1, <1>2

\* The hints of a migration are hints people write, and each names a table.
LEMMA HintsAreHints ==
    ASSUME HintsTypeOK
    PROVE  /\ hints \in Seq(HintChoices) /\ Len(hints) \in Nat
           /\ DOMAIN hints = 1..Len(hints)
           /\ \A i \in 1..Len(hints) : hints[i] \in Hint /\ hints[i].table \in TableNames
<1>1. hints \in Seq(HintChoices)
  BY BoundedSeqIsSeq, HintsAssumption DEF HintsTypeOK
<1>2. \A i \in 1..Len(hints) : hints[i] \in Hint
  BY <1>1, HintsAssumption
<1> QED
  BY <1>1, <1>2 DEF Hint

\* The rows of a table are a sequence, and no longer than the bound.
LEMMA RowsAreSequences ==
    ASSUME HintsTypeOK, NEW t \in DOMAIN rows
    PROVE  /\ rows[t] \in Seq([Columns -> Values \cup {Null}])
           /\ Len(rows[t]) \in Nat /\ Len(rows[t]) <= MaxRows
<1>1. rows[t] \in BoundedSeq([Columns -> Values \cup {Null}], MaxRows)
  BY DEF HintsTypeOK, Rows
<1> QED
  BY <1>1, BoundedSeqIsSeq, HintsAssumption

(***************************************************************************)
(* One lemma for each step of ProcessHints.                                *)
(***************************************************************************)
LEMMA InitKept == HintsInit => HintsTypeOK /\ HintsInv
<1> SUFFICES ASSUME HintsInit PROVE HintsTypeOK /\ HintsInv
  OBVIOUS
<1>1. Len(hints) \in Nat
  BY BoundedSeqIsSeq, HintsAssumption DEF HintsInit
<1>2. DOMAIN rows \subseteq TableNames /\ rows \in [DOMAIN rows -> Rows]
  BY DEF HintsInit
<1>3. next \in 1..Len(hints) + 1 /\ migrationErrors \subseteq 1..Len(hints)
      /\ estimates \in [TableNames -> 0..MaxRows]
  BY <1>1, HintsAssumption DEF HintsInit
<1>4. HintsTypeOK
  BY <1>2, <1>3 DEF HintsInit, HintsTypeOK
<1> QED
  BY <1>4 DEF HintsInit, HintsInv

\* A table's estimate is what was reported for it or for a namesake, or there is none.
LEMMA EstimateIsReported ==
    ASSUME NEW t \in TableNames, NEW reported, NEW n \in GetTableSizeEstimates(t, reported),
           t \notin DOMAIN rows => reported = 0
    PROVE  n = reported \/ n \in elsewhere[t]
BY DEF GetTableSizeEstimates

LEMMA LoadEstimatesKeeps ==
    ASSUME HintsTypeOK, HintsInv, LoadEstimates \/ LoadEstimatesFails
    PROVE  HintsTypeOK' /\ HintsInv'
<1>1. Len(hints) \in Nat
  BY HintsAreHints
<1>2. HintsTypeOK'
  <2>1. next' = 1 /\ migrationErrors' = {} /\ pc' = "process" /\ err' \in BOOLEAN
    BY DEF LoadEstimates, LoadEstimatesFails
  <2>2. estimates' \in [TableNames -> 0..MaxRows]
    BY DEF LoadEstimates, LoadEstimatesFails, HintsTypeOK
  <2>3. UNCHANGED <<hints, rows, nullable, uniqueIndexes>>
    BY DEF LoadEstimates, LoadEstimatesFails, dataVars
  <2>4. next' \in 1..Len(hints') + 1
    BY <1>1, <2>1, <2>3
  <2> QED
    BY <2>1, <2>2, <2>3, <2>4 DEF HintsTypeOK, Consistent, Repeats, RowCount
<1>3. \A t \in TableNames : estimates'[t] = sized'[t] \/ estimates'[t] \in elsewhere'[t]
  BY EstimateIsReported DEF LoadEstimates, LoadEstimatesFails, HintsInv, dataVars
<1> QED
  BY <1>2, <1>3 DEF LoadEstimates, LoadEstimatesFails, HintsInv

\* A hint that wants a small table is objected to on a large one.
LEMMA LargeIsObjectedTo ==
    ASSUME NEW h, WantsSmallTable(h)
    PROVE  ProcessorErrors(h, TRUE)
BY DEF WantsSmallTable, ProcessorErrors, AddColumnErrors, CreateIndexErrors

LEMMA ProcessHintKeeps ==
    ASSUME HintsTypeOK, HintsInv, ProcessHint
    PROVE  HintsTypeOK' /\ HintsInv'
<1> DEFINE h == hints[next]
           largeTable == estimates[h.table] > LargeTableRowsThreshold
<1>1. /\ next \in 1..Len(hints) /\ next' = next + 1 /\ Len(hints) \in Nat
      /\ hints[next].table \in TableNames
  BY HintsAreHints DEF ProcessHint, HintsTypeOK
<1>2. /\ migrationErrors \subseteq migrationErrors'
      /\ migrationErrors' \subseteq migrationErrors \cup {next}
      /\ ProcessorErrors(h, largeTable) => next \in migrationErrors'
  BY DEF ProcessHint
<1>3. UNCHANGED <<hints, rows, nullable, uniqueIndexes, elsewhere, pc, estimates, sized, err>>
  BY DEF ProcessHint, dataVars
<1>4. HintsTypeOK'
  BY <1>1, <1>2, <1>3 DEF HintsTypeOK, Consistent, Repeats, RowCount
<1>5. WantsSmallTable(h) =>
         next \in migrationErrors' \/ estimates[h.table] <= LargeTableRowsThreshold
  <2>1. estimates[h.table] \in Nat /\ LargeTableRowsThreshold \in Nat
    BY <1>1, HintsAssumption DEF HintsTypeOK
  <2>2. CASE largeTable
    BY <1>2, <2>2, LargeIsObjectedTo
  <2> QED
    BY <2>1, <2>2
<1>6. pc = "process" /\ ~err
  BY DEF ProcessHint
<1> HIDE DEF largeTable
<1>7. ASSUME NEW i \in 1..(next' - 1), WantsSmallTable(hints[i])
      PROVE  i \in migrationErrors' \/ estimates[hints[i].table] <= LargeTableRowsThreshold
  <2>1. CASE i = next
    BY <1>5, <1>7, <2>1
  <2>2. CASE i \in 1..(next - 1)
    BY <1>2, <1>6, <1>7, <2>2 DEF HintsInv
  <2> QED
    BY <1>1, <2>1, <2>2
<1>8. migrationErrors' \subseteq 1..(next' - 1)
  BY <1>1, <1>2 DEF HintsInv
<1>9. \A t \in TableNames : estimates'[t] = sized'[t] \/ estimates'[t] \in elsewhere'[t]
  BY <1>3 DEF HintsInv
<1> QED
  BY <1>3, <1>4, <1>7, <1>8, <1>9 DEF HintsInv, WantsSmallTable

LEMMA OtherStepsKeep ==
    ASSUME HintsTypeOK, HintsInv, ProcessHintFails \/ Again \/ UNCHANGED vars
    PROVE  HintsTypeOK' /\ HintsInv'
<1>1. UNCHANGED <<hints, dataVars, next, estimates, sized, migrationErrors>>
  BY DEF ProcessHintFails, Again, vars
<1>2. pc' \in {"estimate", "process"} /\ err' \in BOOLEAN
      /\ (pc' = "process" /\ ~err' => pc = "process" /\ ~err)
  BY DEF ProcessHintFails, Again, vars, HintsTypeOK
<1>3. HintsTypeOK'
  BY <1>1, <1>2 DEF HintsTypeOK, dataVars, Consistent, Repeats, RowCount
<1>4. HintsInv'
  BY <1>1, <1>2 DEF HintsInv, dataVars, WantsSmallTable
<1> QED
  BY <1>3, <1>4

LEMMA InsertRowKeeps ==
    ASSUME HintsTypeOK, HintsInv, NEW t \in TableNames,
           NEW row \in [Columns -> Values \cup {Null}], InsertRow(t, row)
    PROVE  HintsTypeOK' /\ HintsInv'
<1> DEFINE longer == Append(rows[t], row)
<1>1. t \in DOMAIN rows /\ Len(rows[t]) < MaxRows
  BY DEF InsertRow
<1>2. longer \in Rows
  <2>1. longer \in Seq([Columns -> Values \cup {Null}]) /\ Len(longer) <= MaxRows
    BY <1>1, RowsAreSequences, HintsAssumption
  <2> QED
    BY <2>1, BoundedSeqIsSeq, HintsAssumption DEF Rows
<1>3. rows' = [rows EXCEPT ![t] = longer]
  BY DEF InsertRow
<1> HIDE DEF longer
<1>4. DOMAIN rows' \subseteq TableNames /\ rows' \in [DOMAIN rows' -> Rows]
  BY <1>1, <1>2, <1>3 DEF HintsTypeOK
<1>5. HintsTypeOK'
  BY <1>4 DEF InsertRow, HintsTypeOK
<1> QED
  BY <1>5 DEF InsertRow, HintsInv, WantsSmallTable

LEMMA NextKept ==
    ASSUME HintsTypeOK, HintsInv, [HintsNext]_vars
    PROVE  HintsTypeOK' /\ HintsInv'
BY LoadEstimatesKeeps, ProcessHintKeeps, OtherStepsKeep, InsertRowKeeps DEF HintsNext

(***************************************************************************)
(* The types, and what holds half way through the hints.                   *)
(***************************************************************************)
THEOREM HintsInvariant == HintsSpec => [](HintsTypeOK /\ HintsInv)
BY InitKept, NextKept, PTL DEF HintsSpec

(***************************************************************************)
(* A migration that is approved as a whole adds no column and no fulltext  *)
(* index to a table that the server reported as large when ProcessHints    *)
(* asked for its size, whatever it reports and whatever applications write *)
(* meanwhile, unless a namesake was reported as small.                     *)
(***************************************************************************)
THEOREM ApprovedSpareLargeTables == HintsSpec => []LargeTablesSpared
<1>1. ASSUME HintsTypeOK, HintsInv PROVE LargeTablesSpared
  <2> SUFFICES ASSUME Approved, NEW i \in DOMAIN hints, WantsSmallTable(hints[i])
               PROVE  \/ sized[hints[i].table] <= LargeTableRowsThreshold
                      \/ \E n \in elsewhere[hints[i].table] : n <= LargeTableRowsThreshold
    BY DEF LargeTablesSpared
  <2>1. i \in 1..Len(hints) /\ hints[i].table \in TableNames /\ Len(hints) \in Nat
    BY <1>1, HintsAreHints
  <2>2. pc = "process" /\ ~err /\ migrationErrors = {} /\ next > Len(hints)
    BY DEF Approved, Returned
  <2>3. i \in 1..(next - 1)
    BY <1>1, <2>1, <2>2 DEF HintsTypeOK
  <2>4. estimates[hints[i].table] <= LargeTableRowsThreshold
    BY <1>1, <2>2, <2>3 DEF HintsInv
  <2> QED
    BY <1>1, <2>1, <2>4 DEF HintsInv
<1> QED
  BY <1>1, HintsInvariant, PTL

(***************************************************************************)
(* A unique index on columns with repeated values is always objected to:   *)
(* there are two rows, and the columns the query asks the index for hold   *)
(* the empty names too, which no index has.                                *)
(***************************************************************************)
LEMMA RepeatsAreFound ==
    ASSUME HintsTypeOK, NEW h \in Hint, BreaksUnique(h)
    PROVE  UniqueWillFail(h.table, ColumnNames(h))
<1>1. h.table \in TableNames /\ h.columns # <<>>
  BY DEF Hint, BreaksUnique
<1>2. PICK i, j \in 1..RowCount(h.table) : i # j
  BY DEF BreaksUnique, Repeats
<1>3. h.table \in DOMAIN rows
  BY <1>2 DEF RowCount
<1>4. Len(rows[h.table]) > 1
  BY <1>2, <1>3, RowsAreSequences DEF RowCount
<1>5. EmptyName \in ColumnNames(h) /\ EmptyName \notin Columns
  BY <1>1, HintsAssumption DEF ColumnNames
<1>6. ColumnNames(h) \notin uniqueIndexes[h.table]
  BY <1>1, <1>5 DEF HintsTypeOK
<1> QED
  BY <1>4, <1>6 DEF UniqueWillFail

(***************************************************************************)
(* A hint is passed over only if it would not fail on the tables as they   *)
(* are at that moment.                                                     *)
(***************************************************************************)
THEOREM PassedSucceed == HintsSpec => PassedHintsSucceed
<1>1. ASSUME HintsTypeOK, HintsInv, ProcessHint, migrationErrors' = migrationErrors
      PROVE  ~AddsUnfillableColumn(hints[next]) /\ ~BreaksUnique(hints[next])
  <2> DEFINE h == hints[next]
             largeTable == estimates[h.table] > LargeTableRowsThreshold
  <2>1. next \in 1..Len(hints) /\ next \notin migrationErrors /\ h \in Hint
    BY <1>1, HintsAreHints DEF ProcessHint, HintsTypeOK, HintsInv
  <2>2. ~ProcessorErrors(h, largeTable)
    BY <1>1, <2>1 DEF ProcessHint
  <2> HIDE DEF h, largeTable
  <2>3. ~AddsUnfillableColumn(h)
    BY <2>2 DEF AddsUnfillableColumn, ProcessorErrors, AddColumnErrors
  <2>4. ~BreaksUnique(h)
    BY <1>1, <2>1, <2>2, RepeatsAreFound DEF BreaksUnique, ProcessorErrors, CreateIndexErrors
  <2> QED
    BY <2>3, <2>4 DEF h
<1>2. ASSUME HintsTypeOK, HintsInv
      PROVE  [ProcessHint /\ migrationErrors' = migrationErrors =>
                ~AddsUnfillableColumn(hints[next]) /\ ~BreaksUnique(hints[next])]_vars
  BY <1>1, <1>2
<1> QED
  BY <1>2, HintsInvariant, PTL DEF PassedHintsSucceed
=============================================================================
