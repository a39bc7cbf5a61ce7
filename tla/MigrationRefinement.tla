------------------------- MODULE MigrationRefinement -------------------------
(***************************************************************************)
(* The reconciler of ManagedDatabaseController, with its caches, faults    *)
(* and interleavings, implements the README's migration loop. The          *)
(* migrations at work are those whose container has not yet recorded its   *)
(* version, whether or not its Job still exists.                           *)
(***************************************************************************)
EXTENDS MigrationInvariant

Running == {m \in Migrations : AtWork(m)}

Loop == INSTANCE MigrationLoop WITH running <- Running

(***************************************************************************)
(* While the desired version only moves forward, every behaviour of the    *)
(* reconciler and its cluster, faults included, is one of the              *)
(* migration loop: each step is one of its steps or changes nothing it     *)
(* speaks of (ReconcileManagedDatabase as a whole).                        *)
(***************************************************************************)
ImplementsMigrationLoop == Loop!LoopSpec
=============================================================================
