-------------------------- MODULE MCManagedDatabase --------------------------
EXTENDS MigrationRefinement, TLC

CONSTANTS v1, v2, v3

TwoInARow == (v1 :> NoVersion) @@ (v2 :> v1)
ThreeInARow == (v1 :> NoVersion) @@ (v2 :> v1) @@ (v3 :> v2)
=============================================================================
