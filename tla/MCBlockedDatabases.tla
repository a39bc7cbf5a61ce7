-------------------------- MODULE MCBlockedDatabases --------------------------
(***************************************************************************)
(* BlockedDatabases with two migrations, one after the other.              *)
(***************************************************************************)
EXTENDS BlockedDatabases, TLC

CONSTANTS m1, m2

TwoInARow == (m1 :> NoVersion) @@ (m2 :> m1)
=============================================================================
