---------------------------- MODULE MCSharedServer ----------------------------
(***************************************************************************)
(* Instances of SharedServer: one database with three migrations, and two  *)
(* databases with migrations of their own.                                 *)
(***************************************************************************)
EXTENDS SharedServer, TLC

CONSTANTS d1, d2, m1, m2, m3

OneDatabase == d1 :> <<m1, m2, m3>>
TwoDatabases == d1 :> <<m1, m2>> @@ d2 :> <<m3>>
=============================================================================
