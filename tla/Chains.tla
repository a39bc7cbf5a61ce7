------------------------------- MODULE Chains -------------------------------
(***************************************************************************)
(* DatabaseMigrations and the order their Spec.Previous puts them in.      *)
(***************************************************************************)

CONSTANTS
    Migrations,     \* names of DatabaseMigrations
    NoVersion,      \* "": the empty database, the end of a chain, a nil migration
    Previous        \* DatabaseMigration.Spec.Previous

Versions == Migrations \cup {NoVersion}

(***************************************************************************)
(* The migrations on the chain that ends in d, d included: the smallest    *)
(* set that contains d and is closed under Previous. Empty for NoVersion.  *)
(***************************************************************************)
Closed(S) == \A m \in S : Previous[m] \in S \cup {NoVersion}

Chain(d) ==
    {m \in Migrations :
        /\ d \in Migrations
        /\ \A S \in SUBSET Migrations : d \in S /\ Closed(S) => m \in S}
=============================================================================
