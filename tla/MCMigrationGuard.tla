-------------------------- MODULE MCMigrationGuard --------------------------
(* A release two versions ahead of the one before it.                      *)
EXTENDS MigrationGuard

TwoAhead == [r \in Releases |-> IF r = "candidate" THEN 3 ELSE 1]
=============================================================================
