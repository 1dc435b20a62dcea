----------------------------- MODULE MCMigration -----------------------------
(* Instances of Migration: participant 2 is an observer, who is elected     *)
(* only if no member is left.                                               *)
EXTENDS Migration

TheObserver == {2}
==============================================================================
