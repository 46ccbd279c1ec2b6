----------------------------- MODULE MCMigration -----------------------------
(***************************************************************************)
(* Instances of Migration: two processes migrate the same workspace.       *)
(***************************************************************************)
EXTENDS Migration

CONSTANTS m1, m2
Two == {m1, m2}
Prototype == {[jobs |-> FALSE, indexes |-> FALSE, counter |-> Absent]}
EveryLayout == [jobs : BOOLEAN, indexes : BOOLEAN, counter : {Absent, 1}]
=============================================================================
