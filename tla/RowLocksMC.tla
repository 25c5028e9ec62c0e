----------------------------- MODULE RowLocksMC -----------------------------
(* Instances of RowLocks for TLC.                                           *)
EXTENDS RowLocks, TLC

AllInOneFleet == [p \in Provider |-> Driver]

Everything == Kind

Finishing  == {"Complete", "Cancel"}

Connections == Permutations(Session)
=============================================================================
