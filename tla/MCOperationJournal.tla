------------------------- MODULE MCOperationJournal -------------------------
(* OperationJournal for TLC: two processes, and operations of two effects. *)
EXTENDS OperationJournal, TLC

\* The processes are interchangeable.
ProcSymmetry == Permutations(Procs)

\* Bound: the last operation is a repair, the only command that reads what others have left.
LastIsRepair == op[MaxOps].command \in {"none", "repair"}
=============================================================================
