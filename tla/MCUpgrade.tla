------------------------------ MODULE MCUpgrade ------------------------------
(* Upgrade for TLC: the second release has the schema of the first, the third two   *)
(* migrations more.                                                                 *)
EXTENDS Upgrade, TLC

MCSchema == <<1, 1, 3>>
MCOldest == <<1, 1, 1>>

Symmetry == Permutations(Procs) \cup Permutations(Backups)
=============================================================================
