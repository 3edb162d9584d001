--------------------------- MODULE MCKeyRotation ---------------------------
(* KeyRotation for TLC: two processes, two clients, a bounded number of keys. *)
EXTENDS KeyRotation, TLC

\* Processes, clients and keys are interchangeable.
RotationSymmetry == Permutations(Procs) \cup Permutations(Clients) \cup Permutations(Keys)
=============================================================================
