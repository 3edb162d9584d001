-------------------------- MODULE MCSecretRotation --------------------------
(* SecretRotation for TLC: two processes, and secrets for three rotations. *)
EXTENDS SecretRotation, TLC

\* Processes are interchangeable, and so are secrets.
Symmetry == Permutations(Procs) \cup Permutations(Secrets)
=============================================================================
