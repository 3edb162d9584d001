----------------------------- MODULE MCSyncRuns -----------------------------
(* SyncRuns for TLC: one source, and two ticks that overlap on it. *)
EXTENDS SyncRuns, TLC

\* The ticks are interchangeable (used where no liveness is checked).
TickSymmetry == Permutations(Ticks)
=============================================================================
