--------------------------- MODULE RunLifecycleMC ---------------------------
(* Small instances of RunLifecycle for TLC. *)
EXTENDS RunLifecycle, TLC

\* Workers differ only by name.
WorkerSymmetry == Permutations(Worker)
=============================================================================
