--------------------------- MODULE SubagentTasksMC ---------------------------
(* Instances of SubagentTasks for TLC. *)
EXTENDS SubagentTasks, TLC

CONSTANTS t1, t2, g1, g2

\* Two children, spawned by two calls.
GroupsOfTwo == t1 :> g1 @@ t2 :> g2
=============================================================================
