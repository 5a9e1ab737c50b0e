------------------------------- MODULE WorkerMC -------------------------------
(* Roots and the children of one of them compete for the slots of one process. *)
EXTENDS Worker

CONSTANT r1

OneParent == [c \in Child |-> r1]
===============================================================================
