---------------------------- MODULE SessionTreeMC ----------------------------
(* An instance of SessionTree for TLC: keys are interchangeable. *)
EXTENDS SessionTree, TLC

KeySymmetry == Permutations(Key)
==============================================================================
