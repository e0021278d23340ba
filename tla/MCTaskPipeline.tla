-------------------------- MODULE MCTaskPipeline --------------------------
(* TaskPipeline for TLC: the configurations give the constants their values. *)
EXTENDS TaskPipeline, TLC

Symmetry == Permutations(SubTask)
=============================================================================
