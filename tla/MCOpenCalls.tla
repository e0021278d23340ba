---------------------------- MODULE MCOpenCalls ----------------------------
(***************************************************************************)
(* OpenCalls, and PcsOutbox with it, for TLC.  Sub-tasks, requests, builds  *)
(* and hashes are interchangeable, so permuting them changes nothing a      *)
(* safety property can see.                                                 *)
(***************************************************************************)
EXTENDS OpenCalls, TLC

Symmetry == Permutations(SubTask) \cup Permutations(Asker) \cup Permutations(Spawned)
              \cup Permutations(Retainer) \cup Permutations(Hash)

=============================================================================
