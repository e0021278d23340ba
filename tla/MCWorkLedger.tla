---------------------------- MODULE MCWorkLedger ----------------------------
(***************************************************************************)
(* WorkLedger for TLC: a short task with two sub-tasks and a long one with  *)
(* one, whose limits (2.25 and 6 s, with a margin of 3/4) admit one bid,    *)
(* two or none, depending on what is queued.                                *)
(***************************************************************************)
EXTENDS WorkLedger, TLC

CONSTANTS k1, k2, k3, short, long

MCSubTask == {k1, k2, k3}
MCParent == {short, long}
MCParentOf == (k1 :> short) @@ (k2 :> short) @@ (k3 :> long)
MCCost == (short :> 1) @@ (long :> 3)
MCDeadline == (short :> 3) @@ (long :> 8)

\* The two sub-tasks of the short task are interchangeable.
Symmetry == Permutations({k1, k2})

=============================================================================
