---------------------------- MODULE MCCoreHealth ----------------------------
(***************************************************************************)
(* CoreHealth for TLC: the worker and two builds call core.  Liveness is    *)
(* checked, so the callers are not permuted.                                *)
(***************************************************************************)
EXTENDS CoreHealth

=============================================================================
