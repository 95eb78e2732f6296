----------------------------- MODULE MCExecutor -----------------------------
(***************************************************************************)
(* Values for the constants of Executor.                                   *)
(***************************************************************************)
EXTENDS Executor, TLC

CONSTANTS e1, e2
SymmetricReplicas == Permutations({e1, e2})
=============================================================================
