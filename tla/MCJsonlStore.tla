---------------------------- MODULE MCJsonlStore ----------------------------
(***************************************************************************)
(* Values for the constants of JsonlStore.                                 *)
(***************************************************************************)
EXTENDS JsonlStore, TLC

MCEmail == {"ann"}
MCAgent == {"arn:executor"}

CONSTANTS t1, t2, t3
SymmetricIds == Permutations({t1, t2, t3})
SymmetricTwoIds == Permutations({t1, t2})
=============================================================================
