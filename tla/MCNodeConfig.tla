---------------------------- MODULE MCNodeConfig ----------------------------
(* Which job runs which command makes no difference. *)
EXTENDS NodeConfig, TLC

JobSymmetry == Permutations(Jobs)
=============================================================================
