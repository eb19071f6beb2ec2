--------------------------- MODULE MCMasterTasks ---------------------------
(* MasterTasks on small groups of masters, for TLC. *)
EXTENDS MasterTasks, TLC

MastersSymmetry == Permutations(Masters)
=============================================================================
