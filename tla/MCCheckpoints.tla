--------------------------- MODULE MCCheckpoints ----------------------------
(***************************************************************************)
(* Three coroutines, two snapshots, one kill and restart, one misread.     *)
(***************************************************************************)
EXTENDS Checkpoints, TLC

ClientSymmetry == Permutations(Client)

=============================================================================
