------------------------------ MODULE MCChardev ------------------------------
(* Instantiation of Chardev for TLC; the constants are set in the cfgs. *)
EXTENDS Chardev, TLC

MCSymmetry == Permutations(Writers)
=============================================================================
