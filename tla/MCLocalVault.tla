---------------------------- MODULE MCLocalVault ----------------------------
(***************************************************************************)
(* Small instances of LocalVault.  Files are interchangeable.              *)
(***************************************************************************)
EXTENDS LocalVault, TLC

Symmetry == Permutations(File)
=============================================================================
