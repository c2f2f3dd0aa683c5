---------------------------- MODULE MCObjectStore ----------------------------
(***************************************************************************)
(* Small instances of ObjectStore.  Objects are interchangeable.           *)
(***************************************************************************)
EXTENDS ObjectStore, TLC

Symmetry == Permutations(Cid)
=============================================================================
