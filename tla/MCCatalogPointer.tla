-------------------------- MODULE MCCatalogPointer --------------------------
(***************************************************************************)
(* A small instance of CatalogPointer: two owners of one community.        *)
(* Requests are interchangeable, and so are cids.                          *)
(***************************************************************************)
EXTENDS CatalogPointer, TLC

CONSTANTS c1, ann, bob

MCCommunityOf == (ann :> c1) @@ (bob :> c1)

Symmetry == Permutations(Request) \cup Permutations(Cid)
=============================================================================
