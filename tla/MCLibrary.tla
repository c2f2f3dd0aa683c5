------------------------------ MODULE MCLibrary ------------------------------
(***************************************************************************)
(* Small instances of the machines of Library.                             *)
(***************************************************************************)
EXTENDS Library, SequencesExt, TLC

(***************************************************************************)
(* InMemoryMesh: three nodes, two of them in one failure domain, and one   *)
(* with room for one object of the two.                                    *)
(***************************************************************************)
ThreeNodes == <<"a", "b", "c">>
TwoDomains == [n \in ToSet(ThreeNodes) |-> IF n = "b" THEN "y" ELSE "x"]
LittleRoom == [n \in ToSet(ThreeNodes) |-> IF n = "b" THEN 1 ELSE 2]

(***************************************************************************)
(* LocalControlPlane: credit that i64 stops holding with the second entry. *)
(***************************************************************************)
GiveOrTake == {0 - 1, 1}

(***************************************************************************)
(* Commons: offers whose shares overflow when they are scaled, have a      *)
(* share of nothing, name a recipient twice, or do not add up.             *)
(***************************************************************************)
Cut(recipient, role, points) ==
  [recipient |-> recipient, role |-> role, points |-> points]

FourOffers ==
  {[price |-> 5, splits |-> <<Cut(2, 1, 2), Cut(1, 1, 2)>>],
   [price |-> 2, splits |-> <<Cut(1, 1, 1), Cut(2, 1, 3)>>],
   [price |-> 4, splits |-> <<Cut(1, 1, 2), Cut(1, 2, 2)>>],
   [price |-> 2, splits |-> <<Cut(1, 1, 1), Cut(2, 1, 1)>>]}

TwoBudgets == {[budget |-> 5, approval |-> TRUE], [budget |-> 2, approval |-> FALSE]}

(***************************************************************************)
(* DemoProcesses: the worker and one node, and two process ids more than   *)
(* they need.                                                              *)
(***************************************************************************)
OneNode == <<"a">>

Symmetry ==
  Permutations(Member) \cup Permutations(Choice) \cup Permutations(Artifact)
    \cup Permutations(Handler) \cup Permutations(Runner)
=============================================================================
