----------------------------- MODULE MCTaskBoard -----------------------------
(***************************************************************************)
(* Small instances of TaskBoard.                                           *)
(***************************************************************************)
EXTENDS TaskBoard, TLC

CONSTANTS n1, n2, o1

MCFailureDomain2 == (n1 :> "east") @@ (n2 :> "west")
MCCertExpires2   == (n1 :> 9) @@ (n2 :> 1)
MCReplicaTarget  == o1 :> 2

MCFailureDomain1 == n1 :> "east"
MCCertExpires1   == n1 :> 9

Symmetry == Permutations(Handler) \cup Permutations(Runner)
=============================================================================
