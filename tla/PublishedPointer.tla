-------------------------- MODULE PublishedPointer --------------------------
(***************************************************************************)
(* What the coordinator promises about catalog pointers, with no handler,  *)
(* no database round trip and no concurrency: a publication is granted at  *)
(* one instant, at which it directly follows the pointer of its vault.     *)
(***************************************************************************)
EXTENDS Naturals

CONSTANTS Vault, Item, Request, null

VARIABLES
  pointer,  \* pointer[v]: the published pointer of vault v, or null
  granted   \* the granted publications, each with the request it answers

pVars == <<pointer, granted>>

\* item is the next link after row: version + 1, same owner, linked by cid.
Follows(row, item) ==
  IF row = null
  THEN item.version = 1 /\ item.previousCid = null
  ELSE /\ item.owner = row.owner
       /\ item.version = row.version + 1
       /\ item.previousCid = row.catalogCid

PInit ==
  /\ pointer = [v \in Vault |-> null]
  /\ granted = {}

Grant(r, item) ==
  /\ \A g \in granted : g.request # r
  /\ Follows(pointer[item.vault], item)
  /\ pointer' = [pointer EXCEPT ![item.vault] = item]
  /\ granted' = granted \cup {[request |-> r, item |-> item]}

PNext == \E r \in Request, item \in Item : Grant(r, item)

PSpec == PInit /\ [][PNext]_pVars
=============================================================================
