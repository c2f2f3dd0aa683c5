---------------------------- MODULE MCMembership ----------------------------
(***************************************************************************)
(* Small instances of Membership.  Rows with random ids are                *)
(* interchangeable, and so are keys, serial numbers and handlers.          *)
(***************************************************************************)
EXTENDS Membership, TLC

Symmetry ==
  Permutations(Key) \cup Permutations(Serial) \cup Permutations(Challenge)
    \cup Permutations(Nonce) \cup Permutations(Session) \cup Permutations(Invite)
    \cup Permutations(Join) \cup Permutations(Handler)
=============================================================================
