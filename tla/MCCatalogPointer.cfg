SPECIFICATION Spec
CONSTANTS
  c1 = c1
  ann = ann
  bob = bob
  null = null
  Community = {c1}
  Member = {ann, bob}
  CommunityOf <- MCCommunityOf
  Vault = {v1}
  Cid = {k1, k2}
  Request = {r1, r2, r3, r4}
  Version = {1, 2, 3}
  OtherBody = {vote}
SYMMETRY Symmetry
CHECK_DEADLOCK FALSE
INVARIANTS
  TypeOK
  ChainsVerify
  GrantsFormOneChain
  GrantsAudited
PROPERTIES
  PublishesAtomically
