SPECIFICATION Spec
CONSTANTS
  null = null
  Key = {k1, k2}
  Serial = {e1, e2, e3}
  Challenge = {c1, c2}
  Nonce = {n1, n2}
  Session = {s1, s2}
  Invite = {i1, i2}
  Join = {j1, j2}
  Handler = {h1, h2}
  ChallengeLife = 0
  SessionLife = 0
  InviteLife = 0
  CredentialLife = 1
  MaxTime = 1
SYMMETRY Symmetry
CHECK_DEADLOCK FALSE
INVARIANTS
  TypeOK
  TokensWorkOnce
  MembersHoldCredentials
PROPERTIES
  RevocationIsFinal
