SPECIFICATION PartSpec
CONSTANTS
  null = null
  Member = {ann, bob}
  Choice = {yes, no}
  Artifact = {a1}
  Handler = {h1, h2}
  Runner = {m1, m2}
  ClosesAt = 0
  MaxDay = 1
  MeshNodes <- ThreeNodes
  FailureDomain <- TwoDomains
  Space <- LittleRoom
  Blob = {o1, o2}
  Target = 2
  MaxPlacements = 4
  Signer = {alice, carol}
  Founder = alice
  Box = {n1}
  Thing = {o}
  PlacementId = {p1, p2}
  Vault = {v1}
  Cid = {x}
  Proposal = {q1}
  Nonce = {r1}
  Challenge = {c1}
  CreditKey = {k1, k2}
  Amount <- GiveOrTake
  MaxCredit = 1
  Moment = {0, 1}
  Skew = 0
  ChallengeLife = 0
  MaxTrail = 5
  Whole = 4
  MaxAmount = 7
  Offer <- FourOffers
  Terms <- TwoBudgets
  Runtime = {"tee", "laptop"}
  Approved = {"tee"}
  Operator = {"rail", "stranger"}
  Trusted = {"rail"}
  Community = {next}
  Limit = 1
  RecordLife = 1
  MaxTime = 2
  MaxRecords = 7
  DemoNodes <- OneNode
  MaxCuts = 1
  Pid = {1, 2, 3, 4}
SYMMETRY Symmetry
CHECK_DEADLOCK FALSE
INVARIANTS
  PartsOK
  RecordsAudited
  AnchorsMatchTheChain
  OutagesHideNothing
  TrailTellsAll
  ReceiptsAreEarned
  NothingLeftBehind
PROPERTIES
  PublishedStays
