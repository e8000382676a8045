SPECIFICATION Spec
CONSTANTS
  g1 = g1
  g2 = g2
  k1 = k1
  k2 = k2
  k3 = k3
  op = op
  none = none
  Credentials = {g1}
  KeyIds = {k1}
  Operators = {op}
  NoId = none
  TimeMax = 3
  SessionTimeout = 2
  ChallengeTimeout = 1
  MaxCredentials = 1
  MaxRevoked = 1
  KeyPairs <- ProtocolKeys
  TrustAnchor = TRUE
  Provisioned <- ProtocolProvisioned
  Policies <- None
  MetadataUpdates <- None
  RevocationLists <- None
  Answers <- ProtocolAnswers
  MaxChallenges = 2
INVARIANTS
  TypeOK
  ChallengeExclusive
  DecisionCurrent
  TraceFaithful
  MemoryIsDurable
PROPERTIES
  NoReplay
  FaultsLatch
