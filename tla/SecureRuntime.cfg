SPECIFICATION RuntimeSpec
CONSTANTS
  g1 = g1
  g2 = g2
  k1 = k1
  k2 = k2
  k3 = k3
  op = op
  none = none
  Credentials = {g1}
  KeyIds = {k1}
  Operators = {op}
  NoId = none
  TimeMax = 10
  SessionTimeout = 3
  ChallengeTimeout = 2
  MaxCredentials = 1
  MaxRevoked = 1
  KeyPairs <- ProtocolKeys
  TrustAnchor = TRUE
  Provisioned <- RuntimeProvisioned
  Policies <- None
  MetadataUpdates <- None
  RevocationLists <- None
  Answers <- None
  MaxChallenges = 2
  Width = 4
  Debounce = 1
  Glove = g1
  GloveKey = k1
  CommandTimes = {0, 1}
  ResponseTimes = {0, 1, 2}
  LoopDelay = 1
  Horizon = 7
INVARIANTS
  RuntimeTypeOK
  GateWindow
  OverrunBounded
  ChallengeSettled
  GateHeldLow
