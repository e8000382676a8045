SPECIFICATION Spec
CONSTANTS
  g1 = g1
  g2 = g2
  k1 = k1
  k2 = k2
  k3 = k3
  op = op
  none = none
  Credentials = {g1, g2}
  KeyIds = {k1, k2, k3}
  Operators = {op}
  NoId = none
  TimeMax = 1
  SessionTimeout = 1
  ChallengeTimeout = 1
  MaxCredentials = 2
  MaxRevoked = 1
  KeyPairs <- KeysOfBoth
  TrustAnchor = TRUE
  Provisioned <- ProtocolProvisioned
  Policies <- None
  MetadataUpdates <- MetadataSteps
  RevocationLists <- None
  Answers <- MetadataAnswers
  MaxChallenges = 1
INVARIANTS
  SessionBacked
  FloorsSurvive
