SPECIFICATION Spec
CONSTANTS
  g1 = g1
  g2 = g2
  k1 = k1
  k2 = k2
  k3 = k3
  op = op
  none = none
  Credentials = {g1, g2}
  KeyIds = {k1, k2}
  Operators = {op}
  NoId = none
  TimeMax = 1
  SessionTimeout = 1
  ChallengeTimeout = 1
  MaxCredentials = 1
  MaxRevoked = 1
  KeyPairs <- KeysOfBoth
  TrustAnchor = TRUE
  Provisioned <- ProtocolProvisioned
  Policies <- None
  MetadataUpdates <- None
  RevocationLists <- ListsIssued
  Answers <- RevocationAnswers
  MaxChallenges = 1
PROPERTIES
  GateSpec
