SPECIFICATION ProtocolSpec
CONSTANTS
  g1 = g1
  k1 = k1
  op = op
  none = none
  Credentials = {g1}
  KeyIds = {k1}
  Operators = {op}
  NoId = none
  TimeMax = 4
  SessionTimeout = 1
  ChallengeTimeout = 1
  MaxCredentials = 1
  MaxRevoked = 1
  KeyPairs <- KeyOfGlove
  TrustAnchor = TRUE
  Provisioned <- Registered
  Policies <- None
  MetadataUpdates <- None
  RevocationLists <- None
  Answers <- None
  MaxChallenges = 12
  Glove = g1
  GloveKey = k1
  CounterMax = 4
  MaxEvents = 3
INVARIANTS
  GloveNeverRepeats
  FloorBelowGlove
PROPERTIES
  Agreement
  GloveServed
