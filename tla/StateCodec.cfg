SPECIFICATION CodecSpec
CONSTANTS
  none = none
  refused = refused
  Base = 64
  LengthSize = 1
  NumberSize = 1
  MaxBytes = 63
  MaxText = 3
  MaxReason = 4
  MaxCredentials = 2
  MaxDevices = 2
  MaxRevoked = 2
  SignatureSize = 2
  NonceSize = 1
  ContextSize = 1
  IdBytes <- IdChars
  ReasonBytes <- Printable
  StateTag = 61
  AuthTag = 62
  CrlTag = 63
  States <- Candidates
  Messages <- Signable
  NoMessage = none
  Refused = refused
INVARIANTS
  SavedIsLoaded
  LoadIsCanonical
  RefusesUnstorable
  SignedBytesDistinct
