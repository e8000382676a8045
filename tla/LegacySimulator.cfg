SPECIFICATION Spec
CONSTANTS
  glove = glove
  spare = spare
  tag = tag
  none = none
  never = never
  Registered = {glove, spare}
  Strangers = {tag}
  NoId = none
  NoDeadline = never
  Configurations <- Tables
  GracePeriods = {0, 2}
  TimeMax = 4
INVARIANTS
  TypeOK
  SessionAuthentic
  AuthMirrorsDevice
  GateEventFaithful
  DenialTold
  NeverInconsistent
PROPERTIES
  ReportCurrent
  StartedByOperator
