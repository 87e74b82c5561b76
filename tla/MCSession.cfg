\* Two logins: the second may restart the port check or follow its end.
SPECIFICATION FairSpec
CONSTANTS
  MaxPackets = 3
  MaxLogins = 2
INVARIANTS
  NoStrandedInput
  PointersValid
  StatusKeepsComing
  SilentAfterDelete
PROPERTIES
  LoginAnswered
  ImplementsClientLife
CHECK_DEADLOCK FALSE
