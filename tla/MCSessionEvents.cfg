\* Two logins before the port check ends.
SPECIFICATION Spec
CONSTANTS
  MaxPackets = 3
  MaxLogins = 2
INVARIANTS
  AllEventsDeleted
CHECK_DEADLOCK FALSE
