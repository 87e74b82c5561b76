\* Three packets in up to three fragments, a limit of one search a second.
SPECIFICATION FairInbound
CONSTANTS
  max_tokens = 1
  MaxClock = 1
  MaxSets = 2
  HeaderLen = 2
  Streams <- MCStreams
  MaxArrivals = 3
INVARIANTS
  HandledInOrder
  RateBounded
  RefusedForCause
PROPERTIES
  AllServed
  EmptyEndsConnection
CHECK_DEADLOCK FALSE
