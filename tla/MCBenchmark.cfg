\* Up to three clients that share a budget of up to two actions.
SPECIFICATION FairBench
CONSTANTS
  MaxClients = 3
  MaxRepeat = 2
INVARIANTS
  EndsComplete
PROPERTIES
  Ends
CHECK_DEADLOCK FALSE
