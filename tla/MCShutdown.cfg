\* The signal may come at any time, with workers in every stage of a job.
SPECIFICATION SpecAll
CONSTANTS
  Clients = {c1}
  Workers = {w1, w2}
  MaxEvents = 3
INVARIANTS
  ReleasedUnused
PROPERTIES
  TcpJoined
  EndsUnlessRacing
  JobServed
  DeletedIsFreed
CHECK_DEADLOCK FALSE
