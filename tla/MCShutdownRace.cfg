\* A worker on its way into pthread_cond_wait when the signal comes.
SPECIFICATION SpecAll
CONSTANTS
  Clients = {c1}
  Workers = {w1, w2}
  MaxEvents = 1
PROPERTIES
  ShutdownCompletes
CHECK_DEADLOCK FALSE
