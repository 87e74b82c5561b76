SPECIFICATION Spec
CONSTANTS
  Clients = {c1, c2}
  Workers = {w1, w2, w3}
  MaxEvents = 2
SYMMETRY Symmetry
INVARIANTS HandlerSeesLive MutualExclusion RefCountExact LiveWhileReferenced  NoLostWakeup
CHECK_DEADLOCK FALSE
