\* One client over the limit for each worker, which takes six of them; low
\* ids wrap after the second.
SPECIFICATION MCSpec
CONSTANTS
  c1 = c1
  c2 = c2
  Clients = {c1, c2, c3, a1, a2, a3, a4, a5, a6}
  Users = {c1, c2, c3}
  Workers = {w1, w2}
  max_clients = 2
  Addr <- MCAddr
  MAX_LOWID = 2
INVARIANTS
  CountExact LimitWithSlack
  LowIdsFarApart NoRowsLeft
PROPERTIES
  RowsKept ListenerRecovers
CHECK_DEADLOCK FALSE
