\* One worker, where everything is exact, and two, where packets of up to two
\* files fail half-way and the limit is reached while offers are under way.
SPECIFICATION Spec
CONSTANTS
  Clients = {c1, c2, c3}
  Files = {f1, f2}
  Threads = {t1, t2}
  Ratings = {0, 1}
  max_files_per_client = 1
  Setups <- MCSetups
  MaxOffers = 2
  MaxOffer = 2
SYMMETRY Symmetry
INVARIANTS
  IndexExact
  GoneLeavesNothing
  NeverOvercounted
  FoundByName
  FilesWithinSlack
CHECK_DEADLOCK FALSE
