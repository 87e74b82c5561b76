\* Two offers of the same file at the same time.
SPECIFICATION Spec
CONSTANTS
  Clients = {c1, c2}
  Files = {f1}
  Threads = {t1, t2}
  Ratings = {0, 1}
  max_files_per_client = 1
  Setups <- MCTwoOffers
  MaxOffers = 1
  MaxOffer = 1
SYMMETRY Symmetry
INVARIANTS
  FileKeptWhileSourced
CHECK_DEADLOCK FALSE
