\* A resale and a purchase of the same id on two connections.
SPECIFICATION Spec
CONSTANTS
  t1 = t1
  t2 = t2
  u1 = u1
  u2 = u2
  c1 = c1
  c2 = c2
  Threads = {t1, t2}
  Users = {u1, u2}
  Codes = {c1, c2}
  NEvents = 1
  PerEvent = 1
  Prices = {1}
  Seats = {"A"}
  AskingPrices = {1}
  MaxOwned = 2
  MaxFaults = 0
  MaxRestarts = 0
SYMMETRY Symmetry
INVARIANTS SellerLosesAccess
