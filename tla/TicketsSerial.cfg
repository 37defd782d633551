\* One connection at a time, no failure: the service is a market.
SPECIFICATION Spec
CONSTANTS
  t1 = t1
  u1 = u1
  u2 = u2
  c1 = c1
  c2 = c2
  c3 = c3
  Threads = {t1}
  Users = {u1, u2}
  Codes = {c1, c2, c3}
  NEvents = 2
  PerEvent = 1
  Prices = {1}
  Seats = {"A"}
  AskingPrices <- BelowAndAboveFace
  MaxOwned = 1
  MaxFaults = 0
  MaxRestarts = 0
INVARIANTS SerialInv TypeOK PurchaseLimit
PROPERTIES ImplementsMarket
