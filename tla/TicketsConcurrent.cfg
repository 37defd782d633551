\* Two connections, a failed statement and a restart, every interleaving, and
\* submitted tickets edited in any field.  Two codes: a ticket and the one it is
\* resold as, or two sales of one id.
SPECIFICATION Spec
CONSTANTS
  t1 = t1
  t2 = t2
  u1 = u1
  u2 = u2
  c1 = c1
  c2 = c2
  Threads = {t1, t2}
  Users = {u1, u2}
  Codes = {c1, c2}
  NEvents = 2
  PerEvent = 1
  Prices = {1}
  Seats = {"A"}
  AskingPrices = {1, 2}
  MaxOwned = 1
  MaxFaults = 1
  MaxRestarts = 1
SYMMETRY Symmetry
INVARIANTS IInv FaceValue NoTicketLost AdmissionBound StoredAsIssued
PROPERTIES ReplacedNotLost RevokedStaysRevoked
