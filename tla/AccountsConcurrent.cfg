\* Two connections, two failed statements, two starts.
SPECIFICATION Spec
CONSTANTS
  t1 = t1
  t2 = t2
  w1 = w1
  w2 = w2
  i1 = i1
  i2 = i2
  Threads = {t1, t2}
  Names = {"ana", "Ana", "rui"}
  Passwords = {w1, w2}
  UserIds = {i1, i2}
  DummyEvents <- FirstEvents
  EventNames = {"websummit", "calculo", "Calculo"}
  Fold <- Spellings
  TicketsPerEvent = 1
  MaxFaults = 2
  MaxStarts = 2
SYMMETRY Symmetry
INVARIANTS IInv TypeOK OneSignUpPerName SignedInAsRegistered ServedForSelf EventIdsOfCatalogue CatalogueOnSale
