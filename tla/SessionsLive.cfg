\* A client and a validator under one name: every wait ends.
SPECIFICATION FairSpec
CONSTANTS
  c1 = c1
  c2 = c2
  n1 = n1
  p1 = p1
  p2 = p2
  p3 = p3
  k1 = k1
  k2 = k2
  NoName = NoName
  NoCookie = NoCookie
  NoSSL = NoSSL
  Clients = {c1, c2}
  Validators = {c2}
  Names = {n1}
  Pointers = {p1, p2, p3}
  Cookies = {k1}
  MaxNonce = 3
PROPERTIES EveryRequestEnds
