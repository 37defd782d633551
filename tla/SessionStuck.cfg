\* Two programs under one name.
SPECIFICATION Spec
CONSTANTS
  c1 = c1
  c2 = c2
  n1 = n1
  p1 = p1
  p2 = p2
  k1 = k1
  k2 = k2
  NoName = NoName
  NoCookie = NoCookie
  NoSSL = NoSSL
  Clients = {c1, c2}
  Validators = {}
  Names = {n1}
  Pointers = {p1, p2}
  Cookies = {k1, k2}
  MaxNonce = 2
SYMMETRY Symmetry
INVARIANTS SessionUsable
