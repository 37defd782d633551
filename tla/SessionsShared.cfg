\* Two copies of Client and one of Validator, under two names.
SPECIFICATION Spec
CONSTANTS
  c1 = c1
  c2 = c2
  c3 = c3
  n1 = n1
  n2 = n2
  p1 = p1
  p2 = p2
  k1 = k1
  k2 = k2
  NoName = NoName
  NoCookie = NoCookie
  NoSSL = NoSSL
  Clients = {c1, c2, c3}
  Validators = {c3}
  Names = {n1, n2}
  Pointers = {p1, p2}
  Cookies = {k1, k2}
  MaxNonce = 2
SYMMETRY Symmetry
INVARIANTS IInv TypeOK NonceInSync OwnCookies
PROPERTIES DeadCookiesStayDead
