CONSTANTS
  p1 = p1
  p2 = p2
  v1 = v1
  g1 = g1
  Persons = {p1, p2}
  Visitors = {v1}
  Guests = {g1}
  Mail <- MCMail
  OwnMail <- MCOwnMail
  Workers = {w1, w2}
  MaxRequests = 4
  MaxEvents = 1
SYMMETRY Symmetry
SPECIFICATION Spec
INVARIANTS
  TokenCarriesRole
  ExchangesBounded
  LoginFailsForReason
