SPECIFICATION Spec
CONSTANTS
  ra = ra
  rb = rb
  c1 = c1
  p1 = p1
  p2 = p2
  None = None
  Rivet = {ra, rb}
  Contract = {c1}
  Page = {p1, p2}
  Attempts = 2
  Faults = 1
INVARIANTS
  TypeOK
  CookieVouched
  SessionNamesIdentity
PROPERTIES
  HandshakeEnds
  RevokedSessionsEnd
  BindHeals
