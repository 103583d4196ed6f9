SPECIFICATION Spec
CONSTANTS
  w1 = w1
  w2 = w2
  p1 = p1
  l1 = l1
  c1 = c1
  f1 = f1
  f2 = f2
  t1 = t1
  t2 = t2
  None = None
  Rivet = {w1, w2}
  Other = {p1}
  Local = {l1}
  Contract = {c1}
  Tab = {t1, t2}
  Flow = {f1, f2}
  Evictions = 1
  Legacy <- MCLegacy
  Call <- MCCall
SYMMETRY Symmetry
INVARIANTS
  TypeOK
  DefaultListed
  BornWithKey
  OnlyRivetsEngage
  BoundAsInvited
CHECK_DEADLOCK FALSE
