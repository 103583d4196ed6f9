SPECIFICATION Spec
CONSTANTS
  w1 = w1
  w2 = w2
  p1 = p1
  l1 = l1
  c1 = c1
  f1 = f1
  f2 = f2
  t1 = t1
  t2 = t2
  None = None
  Rivet = {w1, w2}
  Other = {p1}
  Local = {}
  Contract = {c1}
  Tab = {t1}
  Flow = {f1, f2}
  Evictions = 1
  Legacy <- MCLegacyBind
  Call <- MCCallBind
PROPERTIES
  BindingPersisted
CHECK_DEADLOCK FALSE
