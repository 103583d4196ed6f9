SPECIFICATION Spec
CONSTANTS
  sa = sa
  sb = sb
  server = server
  j1 = j1
  j2 = j2
  Unit = 10
  Signer = {sa, sb}
  Server = server
  Job = {j1, j2}
  Net = {"polygon", "ethereum", "joc", "legacy"}
  Base = {100, 140, 6000}
  Estimate = 80
  Moves = 1
  Faults = 1
INVARIANTS
  TypeOK
  PreparedIsAccepted
  WritesWithinPolicy
PROPERTIES
  BroadcastsEnd
CHECK_DEADLOCK FALSE
