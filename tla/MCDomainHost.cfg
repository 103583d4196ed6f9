CONSTANTS
  d1 = d1
  d2 = d2
  alice = alice
  bob = bob
  r1 = r1
  r2 = r2
  None = None
  Domain = {d1}
  Address = {alice}
  Token = {1}
  Wallet = {1, 2, 3}
  Request = {r1, r2}
  Route = {"query"}
  SaveFaults = {}
  ReadFaults = {}
  RootProvider = TRUE
  StrayRecords = TRUE

SPECIFICATION Spec

INVARIANTS
  ServesRequestedHost
