CONSTANTS
  d1 = d1
  d2 = d2
  alice = alice
  bob = bob
  r1 = r1
  r2 = r2
  None = None
  Domain = {d1}
  Address = {alice}
  Token = {1}
  Wallet = {1, 2, 3}
  Request = {r1}
  Route = {"post", "dns"}
  SaveFaults = {}
  ReadFaults = {"init"}
  RootProvider = TRUE
  StrayRecords = TRUE

SPECIFICATION Spec

PROPERTIES
  WalletKept
