CONSTANTS
  d1 = d1
  d2 = d2
  alice = alice
  bob = bob
  r1 = r1
  r2 = r2
  None = None
  Domain = {d1}
  Address = {alice, bob}
  Token <- MCToken
  Wallet <- MCWallet
  Request = {r1, r2}
  Route = {"post", "dns"}
  SaveFaults = {"saving", "initSave"}
  ReadFaults = {}
  RootProvider = TRUE
  StrayRecords = TRUE

SPECIFICATION Spec

INVARIANTS
  ClaimsAreEarned

PROPERTIES
  EveryRequestAnswered
