CONSTANTS
  d1 = d1
  d2 = d2
  alice = alice
  bob = bob
  r1 = r1
  r2 = r2
  None = None
  Domain = {d1, d2}
  Address = {alice, bob}
  Token <- MCToken
  Wallet <- MCWallet
  Request = {r1}
  Route <- MCRoute
  SaveFaults = {"saving"}
  ReadFaults = {"initRoot", "initBack", "infoRoot"}
  RootProvider = FALSE
  StrayRecords = FALSE

SPECIFICATION Spec

INVARIANTS
  TypeOK
  AdminProvedDomain
  SuccessIsDurable
  CachedWalletPersisted
  ToldIsGood

PROPERTIES
  WalletKept
  ImplementsClaimSpec
  EveryRequestAnswered
