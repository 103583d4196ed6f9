CONSTANTS
  anyone = anyone
  zero = zero
  this = this
  phone = phone
  laptop = laptop
  profile = profile
  displayName = displayName
  DEFAULT_MEMBER = anyone
  ZERO = zero
  Self = this
  PROFILE_SECTION = profile
  NameKey = displayName
  Address <- MCAddress
  RivetInput <- MCRivetInput
  Section = {profile}
  Key = {displayName}
  Code = {}
  RoleInput = {}
  MaxSlots = 4
  MaxMessages = 0

SPECIFICATION Spec
SYMMETRY MCSymmetry

INVARIANTS
  GetRivetsReturns

CHECK_DEADLOCK FALSE
