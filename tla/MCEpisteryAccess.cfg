CONSTANTS
  anyone = anyone
  zero = zero
  alice = alice
  s1 = s1
  s2 = s2
  c1 = c1
  c2 = c2
  DEFAULT_MEMBER = anyone
  ZERO = zero
  Address <- MCAddress
  Section <- MCSection
  Code <- MCCode
  RoleInput <- MCRoleInput
  Key = {}

SPECIFICATION Spec
SYMMETRY MCSymmetry

INVARIANTS
  TypeOK
  IndexMatchesList
  MembershipsMirrorACL
  SectionsCatalogued

PROPERTIES
  InvitesAreFinal
  UnmanagedSectionFrozen
  ImplementsAccessSpec
