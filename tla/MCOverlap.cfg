SPECIFICATION Spec
CONSTANTS
  r1 = r1
  r2 = r2
  a1 = a1
  a2 = a2
  a3 = a3
  roleA = roleA
  roleB = roleB
  None = None
  Requests <- TwoHandlers
  Kinds <- AllKinds
  CanFail = TRUE
  FindingIds <- TwoFindings
  ActionIds <- TwoActions
  Roles <- TwoRoles
  MaxAdvice = 1
INVARIANTS
  TypeOK
  NoNilAdvisory
  DocumentGrounded
  CountReached
  OwnerHasTheRole
PROPERTY OriginKept
SYMMETRY Interchange
