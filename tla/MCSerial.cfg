SPECIFICATION Spec
CONSTANTS
  r1 = r1
  r2 = r2
  a1 = a1
  a2 = a2
  a3 = a3
  roleA = roleA
  roleB = roleB
  None = None
  Requests <- OneHandler
  Kinds <- AllKinds
  CanFail = FALSE
  FindingIds <- TwoFindings
  ActionIds <- ThreeActions
  Roles <- OneRole
  MaxAdvice = 2
INVARIANT UpToDate
PROPERTY ImplementsAtomic
SYMMETRY Interchange
