SPECIFICATION Spec
CONSTANTS
  r1 = r1
  r2 = r2
  a1 = a1
  a2 = a2
  a3 = a3
  roleA = roleA
  roleB = roleB
  None = None
  Requests <- TwoHandlers
  Kinds <- EventsAndEdits
  CanFail = FALSE
  FindingIds <- OneFinding
  ActionIds <- TwoActions
  Roles <- OneRole
  MaxAdvice = 1
INVARIANT UpToDate
