SPECIFICATION ScanSpec
CONSTANTS
  r1 = r1
  r2 = r2
  a1 = a1
  a2 = a2
  a3 = a3
  roleA = roleA
  roleB = roleB
  session = session
  head = head
  list = list
  None = None
  Requests <- TwoHandlers
  Kinds <- EventsAndStatus
  CanFail = TRUE
  Scanner = r1
  FindingIds <- TwoFindings
  ActionIds <- ThreeActions
  Roles <- TwoRoles
  MaxAdvice = 1
  Calls <- TwoCalls
  Identities <- ThreeIdentities
  Times <- TwoTimes
  IssuedBy <- RoleIssues
  AdviceFor <- OneForHead
  Logs <- SmallLogs
  PageRows = 6
  MaxScans = 2
INVARIANTS
  ScanTypeOK
  RecordsEachCallOnce
  AllOrNothingIsRead
  OneFindingForAScan
  UpToDateBetweenEvents
  OnlyTheFirstIsOrphaned
PROPERTY OpensOnlyWhatIsMissing
SYMMETRY Interchange
CHECK_DEADLOCK FALSE
