SPECIFICATION Spec
CONSTANTS
  acctA = acctA
  acctB = acctB
  rA = rA
  rB = rB
  polA = polA
  polB = polB
  s1 = s1
  s2 = s2
  s3 = s3
  id1 = id1
  id2 = id2
  id3 = id3
  id4 = id4
  Source = fixtureSource
  Target = fixtureTarget
  Unrelated = fixtureUnrelated
  Accounts <- TwoAccounts
  Roles <- TwoRoles
  Policies <- TwoPolicies
  Stacks <- ThreeStacks
  PhysicalIds <- FourIds
  Worlds <- SmallWorlds
INVARIANTS
  TypeOK
  NobodyAddsWhileReading
  RolesHaveTheirPolicies
  LinksAreTheTrustRelation
  LookupsFindTheStack
PROPERTY StartEnds
CHECK_DEADLOCK FALSE
