SPECIFICATION Spec
CONSTANTS
  p1 = p1
  p2 = p2
  clientA = clientA
  clientB = clientB
  tab1 = tab1
  tab2 = tab2
  old = old
  t1 = t1
  t2 = t2
  t3 = t3
  t4 = t4
  None = None
  Invocations <- TwoInvocations
  Clients <- OneClient
  Users <- OneUser
  Tokens <- FiveTokens
  Files <- OldFile
INVARIANTS
  TypeOK
  UnknownIsRejected
  ValidIsAccepted
  KeepsItsTokens
  ConfigNamesTheServer
SYMMETRY Interchange
CHECK_DEADLOCK FALSE
