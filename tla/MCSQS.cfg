SPECIFICATION FairSpec
CONSTANTS
  m1 = m1
  m2 = m2
  w1 = w1
  w2 = w2
  None = None
  Messages <- TwoMessages
  Workers <- TwoWorkers
  Poison <- OnePoison
  Panicking <- OnePoison
  CanShutdown = TRUE
  MaxRestarts = 1
INVARIANTS
  TypeOK
  NoEventLost
  DeletesWhatItHandled
PROPERTIES
  EventuallyHandled
  PollerStops
CHECK_DEADLOCK FALSE
