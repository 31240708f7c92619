SPECIFICATION FairSpec
CONSTANTS
  Subscribers = {s1, s2}
  Messages = {m1, m2}
  maxRetries = 3
  MaxCrashes = 1
  MaxLost = 1
  None = None
  s1 = s1
  s2 = s2
  m1 = m1
  m2 = m2
INVARIANT TypeOK
INVARIANT DeadLettersAreExhausted
INVARIANT EndsInOrder
PROPERTY NothingVanishes
CHECK_DEADLOCK FALSE
