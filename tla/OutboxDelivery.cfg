\* Two writers, two dispatchers, and a crash, a database error or a claim that
\* times out while it is handled.
CONSTANTS
  w1 = w1
  w2 = w2
  u1 = u1
  d1 = d1
  d2 = d2
  c1 = c1
  c2 = c2
  c3 = c3
  Writers <- TwoWriters
  Users <- OneUser
  Dispatchers <- TwoDispatchers
  Tokens <- ThreeTokens
  MaxEvents = 2
  MaxAttempts = 2
  BatchSize = 2
  MaxFaults = 1
SPECIFICATION LiveSpec
INVARIANTS
  SequenceOrder
  SoleHandler
  FailedAfterAllAttempts
PROPERTIES
  DeliversAtLeastOnce
  EveryRowSettles
