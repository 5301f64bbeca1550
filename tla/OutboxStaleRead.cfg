\* Two writers of one session, each having read it before it appends.
CONSTANTS
  w1 = w1
  w2 = w2
  u1 = u1
  d1 = d1
  d2 = d2
  c1 = c1
  c2 = c2
  c3 = c3
  Writers <- TwoWriters
  Users <- OneUser
  Dispatchers <- NoDispatcher
  Tokens <- ThreeTokens
  MaxEvents = 2
  MaxAttempts = 1
  BatchSize = 1
  MaxFaults = 0
SPECIFICATION Spec
CHECK_DEADLOCK FALSE
INVARIANTS
  AllocationIsAtomic
