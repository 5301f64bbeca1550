\* Two tasks, one of them billed, that compete for one slot.
CONSTANTS
  t1 = t1
  t2 = t2
  Tasks <- TwoTasks
  Billed <- OneBilled
  Maxima = {1}
  Thirds = {1}
SPECIFICATION LiveSpec
CHECK_DEADLOCK FALSE
INVARIANTS
  WorkingIsOwned
  WorkingWithinMaxima
  CleanedUp
PROPERTIES
  LiveSlotIsKept
  CapacityReturns
  EverySlotEnds
