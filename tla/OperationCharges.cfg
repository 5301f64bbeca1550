\* One operation under every policy, beside a refund, with late, lost, unknown and reviewed results.
CONSTANTS
  o1 = o1
  c1 = c1
  c2 = c2
  Operations <- OneOperation
  Calls <- TwoCalls
  Costs = {1, 3}
  Scale = 2
  InitialReserve = 1
  Funds = 2
  Limit = 1
SPECIFICATION Spec
SYMMETRY CallSymmetry
CHECK_DEADLOCK FALSE
INVARIANTS
  ClosedHoldsNothing
  ChargedExactly
  NothingForgotten
PROPERTIES
  PolicyRespected
  ReservedIsFree
