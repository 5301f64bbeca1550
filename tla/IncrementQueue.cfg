SPECIFICATION Spec
CONSTANTS
  MaxReviews = 1
  Deliveries = {d1, d2, d3}
  MaxDispatch = 2
  MaxFaults = 1
INVARIANTS
PROPERTIES
  RunsOnce
  DrainedInOrder
SYMMETRY DeliverySymmetry
CHECK_DEADLOCK FALSE
