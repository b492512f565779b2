SPECIFICATION Spec
CONSTANTS
  Batches <- MCBatches
  Capacities = {0, 1, 2, 3, 4, 5}
CHECK_DEADLOCK FALSE
INVARIANTS TypeOK NobodyGetsAhead BestClaimsFirst PlanIsOnePass
PROPERTIES ImplementsAllocation
