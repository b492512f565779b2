SPECIFICATION Spec
CONSTANTS
  None = None
  Batches <- MCBatches
  Capacities = {0, 1, 2, 3, 4, 5}
CHECK_DEADLOCK FALSE
INVARIANTS WithinCapacity DensestThatFit OracleIsOptimal AbstractOracleIsBound
