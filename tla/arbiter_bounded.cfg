SPECIFICATION Spec
CONSTANTS
  None = None
  Conflicts <- MCPlainConflicts
  Cost <- MCCost
CHECK_DEADLOCK FALSE
INVARIANT BoundedMeansBounded
