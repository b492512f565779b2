SPECIFICATION Spec
CONSTANTS
  None = None
  Conflicts <- MCConflicts
  Cost <- MCCost
CHECK_DEADLOCK FALSE
INVARIANTS FeasibleIffNeverBlocked WithinBudgetOrElsewhere ConflictIsLostOrPaid BoundingFitsHeadroom OracleGivesUpLeast OracleLeavesFittingAlone
