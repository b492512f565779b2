SPECIFICATION Spec
CONSTANTS
  k1 = k1
  k2 = k2
  k3 = k3
  Claim = {k1, k2, k3}
  Predicate <- MCPredicate
  Length = 3
INVARIANTS TypeOK WatchedStaysMaterialized HarmedOncePerAcceptance ResponsibleExactly
PROPERTIES ReleasedStaysSilent HarmFollowsNeeds
