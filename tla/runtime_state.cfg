SPECIFICATION Spec
CONSTANTS
  p1 = p1
  p2 = p2
  None = None
  Capacity = 3
  Prefix = {p1}
  Claim = {k1, k2}
  ShapesOf <- MCResized
  ClaimedPrefix <- MCClaimedPrefix
  Partials = {1}
  PressureSizes = {2}
  MaxStep = 3
  Unit = 1
INVARIANTS TypeOK NeverRaises IndexesExact OneBlockPerPosition AcceptedRangesProtected QueueListsResidents DecisionsFresh
