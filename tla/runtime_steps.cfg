SPECIFICATION Spec
CONSTANTS
  p1 = p1
  p2 = p2
  None = None
  Capacity = 3
  Prefix = {p1, p2}
  Claim = {k1}
  ShapesOf <- MCShapesOf
  ClaimedPrefix <- MCClaimedPrefix
  Partials = {1}
  PressureSizes = {1, 2}
  MaxStep = 3
  Unit = 1
PROPERTIES EvictionRespectsRank LowPriorityYields FreshInsertionIsComplete EventsReplay ImplementsResidentSet
INVARIANTS LedgerAgrees HarmNamesTheBreak
