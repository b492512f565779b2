SPECIFICATION ReportSpec
CONSTANTS
  p1 = p1
  p2 = p2
  p3 = p3
  None = None
  Capacity = 4
  Prefix = {p1, p2, p3}
  Claim = {1, 2, 3}
  ShapesOf <- MCShapesOf
  ClaimedPrefix <- MCClaimedPrefix
  Partials = {}
  PressureSizes = {1, 3}
  MaxStep = 7
  Unit = 12
  Experiments <- MCExperiments
CHECK_DEADLOCK FALSE
INVARIANTS AcceptedRangesSurvive RealizedWithinOraclePlans NegativeRegretNeedsFullPool PressureIsEvictions HarmMatchesReturns
