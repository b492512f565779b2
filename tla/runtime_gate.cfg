SPECIFICATION Spec
CONSTANTS
  p1 = p1
  p2 = p2
  None = None
  Capacity = 2
  Prefix = {p1, p2, p3}
  Claim = {}
  ShapesOf <- MCDensities
  ClaimedPrefix <- MCClaimedPrefix
  Partials = {}
  PressureSizes = {1}
  MaxStep = 3
  Unit = 1
PROPERTY AdmittedBeatsVictims
