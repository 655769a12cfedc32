SPECIFICATION Spec
CONSTANTS
  Processes = {p1, p2}
  Host = Host
  Sizes <- MCSizes
  Areas <- MCAreas
  IntMax = 7
  MaxDisplays = 2
  MaxDraws = 3
SYMMETRY ProcessSymmetry
INVARIANTS TypeOK IdsNotReused DrawRunsLiveCode DrawStaysInside
