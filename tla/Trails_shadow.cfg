SPECIFICATION Spec
CONSTANTS
  main = main
  side = side
  east = east
  west = west
  Nowhere = Nowhere
  Trail <- MCTrail
  Region <- MCRegion
  Home <- MCHome
  Rules <- MCNoTrailRule
  Denials <- MCNoDenials
  MaxDrift = 0
INVARIANT CoveredRegionsNotReported
CHECK_DEADLOCK FALSE
