SPECIFICATION Spec
CONSTANTS
  main = main
  side = side
  east = east
  west = west
  Nowhere = Nowhere
  Trail <- MCTrail
  Region <- MCRegion
  Home <- MCHome
  Rules <- MCNoTrailRule
  Denials <- MCDenials
  MaxDrift = 0
INVARIANT DenialIsNoFinding
CHECK_DEADLOCK FALSE
