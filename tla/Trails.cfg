SPECIFICATION FairSpec
CONSTANTS
  main = main
  side = side
  east = east
  west = west
  Nowhere = Nowhere
  Trail <- MCTrail
  Region <- MCRegion
  Home <- MCHome
  Rules <- Rule
  Denials <- MCDenials
  MaxDrift = 2
INVARIANTS
  TypeOK
  OneReportPerTrail
  FindingsJustified
  SteadyFlawsFound
PROPERTIES
  RegionsEnd
  ImplementsPromise
\* a scan that is over takes no further step
CHECK_DEADLOCK FALSE
