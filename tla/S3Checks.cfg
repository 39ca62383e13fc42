SPECIFICATION FairSpec
CONSTANTS
  logs = logs
  media = media
  east = east
  central = central
  NoRegion = NoRegion
  Listing = Listing
  Bucket <- MCBucket
  Region <- MCRegion
  FallbackRegion = east
  Home <- MCHome
  Rules <- Rule
  MaxDrift = 2
INVARIANTS
  TypeOK
  FindingsJustified
  SteadyFlawsFound
  DenialNeverRaises
  FaultsEndTheCheck
PROPERTIES
  CheckEnds
  ImplementsCheckPromise
\* a check that has returned or raised takes no further step
CHECK_DEADLOCK FALSE
