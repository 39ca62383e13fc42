SPECIFICATION Spec
CONSTANTS
  logs = logs
  media = media
  east = east
  central = central
  NoRegion = NoRegion
  Listing = Listing
  Bucket <- MCBucket
  Region <- MCRegion
  FallbackRegion = east
  Home <- MCHome
  Rules <- MCTlsRule
  MaxDrift = 1
INVARIANT OnlyFailingBuckets
CHECK_DEADLOCK FALSE
