SPECIFICATION CliSpec
CONSTANTS
  rootMfa = rootMfa
  trailOff = trailOff
  nameless = nameless
  typo = typo
  iam = iam
  logs = logs
  east = east
  west = west
  x = x
  NoRegion = NoRegion
  Check <- MCCheck
  GlobalCheck <- MCGlobalCheck
  UnknownRule = {typo}
  Region <- MCRegion
  FallbackRegion = east
  Resource <- MCResource
  BuildError <- MCBuildError
  CheckLists <- MCCheckLists
  RegionLists <- MCRegionLists
  SessionRegions <- MCSessionRegions
  RuleFilters <- MCRuleFilters
  Conceivable <- MCFlaws
  Misreading <- MCMisreading
  MaxDrift = 1
  Service <- MCService
  ServiceOf <- MCServiceOf
  DeclaredLists <- MCDeclaredLists
  Malformed <- MCMalformed
  Severity <- MCSeverity
INVARIANT AccessFailuresRecorded
\* a command that is over takes no further step
CHECK_DEADLOCK FALSE
