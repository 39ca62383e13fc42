SPECIFICATION FairSpec
CONSTANTS
  N = 2
  Rules <- Rule
  Denials <- MCDenials
  MaxDrift = 2
INVARIANTS
  TypeOK
  FindingsJustified
  SteadyFlawsFound
  DenialsContained
  FaultsEndTheCheck
PROPERTIES
  CheckEnds
  ImplementsCheckPromise
\* a check that has returned or raised takes no further step
CHECK_DEADLOCK FALSE
