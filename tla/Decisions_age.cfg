SPECIFICATION Spec
CONSTANTS
  Documents <- MCDocuments
  KeyLists <- MCKeyLists
  MaxAges <- MCMaxAges
  Pauses = {1, 24}
  LastHour = 26
INVARIANT ReportedAgesExceed
CHECK_DEADLOCK FALSE
