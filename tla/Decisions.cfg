SPECIFICATION Spec
CONSTANTS
  Documents <- MCDocuments
  KeyLists <- MCKeyLists
  MaxAges <- MCMaxAges
  Pauses = {1, 24}
  LastHour = 26
INVARIANTS
  TypeOK
  YesIsRight
  NoIsRight
  StaleKeysFound
\* a loop that is over takes no further step
CHECK_DEADLOCK FALSE
