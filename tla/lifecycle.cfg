CONSTANTS
  MaxFaults = 2
SPECIFICATION FairSpec
INVARIANTS
  TypeOK
  ReadersHaveTopics
  NoTransactionCut
  HandlersOutlived
PROPERTY StopsInTheEnd
CHECK_DEADLOCK FALSE
