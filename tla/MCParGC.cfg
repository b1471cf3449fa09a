CONSTANTS
  NumWorkers = 2
  MaxCollections = 3
  MaxStates = 2
  Obj = {o1}
SPECIFICATION GCFairSpec
INVARIANTS NoUseAfterFree ListsOwned MarkAfterSubtract 
PROPERTIES CollectionEnds DestroyEnds
CHECK_DEADLOCK FALSE
