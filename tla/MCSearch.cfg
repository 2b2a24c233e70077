\* Searches with up to two filters and a term, walked to the end.
SPECIFICATION Spec
CONSTANTS
  Matches <- Matched
  Ranking <- SomeOrder
  FilterLists <- UpToTwo
  Terms <- SomeTerm
  Limits <- AnyLimit
  MaxLimit = 30
  DefaultLimit = 13
INVARIANTS WalkInOrder NothingUnwanted NothingMissed
CHECK_DEADLOCK FALSE
