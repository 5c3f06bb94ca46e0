CONSTANT NCells = 5
SPECIFICATION FairSpec
INVARIANTS ListsLinked EachCellInOneList AllFreedOnce
PROPERTIES ImplementsPool DestroyEnds
CHECK_DEADLOCK FALSE
