SPECIFICATION FairSpec
CONSTANTS
  Segments <- MCSegments
  Bodies <- MCBodies
  Trees <- MCTrees
  Requests <- MCRequests
  MaxRecursion = 3
  MaxEdits = 1
INVARIANTS TypeOK CopyExact MoveExact WholeMeansComplete 
PROPERTIES OnlyItsPaths RequestEnds
