SPECIFICATION FairSpec
CONSTANTS
  Segments <- MCSegments
  Bodies <- MCBodies
  Trees <- MCTrees
  Requests <- MCRequests
  MaxRecursion = 3
  MaxEdits = 0
INVARIANTS CopyKeepsBodies
