SPECIFICATION LoopSpec
CONSTANTS
  Names <- MCNames
  Segments <- MCSegments
  MaxLength = 4
INVARIANTS LoopIsMovedTree
