SPECIFICATION Spec
CONSTANTS
  Names <- MCNames
  Segments <- MCSegments
  Bytes <- MCBytes
  Flags <- MCFlags
  Handles = {h1}
  MaxNodes = 4
  MaxSize = 2
  MaxDepth = 2
INVARIANTS HoldsWhatWasWritten
PROPERTIES ImplementsTree
