SPECIFICATION FairSpec
CONSTANTS
  c1 = c1
  c2 = c2
  i1 = i1
  i2 = i2
  Names <- EntryNames
  Segments <- MCSegments
  Renames <- EntryRenames
  Sizes = {0}
  PropNames = {}
  Callers <- MCCallers
  Instances = {i1, i2}
  InstanceOf <- OneInstance
  Methods = {"Mkdir", "Create", "RemoveAll", "OpenFile"}
  MaxIDs = 3
  MaxVersion = 3
  MaxUpdates = 2
PROPERTIES AddsTakeTurns CallsReturn
