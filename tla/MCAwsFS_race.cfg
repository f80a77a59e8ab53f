SPECIFICATION Spec
CONSTANTS
  c1 = c1
  c2 = c2
  i1 = i1
  i2 = i2
  Names <- TreeNames
  Segments <- MCSegments
  Renames <- TreeRenames
  Sizes = {0}
  PropNames = {}
  Callers <- MCCallers
  Instances = {i1, i2}
  InstanceOf <- OwnInstance
  Methods = {"Mkdir", "Create", "RemoveAll"}
  MaxIDs = 3
  MaxVersion = 5
  MaxUpdates = 2
INVARIANTS PathsLeadToEntries FilesHaveBodies
PROPERTIES  EditsAreAtomic
