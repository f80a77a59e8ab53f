SPECIFICATION BootSpec
CONSTANTS
  c1 = c1
  c2 = c2
  i1 = i1
  i2 = i2
  Names <- EntryNames
  Segments <- MCSegments
  Renames <- EntryRenames
  Sizes = {0, 1}
  PropNames = {"p"}
  Callers <- MCCallers
  Instances = {i1, i2}
  InstanceOf <- OwnInstance
  Methods = {"Create", "RemoveAll", "OpenFile"}
  MaxIDs = 2
  MaxVersion = 3
  MaxUpdates = 3
  StartTogether = FALSE
PROPERTIES VersionGrows NoLostUpdate
