SPECIFICATION Spec
CONSTANTS
  DeadNames = {"n", "m"}
  FileLive = {"getcontentlength"}
  AnyLive = {}
  HiddenLive = {"creationdate"}
  Values = {"", "v"}
  MaxInclude = 1
  MaxNames = 2
INVARIANTS DeadNeverLive EachNameInOne
PROPERTIES PatchesAreAtomic
