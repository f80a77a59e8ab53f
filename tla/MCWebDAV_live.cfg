SPECIFICATION FairSpec
CONSTANTS
  r1 = r1
  r2 = r2
  t1 = t1
  t2 = t2
  Names <- FlatNames
  Segments <- MCSegments
  Requests = {r1, r2}
  Tokens = {}
  Methods = {"MOVE", "PUT", "MKCOL", "PROPPATCH"}
  Several = {}
  Stores <- EmptyStore
  Bodies = {"empty"}
PROPERTIES TemporaryLocksGo
