SPECIFICATION Spec
CONSTANTS
  r1 = r1
  r2 = r2
  t1 = t1
  t2 = t2
  Names <- DeepNames
  Segments <- MCSegments
  Requests = {r1, r2}
  Tokens = {t1, t2}
  Methods = {"DELETE", "MOVE", "LOCK"}
  Several = {"DELETE"}
  Stores <- EmptyOrDeep
  Bodies = {"empty"}
SYMMETRY Swap
INVARIANTS TypeOK   NoLockLeftBehind
PROPERTIES LockUndoneOnError 
