SPECIFICATION Spec
CONSTANTS
  Flows = {f1, f2, f3}
  NULL = NULL
  NumIds = 2
  SOFT_TIMEOUT = 1
  Links = {{"loses", "repeats"}, {"delays"}}
  ChanCap = 2
INVARIANTS
  TypeOK
  TablesAgree
  RightFlow
PROPERTY
  UsesPool
