SPECIFICATION Spec
CONSTANTS
  Flows = {f1, f2}
  NULL = NULL
  NumIds = 2
  SOFT_TIMEOUT = 2
  Links = {{}}
  ChanCap = 2
INVARIANT
  AssertionsHold
