SPECIFICATION FairSpec
CONSTANTS
  Flows = {f1, f2}
  NULL = NULL
  NumIds = 2
  SOFT_TIMEOUT = 1
  Links = {{"delays"}}
  ChanCap = 2
PROPERTY
  PendingSettles
