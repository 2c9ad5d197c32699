SPECIFICATION FairSpec
CONSTANTS
  NumMsgs = 3
  NSlices <- MixedSlices
  MAX_SLICE_NUM = 2
  NumSeq = 2
  ACK_TIMEOUT = 1
  IDLE_TIMEOUT = 2
  MAX_RETRY_TIMES = 1
  Links = {{"loses"}, {}}
  NetCap = 2
  SendCap = 2
  UpperCap = 1
PROPERTIES
  EveryMessageResolved
  EveryMessageConfirmed
