SPECIFICATION Spec
CONSTANTS
  NumMsgs = 3
  NSlices <- MixedSlices
  MAX_SLICE_NUM = 2
  NumSeq = 3
  ACK_TIMEOUT = 1
  IDLE_TIMEOUT = 2
  MAX_RETRY_TIMES = 1
  Links = {{"loses"}, {"loses", "repeats"}}
  NetCap = 3
  SendCap = 1
  UpperCap = 2
INVARIANT
  UpperInOrder
PROPERTY
  ImplementsService
