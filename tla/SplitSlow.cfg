SPECIFICATION Spec
CONSTANTS
  NumMsgs = 2
  NSlices <- TwoSlices
  MAX_SLICE_NUM = 2
  NumSeq = 2
  ACK_TIMEOUT = 1
  IDLE_TIMEOUT = 1
  MAX_RETRY_TIMES = 1
  Links = {{"loses", "repeats", "delays"}}
  NetCap = 2
  SendCap = 1
  UpperCap = 1
INVARIANTS
  TypeOK
  TimerGuardsQueue
  Integrity
PROPERTIES
  ReapedQueueEmpty
