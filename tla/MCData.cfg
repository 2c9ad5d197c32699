SPECIFICATION Spec
CONSTANTS
  B = 16
  N = 6
  LINK_MTU = 6
  DataLen = 5
  NoiseLen = 1
  MTU = 1000
  Hdr = 18
  SliceData = 32
  SliceLen = 36
  Lengths = {1, 32, 33, 500, 864, 865, 1500}
  Edges = {0, 8, 26, 36, 400, 500, 936, 972}
  CommonEscapes = {0, 2}
  DataEscapes = {0, 8}
  PatchEscapes = {0, 2}
  W = 3
  MAX_SLICE_NUM = 8
  Flows = {f1, f2}
  INTERVAL = 3
  HALF = 8
  MaxNow = 12
  Bodies <- ThreeBodies
  Trials <- SomeTrials
INVARIANTS
  ZeroMeansRight
  AtMostOneCarryLost
  DataRestored
  CutSound
  BitmapExact
  ChecksumsGuard
  TablesDivide
  PacketsRestored
PROPERTIES
  LoopEnds
  ForgottenInTime
CHECK_DEADLOCK FALSE
