SPECIFICATION Spec
CONSTANTS
  Threads = {main, tun, split, udp, unsplit}
  NumIds = 4
  Heads = {h1, h2}
  Elems = {e1, e2, e3}
  Nowhere = nowhere
  Null = null
  Fds = {f1, f2}
  IntMax = 2
  MaxTime = 4
  Delays = {0, 1, 3}
  HmapNodes = {1, 2, 3, 4, 5, 6, 7, 8}
  NULL = NULL
  Arrays = {"a1", "a2"}
  HashOf <- EightHashes
INVARIANTS
  MutualExclusion
  NoStrayPost
  EachIdOnce
  Ring
  TableComplete
  WalkComplete
  PacketsSafe
PROPERTIES
  ImplementsMutex
  FreshOrExhausted
  ImplementsFifo
  ImplementsDeques
  DeadlineKept
