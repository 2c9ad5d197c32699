SPECIFICATION Spec
CONSTANTS
  Senders = {"tun", "unsplit"}
  NumPkts = 2
  NumSess = 2
  NumSeq = 4
  Idles = FALSE
INVARIANT
  ThreadSafe
