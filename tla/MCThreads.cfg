SPECIFICATION ThreadsSpec
CONSTANTS
  recv_tun = recv_tun
  recv_unsplit = recv_unsplit
  Senders = {recv_tun, recv_unsplit}
  NumPkts = 2
  NumSess = 2
  NumSeq = 2
  Idles = TRUE
SYMMETRY SendersAlike
INVARIANTS
  NoCircularWait
  QueuesSound
  PacketsKept
  NoSessionLost
  TablesSound
